------------------------------ MODULE NetServer ------------------------------
(***************************************************************************)
(* NetServer of src/ipc/socket/c++/Sample/Server: a server thread serves   *)
(* one client at a time; a send thread per accepted connection takes       *)
(* messages out of a mailbox for one message, which SendMessage fills; the *)
(* destructor stops the server thread.  The flags and the descriptor are   *)
(* read and written without a lock; the mailbox is used under that of      *)
(* m_condClientSend, so each of its critical sections is one action.       *)
(*                                                                         *)
(* Connections are never closed by the server, hence each has a descriptor *)
(* of its own.  The program handles SIGINT alone: a write that raises      *)
(* SIGPIPE kills it.                                                       *)
(***************************************************************************)
EXTENDS Naturals, FiniteSets

CONSTANTS
    Conns,      \* connections clients may make; bound: each is made once
    Messages,   \* bound: each is offered to SendMessage once, by a call of its own
    NULL        \* no connection (-1), or no message

ASSUME NetServerAssumption == NULL \notin Conns /\ NULL \notin Messages

VARIABLES
    peer, unread,           \* what became of each connection; the client sent more to read
    stopServer, stopClient, \* m_bStopServer, m_bStopClient
    clientFD, listening,    \* m_iClientFD; m_iServerFD listens
    pc, conn,               \* where the server thread is, and the connection it watches
    sender, hand,           \* where each send thread is, and the message in its pSendBuffer
    mail,                   \* the message in m_pSendBuffer
    call, out,              \* what became of each call of SendMessage; the messages written
    dtor, alive             \* where the destructor is; the process was not killed

net == <<peer, unread>>
flags == <<stopServer, stopClient>>
server == <<pc, conn, listening>>
send == <<sender, hand, mail, call, out>>
vars == <<net, flags, clientFD, server, send, dtor, alive>>

Init ==
    /\ peer = [k \in Conns |-> "away"] /\ unread = [k \in Conns |-> FALSE]
    /\ stopServer = FALSE /\ stopClient = FALSE
    /\ clientFD = NULL /\ listening = FALSE
    /\ pc = "setup" /\ conn = NULL
    /\ sender = [k \in Conns |-> "none"] /\ hand = [k \in Conns |-> NULL] /\ mail = NULL
    /\ call = [m \in Messages |-> "new"] /\ out = {}
    /\ dtor = "none" /\ alive = TRUE

-----------------------------------------------------------------------------
(* Clients and the kernel.  unread is what one read returns; a client may send *)
(* again.                                                                      *)

Connect(k) ==
    /\ peer[k] = "away" /\ listening
    /\ peer' = [peer EXCEPT ![k] = "pending"]
    /\ UNCHANGED <<unread, flags, clientFD, server, send, dtor, alive>>

ClientSends(k) ==
    /\ peer[k] = "open" /\ ~unread[k]
    /\ unread' = [unread EXCEPT ![k] = TRUE]
    /\ UNCHANGED <<peer, flags, clientFD, server, send, dtor, alive>>

ClientLeaves(k) ==
    /\ peer[k] = "open"
    /\ \E how \in {"closed", "reset"} : peer' = [peer EXCEPT ![k] = how]
    /\ UNCHANGED <<unread, flags, clientFD, server, send, dtor, alive>>

WakeSpuriously(k) ==
    /\ sender[k] = "asleep"
    /\ sender' = [sender EXCEPT ![k] = "look"]
    /\ UNCHANGED <<net, flags, clientFD, server, hand, mail, call, out, dtor, alive>>

-----------------------------------------------------------------------------
(* ServerRoutine and ClientRecvHandle.  A definition whose name starts with    *)
(* Mut is a plausible bug in the one that follows; it shows that a property    *)
(* can fail.                                                                   *)

\* socket, setsockopt, bind or listen may fail.
Setup ==
    /\ pc = "setup"
    /\ \/ pc' = "test" /\ listening' = TRUE
       \/ pc' = "close" /\ listening' = FALSE
    /\ UNCHANGED <<net, flags, clientFD, conn, send, dtor, alive>>

TestStop ==
    /\ pc = "test" /\ pc' = IF stopServer THEN "close" ELSE "accept"
    /\ UNCHANGED <<net, flags, clientFD, conn, listening, send, dtor, alive>>

\* What becomes of the connection before it is not followed: no descriptor the server
\* still uses leads to it.
Accept(k) ==
    /\ pc = "accept" /\ listening /\ peer[k] = "pending"
    /\ peer' = [c \in Conns |-> IF c = k THEN "open" ELSE IF c = conn THEN "dropped" ELSE peer[c]]
    /\ unread' = [c \in Conns |-> c # conn /\ unread[c]]
    /\ clientFD' = k /\ conn' = k
    /\ pc' = "accepted"
    /\ UNCHANGED <<flags, listening, send, dtor, alive>>

MutRejected == "accepted"
Rejected == "test"

AcceptFails ==
    /\ pc = "accept" /\ ~listening
    /\ clientFD' = NULL
    /\ pc' = Rejected
    /\ UNCHANGED <<net, flags, conn, listening, send, dtor, alive>>

\* It may fail on a socket that listens too: no descriptor is free, or the connection
\* was aborted before it was accepted.
AcceptFailsNow ==
    /\ pc = "accept" /\ listening
    /\ \/ peer' = peer
       \/ \E k \in Conns : peer[k] = "pending" /\ peer' = [peer EXCEPT ![k] = "dropped"]
    /\ clientFD' = NULL
    /\ pc' = Rejected
    /\ UNCHANGED <<unread, flags, conn, listening, send, dtor, alive>>

ResetStop ==
    /\ pc = "accepted" /\ stopClient' = FALSE
    /\ pc' = "create"
    /\ UNCHANGED <<net, stopServer, clientFD, conn, listening, send, dtor, alive>>

\* The new thread and the server meet at a barrier before either goes on.
CreateSender ==
    /\ pc = "create"
    /\ sender' = [sender EXCEPT ![conn] = "test"]
    /\ pc' = "select"
    /\ UNCHANGED <<net, flags, clientFD, conn, listening, hand, mail, call, out, dtor, alive>>

CreateFails ==
    /\ pc = "create"
    /\ peer' = IF clientFD = NULL THEN peer ELSE [peer EXCEPT ![conn] = "dropped"]
    /\ pc' = "test"
    /\ UNCHANGED <<unread, flags, clientFD, conn, listening, send, dtor, alive>>

\* select on 0 descriptors, without a timeout, sleeps for ever.
Select ==
    /\ pc = "select"
    /\ pc' = IF clientFD = NULL THEN "lost" ELSE "watch"
    /\ UNCHANGED <<net, flags, clientFD, conn, listening, send, dtor, alive>>

ReadData ==
    /\ pc = "watch" /\ clientFD = conn
    /\ unread[conn] /\ peer[conn] # "reset"
    /\ unread' = [unread EXCEPT ![conn] = FALSE]
    /\ pc' = "select"
    /\ UNCHANGED <<peer, flags, clientFD, conn, listening, send, dtor, alive>>

ReadEnd ==
    /\ pc = "watch" /\ clientFD = conn
    /\ ~unread[conn] /\ peer[conn] \in {"closed", "shut"}
    /\ stopClient' = TRUE
    /\ pc' = "test"
    /\ UNCHANGED <<net, stopServer, clientFD, conn, listening, send, dtor, alive>>

\* The read of -1 fails too.
ReadFails ==
    /\ pc = "watch"
    /\ \/ clientFD = conn /\ peer[conn] = "reset"
       \/ clientFD = NULL /\ (unread[conn] \/ peer[conn] # "open")
    /\ stopClient' = TRUE /\ stopServer' = TRUE
    /\ pc' = "test"
    /\ UNCHANGED <<net, clientFD, conn, listening, send, dtor, alive>>

\* A signal ends the sleep of select.  Neither flag is set, the connection stays open.
SelectFails ==
    /\ pc = "watch" => peer[conn] = "open" /\ ~unread[conn]
    /\ pc \in {"watch", "lost"} /\ pc' = "test"
    /\ UNCHANGED <<net, flags, clientFD, conn, listening, send, dtor, alive>>

CloseServer ==
    /\ pc = "close" /\ pc' = "ended"
    /\ listening' = FALSE
    /\ UNCHANGED <<net, flags, clientFD, conn, send, dtor, alive>>

-----------------------------------------------------------------------------
(* SendRoutine, in the send thread of connection k.                            *)

GoOn(k) == ~stopClient /\ clientFD # NULL

TestStopClient(k) ==
    /\ sender[k] = "test"
    /\ sender' = [sender EXCEPT ![k] = IF GoOn(k) THEN "look" ELSE "ended"]
    /\ UNCHANGED <<net, flags, clientFD, server, hand, mail, call, out, dtor, alive>>

Sleep(k) ==
    /\ sender[k] = "look" /\ mail = NULL
    /\ sender' = [sender EXCEPT ![k] = "asleep"]
    /\ UNCHANGED <<net, flags, clientFD, server, hand, mail, call, out, dtor, alive>>

Take(k) ==
    /\ sender[k] = "look" /\ mail # NULL
    /\ hand' = [hand EXCEPT ![k] = mail] /\ mail' = NULL
    /\ sender' = [sender EXCEPT ![k] = "write"]
    /\ UNCHANGED <<net, flags, clientFD, server, call, out, dtor, alive>>

MutWritten == "ended"
Written == "test"

\* To m_iClientFD as it is now.  The first write to a client that has closed may be
\* answered by a reset; one to a connection that was reset or shut down may kill.
Write(k) ==
    LET peerNow == IF clientFD = NULL THEN "dropped" ELSE peer[clientFD] IN
    /\ sender[k] = "write"
    /\ out' = out \cup {hand[k]} /\ hand' = [hand EXCEPT ![k] = NULL]
    /\ sender' = [sender EXCEPT ![k] = Written]
    /\ \/ alive' = FALSE /\ peerNow \in {"reset", "shut"} /\ peer' = peer
       \/ alive' = TRUE /\ peer' = peer
       \/ alive' = TRUE /\ peerNow = "closed" /\ peer' = [peer EXCEPT ![clientFD] = "reset"]
    /\ UNCHANGED <<unread, flags, clientFD, server, mail, call, dtor>>

-----------------------------------------------------------------------------
(* SendMessage                                                                 *)

SendMessage(m) ==
    /\ call[m] = "new" /\ dtor = "none"
    /\ call' = [call EXCEPT ![m] = IF clientFD = NULL \/ stopClient THEN "refused" ELSE "checked"]
    /\ UNCHANGED <<net, flags, clientFD, server, sender, hand, mail, out, dtor, alive>>

MutHasRoom == TRUE
HasRoom == mail = NULL

MutSignal == UNCHANGED sender
Signal ==
    LET asleep == {k \in Conns : sender[k] = "asleep"} IN
    \/ asleep = {} /\ UNCHANGED sender
    \/ \E k \in asleep : sender' = [sender EXCEPT ![k] = "look"]

Store(m) ==
    /\ call[m] = "checked" /\ HasRoom
    /\ mail' = m /\ Signal
    /\ call' = [call EXCEPT ![m] = "accepted"]
    /\ UNCHANGED <<net, flags, clientFD, server, hand, out, dtor, alive>>

RefuseFull(m) ==
    /\ call[m] = "checked" /\ ~HasRoom
    /\ call' = [call EXCEPT ![m] = "refused"]
    /\ UNCHANGED <<net, flags, clientFD, server, sender, hand, mail, out, dtor, alive>>

-----------------------------------------------------------------------------
(* ~NetServer, which exit calls once the application's thread has left main    *)

Destroy ==
    /\ dtor = "none" /\ \A m \in Messages : call[m] # "checked"
    /\ stopServer' = TRUE /\ stopClient' = TRUE
    /\ dtor' = "client"
    /\ UNCHANGED <<net, clientFD, server, send, alive>>

ShutClient ==
    /\ dtor = "client"
    /\ IF clientFD = NULL THEN peer' = peer /\ dtor' = "listen"
       ELSE /\ peer' = IF peer[clientFD] \in {"open", "closed"}
                       THEN [peer EXCEPT ![clientFD] = "shut"] ELSE peer
            /\ dtor' = "forget"
    /\ UNCHANGED <<unread, flags, clientFD, server, send, alive>>

ForgetClient ==
    /\ dtor = "forget" /\ dtor' = "listen"
    /\ clientFD' = NULL
    /\ UNCHANGED <<net, flags, server, send, alive>>

MutDeaf == listening
Deaf == FALSE

ShutListen ==
    /\ dtor = "listen" /\ dtor' = "join"
    /\ listening' = Deaf
    /\ UNCHANGED <<net, flags, clientFD, pc, conn, send, alive>>

Join ==
    /\ dtor = "join" /\ pc = "ended" /\ dtor' = "done"
    /\ UNCHANGED <<net, flags, clientFD, server, send, alive>>

-----------------------------------------------------------------------------
Server ==
    \/ Setup \/ TestStop \/ AcceptFails \/ ResetStop \/ CreateSender \/ CreateFails
    \/ Select \/ ReadData \/ ReadEnd \/ ReadFails \/ CloseServer
    \/ \E k \in Conns : Accept(k)
Failure == AcceptFailsNow \/ SelectFails
Sender(k) == TestStopClient(k) \/ Sleep(k) \/ Take(k) \/ Write(k)
Environment == \E k \in Conns : Connect(k) \/ ClientSends(k) \/ ClientLeaves(k) \/ WakeSpuriously(k)
Caller(m) == Store(m) \/ RefuseFull(m)
Destructor == ShutClient \/ ForgetClient \/ ShutListen \/ Join

Running == alive /\ dtor # "done"

Next ==
    /\ Running
    /\ \/ Server \/ Failure \/ Environment \/ Destroy \/ Destructor
       \/ \E k \in Conns : Sender(k)
       \/ \E m \in Messages : SendMessage(m) \/ Caller(m)

Spec == Init /\ [][Next]_vars

\* The threads run; a write returns, that is, the client reads or leaves.  Nothing is
\* owed by clients, nobody has to call SendMessage or the destructor, and no call that
\* sleeps has to fail.
FairSpec ==
    /\ Spec
    /\ WF_vars(Running /\ Server) /\ WF_vars(Running /\ Destructor)
    /\ \A k \in Conns : WF_vars(Running /\ Sender(k))

-----------------------------------------------------------------------------
(* Properties *)

TypeOK ==
    /\ peer \in [Conns -> {"away", "pending", "open", "closed", "reset", "shut", "dropped"}]
    /\ unread \in [Conns -> BOOLEAN]
    /\ stopServer \in BOOLEAN /\ stopClient \in BOOLEAN /\ listening \in BOOLEAN
    /\ clientFD \in Conns \cup {NULL}
    /\ pc \in {"setup", "test", "accept", "accepted", "create", "select", "watch", "lost",
               "close", "ended"}
    /\ conn \in Conns \cup {NULL}
    /\ pc \in {"accepted", "create", "select", "watch", "lost"} => conn # NULL
    /\ sender \in [Conns -> {"none", "test", "look", "asleep", "write", "ended"}]
    /\ hand \in [Conns -> Messages \cup {NULL}] /\ mail \in Messages \cup {NULL}
    /\ \A k \in Conns : hand[k] # NULL <=> sender[k] = "write"
    /\ call \in [Messages -> {"new", "checked", "refused", "accepted"}]
    /\ out \subseteq Messages
    /\ dtor \in {"none", "client", "forget", "listen", "join", "done"} /\ alive \in BOOLEAN

\* A message that SendMessage accepted is in the mailbox, in the buffer of one send
\* thread, or written, and in one of these only; a refused one is nowhere: with several
\* send threads, some of them left by earlier clients, and callers that tested the flags
\* long ago, none is overwritten or written twice (lines 274-290, 308-318).
EachMessageOnePlace ==
    /\ mail # NULL => call[mail] = "accepted" /\ mail \notin out
    /\ \A k \in Conns : hand[k] # NULL =>
          /\ call[hand[k]] = "accepted" /\ hand[k] # mail /\ hand[k] \notin out
          /\ \A l \in Conns \ {k} : hand[l] # hand[k]
    /\ \A m \in Messages : call[m] = "accepted" =>
          m = mail \/ m \in out \/ \E k \in Conns : hand[k] = m
    /\ \A m \in out : call[m] = "accepted"

\* While a message is in the mailbox, a send thread sleeps only if another one is about
\* to look: signal wakes one thread, and the one it wakes may find that a thread which
\* was not asleep took the message (lines 275-278, 316).
NoSleepBesideMail ==
    (mail # NULL /\ \E k \in Conns : sender[k] = "asleep")
        => \E k \in Conns : sender[k] = "look"

\* As long as the client that has a send thread stays, its mailbox is emptied, unless the
\* process ends: threads of earlier clients only ever help (lines 272-290).
MailDelivered ==
    (mail # NULL /\ clientFD # NULL /\ sender[clientFD] # "none")
        ~> (mail = NULL \/ stopClient \/ clientFD = NULL \/ ~alive \/ dtor = "done")

\* The destructor ends, whatever the server thread was doing, but for two windows: the
\* server thread sleeps in a select on no descriptor, as m_iClientFD became -1 between
\* two calls of it, or it serves a client that it accepted after ~NetServer shut down
\* the one before (lines 19-33, 153-202).
DestroyReturns ==
    (dtor # "none") ~>
        \/ dtor = "done" \/ ~alive
        \/ pc = "lost"
        \/ dtor = "join" /\ pc = "watch" /\ peer[conn] = "open"
=============================================================================
