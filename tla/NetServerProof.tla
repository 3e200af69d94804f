---------------------------- MODULE NetServerProof ----------------------------
(***************************************************************************)
(* What holds of NetServer for any clients and any messages.  The mailbox  *)
(* properties need the types, and that a connection gets one send thread,  *)
(* which CreateSender never starts over.                                   *)
(***************************************************************************)
EXTENDS NetServer, TLAPS

USE NetServerAssumption DEF NetServerAssumption

SenderOnce ==
    /\ pc \in {"accepted", "create"} =>
          sender[conn] = "none" /\ peer[conn] \notin {"away", "pending"}
    /\ \A k \in Conns : peer[k] \in {"away", "pending"} => sender[k] = "none"

NetInv == TypeOK /\ SenderOnce /\ EachMessageOnePlace /\ NoSleepBesideMail

\* The server as StartServer leaves it (NetServer.h lines 36-46).
LEMMA NetInvInit == Init => NetInv
<1> SUFFICES ASSUME Init PROVE NetInv
  OBVIOUS
<1>1. TypeOK
  BY DEF Init, TypeOK
<1>2. SenderOnce /\ EachMessageOnePlace
  BY DEF Init, SenderOnce, EachMessageOnePlace
<1>3. NoSleepBesideMail
  BY DEF Init, NoSleepBesideMail
<1> QED BY <1>1, <1>2, <1>3 DEF NetInv

\* Whatever leaves the send threads and the mailbox alone keeps their properties.
LEMMA MailUntouched ==
    ASSUME NetInv, UNCHANGED send
    PROVE  EachMessageOnePlace' /\ NoSleepBesideMail'
BY DEF NetInv, send, EachMessageOnePlace, NoSleepBesideMail

\* Clients come, send and leave; a send thread wakes up without a signal.
LEMMA EnvironmentStep ==
    ASSUME NetInv, Environment
    PROVE  NetInv'
<1> USE DEF NetInv
<1>1. ASSUME NEW k \in Conns, Connect(k) \/ ClientSends(k) \/ ClientLeaves(k)
      PROVE  NetInv'
  <2>1. /\ peer' \in [Conns -> {"away", "pending", "open", "closed", "reset", "shut", "dropped"}]
        /\ \A j \in Conns : peer'[j] \in {"away", "pending"} => peer[j] \in {"away", "pending"}
    <3>1. CASE Connect(k)
      BY <3>1 DEF Connect, TypeOK
    <3>2. CASE ClientSends(k)
      BY <3>2 DEF ClientSends, TypeOK
    <3>3. CASE ClientLeaves(k)
      BY <3>3 DEF ClientLeaves, TypeOK
    <3> QED BY <1>1, <3>1, <3>2, <3>3
  <2>4. TypeOK'
    <3>1. unread' \in [Conns -> BOOLEAN]
      BY <1>1 DEF Connect, ClientSends, ClientLeaves, TypeOK
    <3>2. UNCHANGED <<flags, clientFD, server, send, dtor, alive>>
      BY <1>1 DEF Connect, ClientSends, ClientLeaves
    <3> QED BY <2>1, <3>1, <3>2 DEF TypeOK, flags, server, send
  <2>3. SenderOnce'
    <3>2. conn \in Conns \/ pc \notin {"accepted", "create"}
      BY DEF TypeOK
    <3>3. UNCHANGED <<pc, conn, sender>>
      BY <1>1 DEF Connect, ClientSends, ClientLeaves, server, send
    <3> QED BY <2>1, <3>2, <3>3 DEF SenderOnce
  <2>2. UNCHANGED send
    BY <1>1 DEF Connect, ClientSends, ClientLeaves
  <2> QED BY <2>2, <2>3, <2>4, MailUntouched
<1>2. ASSUME NEW k \in Conns, WakeSpuriously(k)
      PROVE  NetInv'
  <2>1. TypeOK' /\ SenderOnce'
    BY <1>2 DEF WakeSpuriously, TypeOK, SenderOnce, net, flags, server
  <2>2. EachMessageOnePlace' /\ NoSleepBesideMail'
    BY <1>2 DEF WakeSpuriously, TypeOK, EachMessageOnePlace, NoSleepBesideMail
  <2> QED BY <2>1, <2>2
<1> QED BY <1>1, <1>2 DEF Environment

\* The server thread (NetServer.cpp lines 110-237).
LEMMA ServerStep ==
    ASSUME NetInv, Server \/ Failure
    PROVE  NetInv'
<1> USE DEF NetInv
<1>1. ASSUME Setup \/ TestStop \/ AcceptFails \/ ResetStop \/ Select \/ CloseServer
      PROVE  NetInv'
  <2>1. TypeOK' /\ SenderOnce'
    <3>1. CASE Setup
      <4>1. /\ pc' \in {"test", "close"} /\ listening' \in BOOLEAN
            /\ UNCHANGED <<net, flags, clientFD, conn, send, dtor, alive>>
        BY <3>1 DEF Setup
      <4> QED BY <4>1 DEF TypeOK, SenderOnce, net, flags, send
    <3>2. CASE TestStop
      BY <3>2 DEF TestStop, TypeOK, SenderOnce, net, flags, send
    <3>3. CASE AcceptFails
      BY <3>3 DEF AcceptFails, Rejected, TypeOK, SenderOnce, net, flags, send
    <3>4. CASE ResetStop
      BY <3>4 DEF ResetStop, TypeOK, SenderOnce, net, flags, send
    <3>5. CASE Select
      BY <3>5 DEF Select, TypeOK, SenderOnce, net, flags, send
    <3>6. CASE CloseServer
      BY <3>6 DEF CloseServer, TypeOK, SenderOnce, net, flags, send
    <3> QED BY <1>1, <3>1, <3>2, <3>3, <3>4, <3>5, <3>6
  <2>2. UNCHANGED send
    BY <1>1 DEF Setup, TestStop, AcceptFails, ResetStop, Select, CloseServer
  <2> QED BY <2>1, <2>2, MailUntouched
<1>2. ASSUME ReadData \/ ReadEnd \/ ReadFails
      PROVE  NetInv'
  <2>1. TypeOK' /\ SenderOnce'
    <3>1. CASE ReadData
      BY <3>1 DEF ReadData, TypeOK, SenderOnce, net, flags, send
    <3>2. CASE ReadEnd
      BY <3>2 DEF ReadEnd, TypeOK, SenderOnce, net, flags, send
    <3>3. CASE ReadFails
      BY <3>3 DEF ReadFails, TypeOK, SenderOnce, net, flags, send
    <3> QED BY <1>2, <3>1, <3>2, <3>3
  <2>2. UNCHANGED send
    BY <1>2 DEF ReadData, ReadEnd, ReadFails
  <2> QED BY <2>1, <2>2, MailUntouched
<1>3. ASSUME NEW k \in Conns, Accept(k)
      PROVE  NetInv'
  <2>1. /\ peer' \in [Conns -> {"away", "pending", "open", "closed", "reset", "shut", "dropped"}]
        /\ unread' \in [Conns -> BOOLEAN]
    BY <1>3 DEF Accept, TypeOK
  <2>2. /\ peer'[k] = "open" /\ sender[k] = "none"
        /\ \A c \in Conns : peer'[c] \in {"away", "pending"} => peer[c] \in {"away", "pending"}
    BY <1>3 DEF Accept, SenderOnce
  <2>3. TypeOK' /\ SenderOnce'
    BY <1>3, <2>1, <2>2 DEF Accept, TypeOK, SenderOnce, flags, send
  <2> QED BY <1>3, <2>3, MailUntouched DEF Accept
<1>4. ASSUME CreateFails
      PROVE  NetInv'
  <2>1. TypeOK' /\ SenderOnce'
    BY <1>4 DEF CreateFails, TypeOK, SenderOnce, flags, send
  <2> QED BY <1>4, <2>1, MailUntouched DEF CreateFails
<1>5. ASSUME CreateSender
      PROVE  NetInv'
  <2>1. conn \in Conns /\ sender[conn] = "none"
    BY <1>5 DEF CreateSender, TypeOK, SenderOnce
  <2>2. TypeOK'
    BY <1>5, <2>1 DEF CreateSender, TypeOK, net, flags
  <2>3. SenderOnce'
    BY <1>5, <2>1 DEF CreateSender, TypeOK, SenderOnce, net
  <2>4. EachMessageOnePlace' /\ NoSleepBesideMail'
    BY <1>5, <2>1 DEF CreateSender, TypeOK, EachMessageOnePlace, NoSleepBesideMail
  <2> QED BY <2>2, <2>3, <2>4
<1>6. ASSUME Failure
      PROVE  NetInv'
  <2>1. TypeOK' /\ SenderOnce'
    <3>1. CASE AcceptFailsNow
      BY <3>1 DEF AcceptFailsNow, Rejected, TypeOK, SenderOnce, flags, send
    <3>2. CASE SelectFails
      BY <3>2 DEF SelectFails, TypeOK, SenderOnce, net, flags, send
    <3> QED BY <1>6, <3>1, <3>2 DEF Failure
  <2>2. UNCHANGED send
    BY <1>6 DEF Failure, AcceptFailsNow, SelectFails
  <2> QED BY <2>1, <2>2, MailUntouched
<1> QED BY <1>1, <1>2, <1>3, <1>4, <1>5, <1>6 DEF Server

\* A send thread (lines 261-298).
LEMMA SenderStep ==
    ASSUME NetInv, NEW k \in Conns, Sender(k)
    PROVE  NetInv'
<1> USE DEF NetInv
<1>1. ASSUME TestStopClient(k) \/ Sleep(k)
      PROVE  NetInv'
  <2>1. TypeOK' /\ SenderOnce'
    BY <1>1 DEF TestStopClient, Sleep, TypeOK, SenderOnce, net, flags, server
  <2>2. EachMessageOnePlace' /\ NoSleepBesideMail'
    BY <1>1 DEF TestStopClient, Sleep, TypeOK, EachMessageOnePlace, NoSleepBesideMail
  <2> QED BY <2>1, <2>2
<1>2. ASSUME Take(k)
      PROVE  NetInv'
  <2>1. TypeOK' /\ SenderOnce'
    BY <1>2 DEF Take, TypeOK, SenderOnce, net, flags, server
  <2>2. hand' = [hand EXCEPT ![k] = mail] /\ hand[k] = NULL /\ mail # NULL /\ mail' = NULL
        /\ UNCHANGED <<call, out>>
    BY <1>2 DEF Take, TypeOK
  <2>3. EachMessageOnePlace'
    BY <2>2 DEF TypeOK, EachMessageOnePlace
  <2> QED BY <2>1, <2>2, <2>3 DEF NoSleepBesideMail
<1>3. ASSUME Write(k)
      PROVE  NetInv'
  <2>1. /\ hand[k] \in Messages /\ hand' = [hand EXCEPT ![k] = NULL]
        /\ out' = out \cup {hand[k]} /\ sender' = [sender EXCEPT ![k] = "test"]
        /\ UNCHANGED <<unread, flags, clientFD, server, mail, call, dtor>>
    BY <1>3 DEF Write, Written, TypeOK
  <2>2. peer' \in [Conns -> {"away", "pending", "open", "closed", "reset", "shut", "dropped"}]
        /\ alive' \in BOOLEAN
    BY <1>3 DEF Write, TypeOK
  <2>3. \A j \in Conns : peer'[j] \in {"away", "pending"} => peer[j] = peer'[j]
    BY <1>3 DEF Write, TypeOK
  <2>4. TypeOK'
    <3>1. sender \in [Conns -> {"none", "test", "look", "asleep", "write", "ended"}]
          /\ hand \in [Conns -> Messages \cup {NULL}]
          /\ \A j \in Conns : hand[j] # NULL <=> sender[j] = "write"
      BY DEF TypeOK
    <3>2. /\ sender' \in [Conns -> {"none", "test", "look", "asleep", "write", "ended"}]
          /\ hand' \in [Conns -> Messages \cup {NULL}]
          /\ \A j \in Conns : hand'[j] # NULL <=> sender'[j] = "write"
          /\ out' \subseteq Messages
      BY <2>1, <3>1 DEF TypeOK
    <3> QED BY <1>3, <2>1, <2>2, <3>2 DEF Write, TypeOK, flags, server
  <2>7. SenderOnce'
    <3>1. sender[k] = "write" /\ \A j \in Conns \ {k} : sender'[j] = sender[j]
      BY <1>3, <2>1 DEF Write, TypeOK
    <3> QED BY <2>1, <2>3, <3>1 DEF TypeOK, SenderOnce, server
  <2>5. EachMessageOnePlace'
    BY <2>1 DEF TypeOK, EachMessageOnePlace
  <2>6. NoSleepBesideMail'
    BY <1>3, <2>1 DEF Write, TypeOK, NoSleepBesideMail
  <2> QED BY <2>4, <2>5, <2>6, <2>7
<1> QED BY <1>1, <1>2, <1>3 DEF Sender

\* SendMessage (lines 300-319).
LEMMA CallStep ==
    ASSUME NetInv, NEW m \in Messages, SendMessage(m) \/ Caller(m)
    PROVE  NetInv'
<1> USE DEF NetInv
<1>1. ASSUME SendMessage(m) \/ RefuseFull(m)
      PROVE  NetInv'
  <2>1. TypeOK' /\ SenderOnce'
    BY <1>1 DEF SendMessage, RefuseFull, TypeOK, SenderOnce, net, flags, server
  <2>2. EachMessageOnePlace' /\ NoSleepBesideMail'
    BY <1>1 DEF SendMessage, RefuseFull, TypeOK, EachMessageOnePlace, NoSleepBesideMail
  <2> QED BY <2>1, <2>2
<1>2. ASSUME Store(m)
      PROVE  NetInv'
  <2>1. /\ call[m] = "checked" /\ mail = NULL /\ mail' = m /\ Signal
        /\ call' = [call EXCEPT ![m] = "accepted"]
        /\ UNCHANGED <<net, flags, clientFD, server, hand, out, dtor, alive>>
    BY <1>2 DEF Store, HasRoom
  <2>2. PICK awake \in SUBSET Conns :
            /\ \A k \in awake : sender[k] = "asleep"
            /\ sender' = [k \in Conns |-> IF k \in awake THEN "look" ELSE sender[k]]
            /\ awake = {} => \A k \in Conns : sender[k] # "asleep"
    <3>1. CASE \A k \in Conns : sender[k] # "asleep"
      <4>1. sender' = [k \in Conns |-> IF k \in {} THEN "look" ELSE sender[k]]
        BY <2>1, <3>1 DEF Signal, TypeOK
      <4>2. {} \in SUBSET Conns /\ \A k \in {} : sender[k] = "asleep"
        OBVIOUS
      <4> QED BY <3>1, <4>1, <4>2, Zenon
    <3>2. CASE \E k \in Conns : sender[k] = "asleep"
      <4>1. PICK k \in Conns : sender[k] = "asleep" /\ sender' = [sender EXCEPT ![k] = "look"]
        BY <2>1, <3>2 DEF Signal
      <4>2. sender' = [j \in Conns |-> IF j \in {k} THEN "look" ELSE sender[j]]
        BY <4>1 DEF TypeOK
      <4>3. {k} \in SUBSET Conns /\ {k} # {} /\ \A j \in {k} : sender[j] = "asleep"
        BY <4>1
      <4> QED BY <4>2, <4>3, Zenon
    <3> QED BY <3>1, <3>2
  <2>3. TypeOK' /\ SenderOnce'
    BY <2>1, <2>2 DEF TypeOK, SenderOnce, net, flags, server
  <2>4. EachMessageOnePlace'
    BY <2>1 DEF TypeOK, EachMessageOnePlace
  <2>5. NoSleepBesideMail'
    BY <2>2 DEF NoSleepBesideMail
  <2> QED BY <2>3, <2>4, <2>5
<1> QED BY <1>1, <1>2 DEF Caller

\* ~NetServer (lines 12-41).
LEMMA DestructorStep ==
    ASSUME NetInv, Destroy \/ Destructor
    PROVE  NetInv'
<1> USE DEF NetInv
<1>1. UNCHANGED send
  BY DEF Destroy, Destructor, ShutClient, ForgetClient, ShutListen, Join
<1>2. ASSUME Destroy \/ ForgetClient \/ ShutListen \/ Join
      PROVE  TypeOK' /\ SenderOnce'
  <2>1. CASE Destroy
    BY <2>1 DEF Destroy, TypeOK, SenderOnce, net, flags, server, send
  <2>2. CASE ForgetClient
    BY <2>2 DEF ForgetClient, TypeOK, SenderOnce, net, flags, server, send
  <2>3. CASE ShutListen
    <3>1. /\ dtor' = "join" /\ listening' = FALSE
          /\ UNCHANGED <<net, flags, clientFD, pc, conn, send, alive>>
      BY <2>3 DEF ShutListen, Deaf
    <3>2. /\ peer' = peer /\ unread' = unread /\ clientFD' = clientFD /\ pc' = pc
          /\ conn' = conn /\ alive' = alive
          /\ stopServer' = stopServer /\ stopClient' = stopClient
      BY <3>1 DEF net, flags
    <3>3. sender' = sender /\ hand' = hand /\ mail' = mail /\ call' = call /\ out' = out
      BY <3>1 DEF send
    <3>4. dtor' \in {"none", "client", "forget", "listen", "join", "done"}
          /\ listening' \in BOOLEAN
      BY <3>1
    <3>5. TypeOK'
      BY <3>2, <3>3, <3>4, Zenon DEF TypeOK
    <3> QED BY <3>2, <3>3, <3>5 DEF SenderOnce
  <2>4. CASE Join
    BY <2>4 DEF Join, TypeOK, SenderOnce, net, flags, server, send
  <2> QED BY <1>2, <2>1, <2>2, <2>3, <2>4
<1>3. ASSUME ShutClient
      PROVE  TypeOK' /\ SenderOnce'
  BY <1>3 DEF ShutClient, TypeOK, SenderOnce, flags, server, send
<1> QED BY <1>1, <1>2, <1>3, MailUntouched DEF Destructor

LEMMA NetInvStep ==
    ASSUME NetInv, [Next]_vars
    PROVE  NetInv'
<1>1. CASE UNCHANGED vars
  <2>1. TypeOK' /\ SenderOnce'
    BY <1>1 DEF NetInv, vars, net, flags, server, send, TypeOK, SenderOnce
  <2> QED BY <1>1, <2>1, MailUntouched DEF NetInv, vars
<1> QED BY <1>1, EnvironmentStep, ServerStep, SenderStep, CallStep, DestructorStep DEF Next

\* Every variable keeps its type: the server thread watches a connection as long as it
\* reads from one, and a send thread holds a message exactly while it writes (lines
\* 118-298).
THEOREM NetTyped == Spec => []TypeOK
BY NetInvInit, NetInvStep, PTL DEF Spec, NetInv

\* A message that SendMessage accepted is in the mailbox, in one thread's hand, or
\* written, and in one of these only (lines 274-290, 308-318).
THEOREM MessagesKept == Spec => []EachMessageOnePlace
BY NetInvInit, NetInvStep, PTL DEF Spec, NetInv

\* No send thread sleeps beside a message without another one that is about to look
\* (lines 275-278, 316).
THEOREM MailSeen == Spec => []NoSleepBesideMail
BY NetInvInit, NetInvStep, PTL DEF Spec, NetInv

-----------------------------------------------------------------------------
(* The mailbox NetServer implements *)

\* How far a message has come.
Stage(m) ==
    CASE m \in out -> "written"
      [] m = mail -> "waiting"
      [] \E k \in Conns : hand[k] = m -> "taken"
      [] call[m] = "checked" -> "offered"
      [] OTHER -> call[m]

MB == INSTANCE Mailbox WITH st <- [m \in Messages |-> Stage(m)]

\* Stage by the place a message is in.
LEMMA StageOf ==
    ASSUME TypeOK, EachMessageOnePlace, NEW m \in Messages
    PROVE  /\ m \in out => Stage(m) = "written"
           /\ m = mail => Stage(m) = "waiting"
           /\ \A k \in Conns : hand[k] = m => Stage(m) = "taken"
           /\ call[m] = "new" => Stage(m) = "new"
           /\ call[m] = "checked" => Stage(m) = "offered"
           /\ call[m] = "refused" => Stage(m) = "refused"
           /\ call[m] = "accepted" => Stage(m) \in {"written", "waiting", "taken"}
<1>0. NULL \notin Messages
  OBVIOUS
<1>1. /\ m \in out => call[m] = "accepted" /\ m # mail /\ \A k \in Conns : hand[k] # m
      /\ m = mail => call[m] = "accepted" /\ \A k \in Conns : hand[k] # m
      /\ \A k \in Conns : hand[k] = m => call[m] = "accepted"
      /\ call[m] = "accepted" => m = mail \/ m \in out \/ \E k \in Conns : hand[k] = m
  BY <1>0 DEF EachMessageOnePlace
<1>2. call[m] \in {"new", "checked", "refused", "accepted"}
  BY DEF TypeOK
<1> QED BY <1>1, <1>2 DEF Stage

\* Stage depends on the places only.
LEMMA StageKept ==
    ASSUME NEW m \in Messages, m \in out <=> m \in out', m = mail <=> m = mail',
           (\E k \in Conns : hand[k] = m) <=> (\E k \in Conns : hand'[k] = m),
           call'[m] = call[m]
    PROVE  Stage(m)' = Stage(m)
BY DEF Stage

\* One message moves from one stage to another.
LEMMA OneMoves ==
    ASSUME NEW m \in Messages, \A n \in Messages \ {m} : Stage(n)' = Stage(n),
           NEW from, NEW to, Stage(m) = from, Stage(m)' = to
    PROVE  MB!Become(m, from, to)
<1> DEFINE st == [n \in Messages |-> Stage(n)]
<1>1. [n \in Messages |-> Stage(n)'] = [st EXCEPT ![m] = to]
  OBVIOUS
<1> QED BY <1>1 DEF MB!Become

\* Whether the mailbox is full.
LEMMA FullMail ==
    ASSUME TypeOK, EachMessageOnePlace
    PROVE  MB!Full <=> mail # NULL
<1>1. ASSUME mail # NULL PROVE MB!Full
  <2>1. mail \in Messages /\ Stage(mail) = "waiting"
    BY <1>1, StageOf DEF TypeOK
  <2> QED BY <2>1 DEF MB!Full
<1>2. ASSUME NEW m \in Messages, Stage(m) = "waiting" PROVE mail # NULL
  <2>1. m = mail
    BY <1>2, StageOf DEF TypeOK, Stage
  <2> QED BY <2>1
<1> QED BY <1>1, <1>2 DEF MB!Full

\* NetServer implements the mailbox of Mailbox, with any clients that come and go and any
\* send threads they leave behind: a call is refused at once or beside a message that waits,
\* an accepted message is taken and written once, none is lost or given back
\* (lines 265-290, 300-319).
THEOREM ServerImplementsMailbox == Spec => MB!Spec
<1>1. Init => MB!Init
  <2> SUFFICES ASSUME Init PROVE MB!Init
    OBVIOUS
  <2>1. NetInv
    BY NetInvInit
  <2>2. \A m \in Messages : Stage(m) = "new"
    BY <2>1, StageOf DEF NetInv, Init
  <2> QED BY <2>2 DEF MB!Init
<1>2. NetInv /\ NetInv' /\ [Next]_vars => [MB!Next]_([m \in Messages |-> Stage(m)])
  <2> SUFFICES ASSUME NetInv, NetInv', [Next]_vars
               PROVE  MB!Next \/ UNCHANGED [m \in Messages |-> Stage(m)]
    OBVIOUS
  <2>0. TypeOK /\ EachMessageOnePlace /\ TypeOK' /\ EachMessageOnePlace'
    BY DEF NetInv
  <2>1. ASSUME UNCHANGED <<hand, mail, call, out>>
        PROVE  UNCHANGED [m \in Messages |-> Stage(m)]
    <3>1. \A m \in Messages : Stage(m)' = Stage(m)
      BY <2>1, StageKept
    <3> QED BY <3>1
  <2>2. ASSUME NEW k \in Conns, Take(k)
        PROVE  MB!Next
    <3>1. /\ mail \in Messages /\ hand[k] = NULL /\ hand' = [hand EXCEPT ![k] = mail]
          /\ mail' = NULL /\ UNCHANGED <<call, out>>
      BY <2>0, <2>2 DEF Take, TypeOK
    <3>2. Stage(mail) = "waiting" /\ mail \notin out
      BY <2>0, <3>1, StageOf DEF EachMessageOnePlace
    <3>3. PICK m \in Messages : m = mail
      BY <3>1
    <3>4. hand'[k] = m /\ \A j \in Conns \ {k} : hand'[j] = hand[j]
      BY <2>0, <3>1, <3>3 DEF TypeOK
    <3>5. Stage(m)' = "taken"
      BY <3>1, <3>2, <3>3, <3>4 DEF Stage
    <3>6. \A n \in Messages \ {m} : Stage(n)' = Stage(n)
      BY <3>1, <3>3, <3>4, StageKept
    <3>7. MB!Take(m)
      BY <3>2, <3>3, <3>5, <3>6, OneMoves DEF MB!Take
    <3> QED BY <3>7 DEF MB!Next
  <2>3. ASSUME NEW k \in Conns, Write(k)
        PROVE  MB!Next
    <3>1. /\ hand[k] \in Messages /\ hand' = [hand EXCEPT ![k] = NULL]
          /\ out' = out \cup {hand[k]} /\ UNCHANGED <<mail, call>>
      BY <2>0, <2>3 DEF Write, TypeOK
    <3>2. PICK m \in Messages : m = hand[k]
      BY <3>1
    <3>3. /\ Stage(m) = "taken" /\ m # mail /\ call[m] = "accepted"
          /\ \A j \in Conns \ {k} : hand[j] # m
      BY <2>0, <3>2, StageOf DEF EachMessageOnePlace
    <3>4. hand'[k] = NULL /\ \A j \in Conns \ {k} : hand'[j] = hand[j]
      BY <2>0, <3>1 DEF TypeOK
    <3>5. Stage(m)' = "written"
      <4>1. m \in out' /\ m # mail' /\ call'[m] # "checked" /\ \A j \in Conns : hand'[j] # m
        BY <3>1, <3>2, <3>3, <3>4
      <4> QED BY <4>1 DEF Stage
    <3>6. \A n \in Messages \ {m} : Stage(n)' = Stage(n)
      BY <3>1, <3>2, <3>4, StageKept
    <3>7. MB!Write(m)
      BY <3>3, <3>5, <3>6, OneMoves DEF MB!Write
    <3> QED BY <3>7 DEF MB!Next
  <2>4. ASSUME NEW m \in Messages, SendMessage(m)
        PROVE  MB!Next
    <3>1. /\ call[m] = "new" /\ UNCHANGED <<hand, mail, out>>
          /\ \E s \in {"refused", "checked"} : call' = [call EXCEPT ![m] = s]
      BY <2>4 DEF SendMessage
    <3>2. Stage(m) = "new" /\ m \notin out /\ m # mail /\ \A k \in Conns : hand[k] # m
      BY <2>0, <3>1, StageOf
    <3>3. /\ \A n \in Messages \ {m} : call'[n] = call[n]
          /\ call'[m] = "refused" \/ call'[m] = "checked"
      BY <2>0, <3>1 DEF TypeOK
    <3>4. \A n \in Messages \ {m} : Stage(n)' = Stage(n)
      BY <3>1, <3>3, StageKept
    <3>5. Stage(m)' = "refused" \/ Stage(m)' = "offered"
      BY <3>1, <3>2, <3>3 DEF Stage
    <3>6. MB!Refuse(m) \/ MB!Offer(m)
      BY <3>2, <3>4, <3>5, OneMoves DEF MB!Refuse, MB!Offer
    <3> QED BY <3>6 DEF MB!Next
  <2>5. ASSUME NEW m \in Messages, Store(m)
        PROVE  MB!Next
    <3>1. /\ call[m] = "checked" /\ mail = NULL /\ mail' = m /\ UNCHANGED <<hand, out>>
          /\ call' = [call EXCEPT ![m] = "accepted"]
      BY <2>5 DEF Store, HasRoom
    <3>2. /\ Stage(m) = "offered" /\ ~MB!Full
          /\ m \notin out /\ \A k \in Conns : hand[k] # m
      BY <2>0, <3>1, StageOf, FullMail
    <3>3. call'[m] = "accepted" /\ \A n \in Messages \ {m} : call'[n] = call[n]
      BY <2>0, <3>1 DEF TypeOK
    <3>4. \A n \in Messages \ {m} : Stage(n)' = Stage(n)
      BY <3>1, <3>3, StageKept
    <3>5. Stage(m)' = "waiting"
      BY <3>1, <3>2, <3>3 DEF Stage
    <3>6. MB!Accept(m)
      BY <3>2, <3>4, <3>5, OneMoves DEF MB!Accept
    <3> QED BY <3>6 DEF MB!Next
  <2>6. ASSUME NEW m \in Messages, RefuseFull(m)
        PROVE  MB!Next
    <3>1. /\ call[m] = "checked" /\ mail # NULL /\ UNCHANGED <<hand, mail, out>>
          /\ call' = [call EXCEPT ![m] = "refused"]
      BY <2>6 DEF RefuseFull, HasRoom
    <3>2. /\ Stage(m) = "offered" /\ MB!Full
          /\ m \notin out /\ m # mail /\ \A k \in Conns : hand[k] # m
      BY <2>0, <3>1, StageOf, FullMail
    <3>3. call'[m] = "refused" /\ \A n \in Messages \ {m} : call'[n] = call[n]
      BY <2>0, <3>1 DEF TypeOK
    <3>4. \A n \in Messages \ {m} : Stage(n)' = Stage(n)
      BY <3>1, <3>3, StageKept
    <3>5. Stage(m)' = "refused"
      BY <3>1, <3>2, <3>3 DEF Stage
    <3>6. MB!Refuse(m)
      BY <3>2, <3>4, <3>5, OneMoves DEF MB!Refuse
    <3> QED BY <3>6 DEF MB!Next
  <2>7. ASSUME NEW k \in Conns, TestStopClient(k) \/ Sleep(k)
        PROVE  UNCHANGED [m \in Messages |-> Stage(m)]
    BY <2>1, <2>7 DEF TestStopClient, Sleep
  <2>8. CASE Server \/ Failure \/ Environment \/ Destroy \/ Destructor \/ UNCHANGED vars
    <3>1. UNCHANGED <<hand, mail, call, out>>
      BY <2>8 DEF Server, Failure, AcceptFailsNow, SelectFails, Setup, TestStop, AcceptFails, ResetStop, CreateSender, CreateFails,
                  Select, ReadData, ReadEnd, ReadFails, CloseServer, Accept, Environment, Connect,
                  ClientSends, ClientLeaves, WakeSpuriously, Destroy, Destructor, ShutClient,
                  ForgetClient, ShutListen, Join, vars, send
    <3> QED BY <2>1, <3>1
  <2>9. ASSUME NEW k \in Conns, Sender(k)
        PROVE  MB!Next \/ UNCHANGED [m \in Messages |-> Stage(m)]
    BY <2>2, <2>3, <2>7, <2>9 DEF Sender
  <2>10. ASSUME NEW m \in Messages, SendMessage(m) \/ Caller(m)
         PROVE  MB!Next
    BY <2>4, <2>5, <2>6, <2>10 DEF Caller
  <2> QED BY <2>8, <2>9, <2>10 DEF Next
<1> QED BY <1>1, <1>2, NetInvInit, NetInvStep, PTL DEF Spec, MB!Spec
=============================================================================
