---------------------------- MODULE NetworkProofs ----------------------------
(* Proofs about Network, for any number of calls and of server instances: a   *)
(* positive reply is durable, an instance alone writes its Persister, and a   *)
(* call fails only for a reason.                                              *)
EXTENDS Network, TLAPS

CallPC == {"idle", "sending", "accepted", "unreachable", "reached", "waiting",
           "replied", "passing", "true", "false"}

(* Where the goroutine of a call is before it dispatches to a server.         *)
Early == {"idle", "sending", "accepted", "unreachable", "reached"}

(* Where it knows the server that handles it.                                 *)
Bound == {"reached", "waiting", "replied"}

(* The instances there have been.                                             *)
Made == 1 .. instances

(* Where it is after the final check.                                         *)
Passed == {"passing", "true"}

NetworkTypeOK ==
    /\ network \in {"up", "cleaned", "stopped"} /\ reliable \in BOOLEAN
    /\ enabled \in [End -> BOOLEAN] /\ connected \in [End -> BOOLEAN]
    /\ server \in {None} \cup Instance
    /\ call \in [Req -> [pc : CallPC, server : {None} \cup Instance,
                         lossy : BOOLEAN]]
    /\ handler \in [Req -> {"none", "running", "done"}]
    /\ instances \in Instance
    /\ memory \in [Instance -> SUBSET Req]
    /\ persister = [i \in Instance |-> i]
    /\ content \in [{Kept} \cup Instance -> SUBSET Req]
    /\ saved \in {Kept} \cup Instance
    /\ harness \in {"running", "disconnected", "deleted", "down", "made",
                    "added"}

(* What the order of the steps of crash1 and start1 keeps in line.  A server  *)
(* that is not in order cannot be reached.                                    *)
HarnessInv ==
    /\ harness \in {"disconnected", "deleted", "down"} => instances < MaxInstance
    /\ server = IF harness \in {"running", "disconnected", "added"}
                THEN instances ELSE None
    /\ saved = IF harness = "down" THEN Kept ELSE instances
    /\ harness # "running" => \A e \in End : ~enabled[e]

(* Every instance, also a killed one, has saved what it knows.                *)
MemorySaved == \A i \in Instance : content[i] = memory[i]

(* What is known of the handler of a call.                                    *)
HandlerInv ==
    \A r \in Req :
        /\ call[r].pc \in Early => handler[r] = "none"
        /\ call[r].pc \in Bound \/ handler[r] # "none" =>
              call[r].server \in Made
        /\ call[r].pc = "replied" => handler[r] = "done"
        /\ handler[r] = "done" => r \in memory[call[r].server]

(* What passed the final check is in the Persister that is kept.              *)
PassedDurable ==
    \A r \in Req : call[r].pc \in Passed => r \in content[saved]

NetworkInv ==
    /\ NetworkTypeOK
    /\ HarnessInv
    /\ MemorySaved
    /\ HandlerInv
    /\ PassedDurable

-----------------------------------------------------------------------------

(* The instances there have been are instances.                               *)
LEMMA MadeInstance == NetworkTypeOK => Made \subseteq Instance
  BY NetworkAssumption DEF NetworkTypeOK, Made, Instance

(* The network and the server are as they start.                              *)
LEMMA NetworkInit == Init => NetworkInv
<1> SUFFICES ASSUME Init PROVE NetworkInv
  OBVIOUS
<1>1. 1 \in Instance
  BY NetworkAssumption DEF Instance
<1>2. NetworkTypeOK
  BY <1>1 DEF Init, NetworkTypeOK, CallPC, None, Kept
<1>. QED BY <1>1, <1>2 DEF Init, NetworkInv, HarnessInv, MemorySaved,
                           HandlerInv, PassedDurable, Early, Bound, Passed,
                           Made

(* A step of the goroutine of a call that touches only its place: what the    *)
(* new place promises has to hold already.                                    *)
LEMMA StepKeeps ==
    ASSUME NetworkInv, NEW r \in Req, NEW from, NEW to \in CallPC,
           Step(r, from, to),
           to \in Early => from \in Early,
           to \in Bound => call[r].server \in Made,
           to = "replied" => handler[r] = "done",
           to \in Passed => r \in content[saved]
    PROVE  NetworkInv'
<1>1. /\ call' \in [Req -> [pc : CallPC, server : {None} \cup Instance,
                            lossy : BOOLEAN]]
      /\ call'[r].pc = to /\ call'[r].server = call[r].server
      /\ \A q \in Req : q # r => call'[q] = call[q]
      /\ call[r].pc = from
  <2>1. call \in [Req -> [pc : CallPC, server : {None} \cup Instance,
                          lossy : BOOLEAN]]
    BY DEF NetworkInv, NetworkTypeOK
  <2>2. /\ call[r].pc = from
        /\ call' = [call EXCEPT ![r].pc = to,
                                ![r].lossy = @ /\ to \notin {"true", "false"}]
    BY DEF Step
  <2>. QED BY <2>1, <2>2
<1>2. UNCHANGED <<netVars, handler, hostVars>>
  BY DEF Step
<1>3. NetworkTypeOK' /\ HarnessInv' /\ MemorySaved'
  BY <1>1, <1>2 DEF NetworkInv, NetworkTypeOK, HarnessInv, MemorySaved,
                    netVars, hostVars
<1>4. HandlerInv'
  BY <1>1, <1>2 DEF NetworkInv, HandlerInv, hostVars, Made
<1>5. PassedDurable'
  BY <1>1, <1>2 DEF NetworkInv, PassedDurable, hostVars
<1>. QED BY <1>3, <1>4, <1>5 DEF NetworkInv

(* The final check passes only while the server that handled the call is the  *)
(* one in service, whose Persister is cfg.saved.                              *)
LEMMA FinalCheckDurable ==
    ASSUME NetworkInv, NEW r \in Req, call[r].pc = "replied", ~IsServerDead(r)
    PROVE  r \in content[saved]
<1>1. enabled[EndOf[r]] /\ server = call[r].server /\ EndOf[r] \in End
  BY DEF IsServerDead, End
<1>2. harness = "running"
  BY <1>1 DEF NetworkInv, HarnessInv
<1>3. server = instances /\ saved = instances
  BY <1>2 DEF NetworkInv, HarnessInv
<1>4. r \in memory[call[r].server] /\ server \in Instance
  BY <1>3 DEF NetworkInv, HandlerInv, NetworkTypeOK
<1>. QED BY <1>1, <1>3, <1>4 DEF NetworkInv, MemorySaved

(* Every step of a call's goroutine, but for the dispatch.                    *)
LEMMA CallKeeps ==
    ASSUME NetworkInv, NEW r \in Req,
           \/ Call(r) \/ Accept(r) \/ NetworkDone(r) \/ NoReply(r)
           \/ DropRequest(r) \/ TakeReply(r) \/ ServerDeadPoll(r)
           \/ FinalCheck(r) \/ DropReply(r) \/ Deliver(r)
    PROVE  NetworkInv'
<1>. USE DEF CallPC, Early, Bound, Passed
<1>1. CASE Call(r)
  BY <1>1, StepKeeps DEF Call
<1>2. CASE Accept(r)
  BY <1>2, StepKeeps DEF Accept
<1>3. CASE NetworkDone(r)
  BY <1>3, StepKeeps DEF NetworkDone
<1>4. CASE NoReply(r)
  BY <1>4, StepKeeps DEF NoReply
<1>5. CASE DropRequest(r)
  BY <1>5, StepKeeps DEF DropRequest
<1>6. CASE TakeReply(r)
  <2>1. call[r].server \in Made
    BY <1>6 DEF TakeReply, NetworkInv, HandlerInv
  <2>. QED BY <1>6, <2>1, StepKeeps DEF TakeReply
<1>7. CASE ServerDeadPoll(r)
  BY <1>7, StepKeeps DEF ServerDeadPoll
<1>8. CASE FinalCheck(r)
  <2>1. call[r].pc = "replied"
    BY <1>8 DEF FinalCheck, Step
  <2>2. CASE IsServerDead(r)
    BY <1>8, <2>2, StepKeeps DEF FinalCheck
  <2>3. CASE ~IsServerDead(r)
    <3>1. r \in content[saved]
      BY <2>1, <2>3, FinalCheckDurable
    <3>. QED BY <1>8, <2>3, <3>1, StepKeeps DEF FinalCheck
  <2>. QED BY <2>2, <2>3
<1>9. CASE DropReply(r)
  BY <1>9, StepKeeps DEF DropReply
<1>10. CASE Deliver(r)
  <2>1. r \in content[saved]
    BY <1>10 DEF Deliver, Step, NetworkInv, PassedDurable
  <2>. QED BY <1>10, <2>1, StepKeeps DEF Deliver
<1>. QED BY <1>1, <1>2, <1>3, <1>4, <1>5, <1>6, <1>7, <1>8, <1>9, <1>10

(* ReadEndnameInfo binds a call to the server of this moment.                 *)
LEMMA ReadEndnameInfoKeeps ==
    ASSUME NetworkInv, NEW r \in Req, ReadEndnameInfo(r)
    PROVE  NetworkInv'
<1>1. /\ call' \in [Req -> [pc : CallPC, server : {None} \cup Instance,
                            lossy : BOOLEAN]]
      /\ call'[r].pc \in {"reached", "unreachable"} /\ call'[r].server = server
      /\ call'[r].pc = "reached" => server # None
      /\ \A q \in Req : q # r => call'[q] = call[q]
      /\ call[r].pc = "accepted"
  BY DEF ReadEndnameInfo, NetworkInv, NetworkTypeOK, CallPC
<1>2. UNCHANGED <<netVars, handler, hostVars>>
  BY DEF ReadEndnameInfo
<1>3. NetworkTypeOK' /\ HarnessInv' /\ MemorySaved'
  BY <1>1, <1>2 DEF NetworkInv, NetworkTypeOK, HarnessInv, MemorySaved,
                    netVars, hostVars
<1>4. handler[r] = "none"
  BY <1>1 DEF NetworkInv, HandlerInv, Early
<1>5. server # None => server \in Made
  BY DEF NetworkInv, NetworkTypeOK, HarnessInv, Instance, Made
<1>6. HandlerInv'
  BY <1>1, <1>2, <1>4, <1>5
     DEF NetworkInv, HandlerInv, hostVars, Early, Bound, Made
<1>7. PassedDurable'
  BY <1>1, <1>2 DEF NetworkInv, PassedDurable, hostVars, Passed
<1>. QED BY <1>3, <1>6, <1>7 DEF NetworkInv

(* Dispatch starts the handler at the server that was read, dead or alive.    *)
LEMMA DispatchKeeps ==
    ASSUME NetworkInv, NEW r \in Req, Dispatch(r)
    PROVE  NetworkInv'
<1>1. /\ call' \in [Req -> [pc : CallPC, server : {None} \cup Instance,
                            lossy : BOOLEAN]]
      /\ call'[r].pc = "waiting" /\ call'[r].server = call[r].server
      /\ \A q \in Req : q # r => call'[q] = call[q]
      /\ call[r].pc = "reached"
  BY DEF Dispatch, NetworkInv, NetworkTypeOK, CallPC
<1>2. /\ handler' \in [Req -> {"none", "running", "done"}]
      /\ handler'[r] = "running"
      /\ \A q \in Req : q # r => handler'[q] = handler[q]
  BY DEF Dispatch, NetworkInv, NetworkTypeOK
<1>3. UNCHANGED <<netVars, hostVars>>
  BY DEF Dispatch
<1>4. NetworkTypeOK' /\ HarnessInv' /\ MemorySaved'
  BY <1>1, <1>2, <1>3 DEF NetworkInv, NetworkTypeOK, HarnessInv, MemorySaved,
                          netVars, hostVars
<1>5. HandlerInv'
  BY <1>1, <1>2, <1>3
     DEF NetworkInv, HandlerInv, hostVars, Early, Bound, Made
<1>6. PassedDurable'
  BY <1>1, <1>3 DEF NetworkInv, PassedDurable, hostVars, Passed
<1>. QED BY <1>4, <1>5, <1>6 DEF NetworkInv

(* A handler adds to the memory of its instance and saves it, in service or   *)
(* not; cfg.saved is written only if it is that instance's own Persister.     *)
LEMMA HandleKeeps ==
    ASSUME NetworkInv, NEW r \in Req, Handle(r)
    PROVE  NetworkInv'
<1>. DEFINE i == call[r].server
<1>1. i \in Instance /\ persister[i] = i /\ i # Kept
  <2>1. i \in Instance
    BY MadeInstance DEF Handle, NetworkInv, HandlerInv
  <2>. QED BY <2>1 DEF NetworkInv, NetworkTypeOK, Instance, Kept
<1>2. /\ memory' \in [Instance -> SUBSET Req]
      /\ memory'[i] = memory[i] \cup {r}
      /\ \A j \in Instance : j # i => memory'[j] = memory[j]
  BY <1>1 DEF Handle, NetworkInv, NetworkTypeOK
<1>3. /\ content' \in [{Kept} \cup Instance -> SUBSET Req]
      /\ content'[i] = memory'[i]
      /\ \A j \in {Kept} \cup Instance : j # i => content'[j] = content[j]
  BY <1>1, <1>2 DEF Handle, NetworkInv, NetworkTypeOK
<1>4. /\ handler' \in [Req -> {"none", "running", "done"}]
      /\ handler'[r] = "done" /\ handler[r] = "running"
      /\ \A q \in Req : q # r => handler'[q] = handler[q]
  BY DEF Handle, NetworkInv, NetworkTypeOK
<1>5. UNCHANGED <<netVars, call, instances, persister, saved, connected, harness>>
  BY DEF Handle
<1>6. NetworkTypeOK' /\ HarnessInv'
  BY <1>2, <1>3, <1>4, <1>5 DEF NetworkInv, NetworkTypeOK, HarnessInv, netVars
<1>7. MemorySaved'
  BY <1>2, <1>3 DEF NetworkInv, MemorySaved
<1>8. HandlerInv'
  <2> SUFFICES ASSUME NEW q \in Req
               PROVE  /\ call[q].pc \in Early => handler'[q] = "none"
                      /\ call[q].pc \in Bound \/ handler'[q] # "none" =>
                            call[q].server \in Made
                      /\ call[q].pc = "replied" => handler'[q] = "done"
                      /\ handler'[q] = "done" => q \in memory'[call[q].server]
    BY <1>5 DEF HandlerInv, Made
  <2>1. \A j \in Made : memory[j] \subseteq memory'[j]
    <3>1. Made \subseteq Instance
      BY MadeInstance DEF NetworkInv
    <3>. QED BY <3>1, <1>2
  <2>2. CASE q = r
    BY <2>2, <1>1, <1>2, <1>4 DEF NetworkInv, HandlerInv
  <2>3. CASE q # r
    BY <2>1, <2>3, <1>4 DEF NetworkInv, HandlerInv
  <2>. QED BY <2>2, <2>3
<1>9. PassedDurable'
  <2>1. content[i] \subseteq content'[i]
    BY <1>1, <1>2, <1>3 DEF NetworkInv, MemorySaved
  <2>2. content[saved] \subseteq content'[saved]
    BY <2>1, <1>3 DEF NetworkInv, NetworkTypeOK
  <2>. QED BY <2>2, <1>5 DEF NetworkInv, PassedDurable
<1>. QED BY <1>6, <1>7, <1>8, <1>9 DEF NetworkInv

(* The network's own switches, and connect and disconnect of a peer.          *)
LEMMA NetworkSwitchKeeps ==
    ASSUME NetworkInv,
           \/ Cleanup \/ NetworkStops
           \/ \E yes \in BOOLEAN :
                 Reliable(yes) \/ \E e \in End : SetConnected(e, yes)
    PROVE  NetworkInv'
<1>1. /\ UNCHANGED <<server, call, handler, instances, memory, persister,
                     content, saved, harness>>
      /\ network' \in {"up", "cleaned", "stopped"} /\ reliable' \in BOOLEAN
      /\ enabled' \in [End -> BOOLEAN] /\ connected' \in [End -> BOOLEAN]
      /\ harness # "running" =>
            \A e \in End : enabled'[e] => enabled[e]
  BY DEF Cleanup, NetworkStops, Reliable, SetConnected, NetworkInv,
         NetworkTypeOK, callVars, hostVars
<1>2. NetworkTypeOK' /\ HarnessInv'
  BY <1>1 DEF NetworkInv, NetworkTypeOK, HarnessInv
<1>3. MemorySaved' /\ HandlerInv' /\ PassedDurable'
  BY <1>1 DEF NetworkInv, MemorySaved, HandlerInv, PassedDurable, Made
<1>. QED BY <1>2, <1>3 DEF NetworkInv

(* The steps of crash1 and start1 that leave the Persisters alone.            *)
LEMMA HarnessKeeps ==
    ASSUME NetworkInv, Disconnect \/ DeleteServer \/ AddServer \/ Connect
    PROVE  NetworkInv'
<1>1. /\ UNCHANGED <<network, reliable, connected, call, handler, instances,
                     memory, persister, content, saved>>
      /\ server' \in {None} \cup Instance
      /\ enabled' \in [End -> BOOLEAN]
      /\ harness' \in {"running", "disconnected", "deleted", "down", "made",
                       "added"}
  BY DEF Disconnect, DeleteServer, AddServer, Connect, Harness, callVars,
         NetworkInv, NetworkTypeOK
<1>2. NetworkTypeOK'
  BY <1>1 DEF NetworkInv, NetworkTypeOK
<1>3. HarnessInv'
  BY <1>1 DEF Disconnect, DeleteServer, AddServer, Connect, Harness,
              NetworkInv, NetworkTypeOK, HarnessInv
<1>4. MemorySaved' /\ HandlerInv' /\ PassedDurable'
  BY <1>1 DEF NetworkInv, MemorySaved, HandlerInv, PassedDurable, Made
<1>. QED BY <1>2, <1>3, <1>4 DEF NetworkInv

(* crash1 copies the Persister: cfg.saved holds the same.                     *)
LEMMA CopyPersisterKeeps ==
    ASSUME NetworkInv, CopyPersister
    PROVE  NetworkInv'
<1>1. \A i \in Instance : i # Kept
  BY DEF Instance, Kept
<1>2. /\ content' \in [{Kept} \cup Instance -> SUBSET Req]
      /\ content'[Kept] = content[saved] /\ saved' = Kept
      /\ \A i \in Instance : content'[i] = content[i]
  BY <1>1 DEF CopyPersister, NetworkInv, NetworkTypeOK
<1>3. /\ UNCHANGED <<network, reliable, connected, call, handler, enabled,
                     server, instances, memory, persister>>
      /\ harness = "deleted" /\ harness' = "down"
  BY DEF CopyPersister, Harness, callVars
<1>4. NetworkTypeOK' /\ HarnessInv'
  BY <1>2, <1>3 DEF NetworkInv, NetworkTypeOK, HarnessInv
<1>5. MemorySaved' /\ HandlerInv' /\ PassedDurable'
  BY <1>2, <1>3 DEF NetworkInv, MemorySaved, HandlerInv, PassedDurable, Made
<1>. QED BY <1>4, <1>5 DEF NetworkInv

(* start1 makes a new instance with a Persister of its own.                   *)
LEMMA MakeKeeps ==
    ASSUME NetworkInv, Make
    PROVE  NetworkInv'
<1>. DEFINE new == instances + 1
<1>1. /\ instances' = new /\ new \in Instance /\ saved' = new
      /\ harness = "down" /\ harness' = "made" /\ saved = Kept
      /\ new # Kept
  BY NetworkAssumption
     DEF Make, Harness, NetworkInv, NetworkTypeOK, HarnessInv, Instance, Kept
<1>2. /\ content' \in [{Kept} \cup Instance -> SUBSET Req]
      /\ memory' \in [Instance -> SUBSET Req]
      /\ content'[new] = content[saved] /\ memory'[new] = content[saved]
      /\ \A i \in Instance :
            i # new => content'[i] = content[i] /\ memory'[i] = memory[i]
  BY <1>1 DEF Make, NetworkInv, NetworkTypeOK
<1>3. UNCHANGED <<network, reliable, connected, call, handler, enabled,
                  server, persister>>
  BY DEF Make, Harness, callVars
<1>4. NetworkTypeOK'
  BY <1>1, <1>2, <1>3 DEF NetworkInv, NetworkTypeOK
<1>5. HarnessInv'
  BY <1>1, <1>3 DEF NetworkInv, HarnessInv
<1>6. MemorySaved'
  BY <1>2 DEF NetworkInv, MemorySaved
<1>7. HandlerInv'
  <2>1. Made \subseteq Made' /\ \A i \in Made : i # new
    BY <1>1 DEF Made, NetworkInv, NetworkTypeOK, Instance
  <2>2. \A i \in Made : memory'[i] = memory[i]
    BY <2>1, <1>2, MadeInstance DEF NetworkInv
  <2>3. \A r \in Req : handler[r] = "done" => call[r].server \in Made
    BY DEF NetworkInv, HandlerInv
  <2>. QED BY <1>3, <2>1, <2>2, <2>3 DEF NetworkInv, HandlerInv
<1>8. PassedDurable'
  BY <1>1, <1>2, <1>3 DEF NetworkInv, PassedDurable
<1>. QED BY <1>4, <1>5, <1>6, <1>7, <1>8 DEF NetworkInv

(* Every step of the program keeps the invariant.                             *)
LEMMA ActionKeeps ==
    ASSUME NetworkInv, Action
    PROVE  NetworkInv'
<1>1. ASSUME NEW r \in Req,
             \/ Call(r) \/ Progress(r) \/ Handle(r) \/ DropRequest(r)
             \/ DropReply(r)
      PROVE  NetworkInv'
  <2>1. CASE ReadEndnameInfo(r)
    BY <2>1, ReadEndnameInfoKeeps
  <2>2. CASE Dispatch(r)
    BY <2>2, DispatchKeeps
  <2>3. CASE Handle(r)
    BY <2>3, HandleKeeps
  <2>4. CASE \/ Call(r) \/ Accept(r) \/ NetworkDone(r) \/ NoReply(r)
             \/ DropRequest(r) \/ TakeReply(r) \/ ServerDeadPoll(r)
             \/ FinalCheck(r) \/ DropReply(r) \/ Deliver(r)
    BY <2>4, CallKeeps
  <2>. QED BY <1>1, <2>1, <2>2, <2>3, <2>4 DEF Progress
<1>2. CASE \/ Cleanup \/ NetworkStops
           \/ \E yes \in BOOLEAN :
                 Reliable(yes) \/ \E e \in End : SetConnected(e, yes)
  BY <1>2, NetworkSwitchKeeps
<1>3. CASE Disconnect \/ DeleteServer \/ AddServer \/ Connect
  BY <1>3, HarnessKeeps
<1>4. CASE CopyPersister
  BY <1>4, CopyPersisterKeeps
<1>5. CASE Make
  BY <1>5, MakeKeeps
<1>. QED BY <1>1, <1>2, <1>3, <1>4, <1>5 DEF Action

(* The invariant holds in every reachable state of the network and harness.   *)
LEMMA NetworkInvariant == Spec => []NetworkInv
<1>1. ASSUME NetworkInv, [Next]_vars PROVE NetworkInv'
  <2>1. CASE Next
    BY <1>1, <2>1, ActionKeeps DEF Next
  <2>2. CASE UNCHANGED vars
    BY <1>1, <2>2 DEF vars, NetworkInv, NetworkTypeOK, HarnessInv, MemorySaved,
                HandlerInv, PassedDurable, Made
  <2>. QED BY <1>1, <2>1, <2>2
<1>. QED BY <1>1, NetworkInit, PTL DEF Spec

-----------------------------------------------------------------------------
(* Why calls fail. *)

(* What the history variable knows of a call: one that is under way and meets *)
(* trouble has met it, and so has one that found no server, that may be       *)
(* tossed, or whose server is no longer in service.                           *)
TroubleKnown(r) ==
    /\ InFlight(r) /\ Trouble(r) => trouble[r]
    /\ call[r].pc \in {"unreachable", "false"} => trouble[r]
    /\ call[r].lossy => trouble[r] /\ InFlight(r)
    /\ call[r].pc \in Bound /\ server # call[r].server => trouble[r]

TroubleInv == \A r \in Req : trouble[r] \in BOOLEAN /\ TroubleKnown(r)

(* What a step may do to call r: nothing that gives it a reason to fail, but  *)
(* for what has been trouble already or is trouble from now on.               *)
NoNewReason(r) ==
    /\ call'[r].pc \in {"unreachable", "false"} => trouble[r]
    /\ call'[r].lossy => trouble[r] /\ InFlight(r)'
    /\ call'[r].pc \in Bound /\ server' # call'[r].server =>
          trouble[r] \/ Trouble(r)'

(* A step of its goroutine that only moves it on.                             *)
LEMMA StepReason ==
    ASSUME NetworkInv, TroubleInv, NEW r \in Req, NEW from, NEW to \in CallPC,
           Step(r, from, to),
           to \in {"unreachable", "false"} => trouble[r],
           to \in Bound => from \in Bound,
           to # "idle"
    PROVE  NoNewReason(r)
<1>1. /\ call'[r].pc = to /\ call'[r].server = call[r].server
      /\ call'[r].lossy <=> call[r].lossy /\ to \notin {"true", "false"}
      /\ call[r].pc = from /\ server' = server
  BY DEF Step, NetworkInv, NetworkTypeOK, netVars
<1>2. TroubleKnown(r)
  BY DEF TroubleInv
<1>3. call'[r].lossy => trouble[r] /\ InFlight(r)'
  BY <1>1, <1>2 DEF TroubleKnown, InFlight
<1>4. call'[r].pc \in Bound /\ server' # call'[r].server => trouble[r]
  BY <1>1, <1>2 DEF TroubleKnown
<1>. QED BY <1>1, <1>3, <1>4 DEF NoNewReason

(* A call that ends without a reply has met trouble.                          *)
LEMMA FailureReason ==
    ASSUME NetworkInv, TroubleInv, NEW r \in Req,
           \/ NetworkDone(r) \/ NoReply(r) \/ DropRequest(r)
           \/ ServerDeadPoll(r) \/ DropReply(r)
           \/ FinalCheck(r) /\ IsServerDead(r)
    PROVE  trouble[r]
<1>1. TroubleKnown(r) /\ trouble[r] \in BOOLEAN
  BY DEF TroubleInv
<1>2. CASE NetworkDone(r)
  BY <1>1, <1>2 DEF NetworkDone, Step, TroubleKnown, InFlight, Trouble
<1>3. CASE NoReply(r)
  BY <1>1, <1>3 DEF NoReply, Step, TroubleKnown
<1>4. CASE DropRequest(r) \/ DropReply(r)
  BY <1>1, <1>4 DEF DropRequest, DropReply, TroubleKnown
<1>5. CASE ServerDeadPoll(r) \/ (FinalCheck(r) /\ IsServerDead(r))
  <2>1. call[r].pc \in Bound /\ InFlight(r) /\ IsServerDead(r)
    BY <1>5 DEF ServerDeadPoll, FinalCheck, Step, Bound, InFlight
  <2>. QED BY <1>1, <2>1 DEF TroubleKnown, IsServerDead, Trouble
<1>. QED BY <1>1, <1>2, <1>3, <1>4, <1>5

(* A step of the call's own goroutine or handler.                             *)
LEMMA OwnReason ==
    ASSUME NetworkInv, TroubleInv, NEW r \in Req,
           \/ Call(r) \/ Progress(r) \/ Handle(r) \/ DropRequest(r)
           \/ DropReply(r)
    PROVE  NoNewReason(r)
<1>. USE DEF CallPC, Bound
<1>1. CASE Call(r)
  BY <1>1, StepReason DEF Call
<1>2. CASE Accept(r)
  BY <1>2, StepReason DEF Accept
<1>3. CASE TakeReply(r)
  BY <1>3, StepReason DEF TakeReply
<1>4. CASE Deliver(r)
  BY <1>4, StepReason DEF Deliver
<1>5. CASE \/ NetworkDone(r) \/ NoReply(r) \/ DropRequest(r)
           \/ ServerDeadPoll(r) \/ DropReply(r)
           \/ FinalCheck(r) /\ IsServerDead(r)
  <2>1. trouble[r]
    BY <1>5, FailureReason
  <2>2. PICK from : Step(r, from, "false")
    BY <1>5 DEF NetworkDone, NoReply, DropRequest, ServerDeadPoll, DropReply,
                FinalCheck
  <2>. QED BY <2>1, <2>2, StepReason
<1>6. CASE FinalCheck(r) /\ ~IsServerDead(r)
  BY <1>6, StepReason DEF FinalCheck
<1>7. CASE ReadEndnameInfo(r)
  <2>1. TroubleKnown(r) /\ InFlight(r)
    BY <1>7 DEF TroubleInv, ReadEndnameInfo, InFlight
  <2>2. /\ call'[r].pc = (IF enabled[EndOf[r]] /\ server # None
                          THEN "reached" ELSE "unreachable")
        /\ call'[r].server = server /\ server' = server
        /\ call'[r].lossy = ~reliable
    BY <1>7 DEF ReadEndnameInfo, NetworkInv, NetworkTypeOK, netVars
  <2>. QED BY <2>1, <2>2 DEF TroubleKnown, Trouble, NoNewReason, InFlight
<1>8. CASE Dispatch(r)
  <2>1. TroubleKnown(r)
    BY DEF TroubleInv
  <2>2. /\ call[r].pc = "reached" /\ call'[r].pc = "waiting"
        /\ call'[r].server = call[r].server /\ server' = server
        /\ call'[r].lossy = call[r].lossy
    BY <1>8 DEF Dispatch, NetworkInv, NetworkTypeOK, netVars
  <2>. QED BY <2>1, <2>2 DEF TroubleKnown, NoNewReason, InFlight
<1>9. CASE Handle(r)
  <2>1. TroubleKnown(r)
    BY DEF TroubleInv
  <2>2. call' = call /\ server' = server
    BY <1>9 DEF Handle, netVars
  <2>. QED BY <2>1, <2>2 DEF TroubleKnown, NoNewReason, InFlight
<1>. QED BY <1>1, <1>2, <1>3, <1>4, <1>5, <1>6, <1>7, <1>8, <1>9 DEF Progress

(* A step that leaves call r alone.  The server is replaced in two steps, and *)
(* between them there is none.                                                *)
LEMMA OtherReason ==
    ASSUME NetworkInv, TroubleInv, NEW r \in Req, call'[r] = call[r],
           server' = server \/ server = None \/ server' = None
    PROVE  NoNewReason(r)
<1>1. TroubleKnown(r) /\ (InFlight(r)' <=> InFlight(r))
  BY DEF TroubleInv, InFlight
<1>2. call[r].pc \in Bound /\ server' # call[r].server =>
        trouble[r] \/ Trouble(r)'
  <2>1. CASE server' = server
    BY <1>1, <2>1 DEF TroubleKnown
  <2>2. CASE server = None
    BY <1>1, <2>2 DEF TroubleKnown, Trouble, InFlight, Bound
  <2>3. CASE server' = None
    BY <2>3 DEF Trouble
  <2>. QED BY <2>1, <2>2, <2>3
<1>. QED BY <1>1, <1>2 DEF NoNewReason, TroubleKnown

LEMMA ActionReason ==
    ASSUME NetworkInv, TroubleInv, Action, NEW r \in Req
    PROVE  NoNewReason(r)
<1>1. ASSUME NEW q \in Req,
             \/ Call(q) \/ Progress(q) \/ Handle(q) \/ DropRequest(q)
             \/ DropReply(q)
      PROVE  NoNewReason(r)
  <2>1. CASE q = r
    BY <1>1, <2>1, OwnReason
  <2>2. CASE q # r
    <3>1. call'[r] = call[r] /\ server' = server
      BY <1>1, <2>2
         DEF Call, Progress, Accept, NetworkDone, ReadEndnameInfo, NoReply,
             Dispatch, TakeReply, ServerDeadPoll, FinalCheck, Deliver, Handle,
             DropRequest, DropReply, Step, NetworkInv, NetworkTypeOK, netVars
    <3>. QED BY <3>1, OtherReason
  <2>. QED BY <2>1, <2>2
<1>2. CASE \/ Cleanup \/ NetworkStops
           \/ \E yes \in BOOLEAN :
                 Reliable(yes) \/ \E e \in End : SetConnected(e, yes)
  <2>1. call' = call /\ server' = server
    BY <1>2 DEF Cleanup, NetworkStops, Reliable, SetConnected, callVars
  <2>. QED BY <2>1, OtherReason
<1>3. CASE \/ Disconnect \/ DeleteServer \/ CopyPersister \/ Make \/ AddServer
           \/ Connect
  <2>1. /\ call' = call
        /\ server' = server \/ server = None \/ server' = None
    BY <1>3 DEF Disconnect, DeleteServer, CopyPersister, Make, AddServer,
                Connect, Harness, callVars, NetworkInv, HarnessInv
  <2>. QED BY <2>1, OtherReason
<1>. QED BY <1>1, <1>2, <1>3 DEF Action

(* The history variable records trouble of a call under way, and forgets it   *)
(* only when the call succeeds.                                               *)
LEMMA TroubleNext ==
    ASSUME NetworkInv, TroubleInv, Next
    PROVE  TroubleInv'
<1> SUFFICES ASSUME NEW r \in Req
             PROVE  trouble'[r] \in BOOLEAN /\ TroubleKnown(r)'
  BY DEF TroubleInv
<1>1. NoNewReason(r)
  BY ActionReason DEF Next
<1>2. trouble'[r] = (/\ call'[r].pc # "true"
                     /\ trouble[r] \/ (InFlight(r)' /\ Trouble(r)'))
  BY DEF Next
<1>3. trouble'[r] \in BOOLEAN
  BY <1>2 DEF TroubleInv
<1>4. InFlight(r)' => call'[r].pc # "true"
  BY DEF InFlight
<1>5. call'[r].pc \in Bound \cup {"unreachable"} => InFlight(r)'
  BY DEF InFlight, Bound
<1>. QED BY <1>1, <1>2, <1>3, <1>4, <1>5 DEF NoNewReason, TroubleKnown

-----------------------------------------------------------------------------

(* A call that returned true is in the Persister from which the next instance *)
(* starts, at every point of a crash and a restart, for any number of calls   *)
(* and of restarts (the check after the reply in ProcessReq, crash1, start1). *)
THEOREM RepliesAreDurable == Spec => []PositiveReplyDurable
<1>1. NetworkInv => PositiveReplyDurable
  BY DEF NetworkInv, PassedDurable, Passed, PositiveReplyDurable
<1>. QED BY <1>1, NetworkInvariant, PTL

(* The handlers of killed instances, which go on running, never write to the  *)
(* Persister of the one in service (start1 copies it).                        *)
THEOREM PersisterNotShared == Spec => []PersisterIsOwn
<1>1. NetworkInv => PersisterIsOwn
  BY DEF NetworkInv, NetworkTypeOK, MemorySaved, PersisterIsOwn
<1>. QED BY <1>1, NetworkInvariant, PTL

(* ProcessReq answers a call without a reply only if its end was disabled,    *)
(* the server gone or replaced, the network lossy or cleaned up while the     *)
(* call was under way.                                                        *)
THEOREM FailuresHaveReason == Spec => []FalseHasReason
<1>1. Init => TroubleInv
  <2> SUFFICES ASSUME Init, NEW r \in Req
               PROVE  trouble[r] \in BOOLEAN /\ TroubleKnown(r)
    BY DEF TroubleInv
  <2>1. call[r].pc = "idle" /\ call[r].lossy = FALSE /\ trouble[r] = FALSE
    BY DEF Init
  <2>. QED BY <2>1 DEF TroubleKnown, InFlight, Bound
<1>2. ASSUME NetworkInv, TroubleInv, UNCHANGED vars PROVE TroubleInv'
  BY <1>2 DEF vars, TroubleInv, TroubleKnown, InFlight, Trouble
<1>3. NetworkInv /\ TroubleInv /\ [Next]_vars => TroubleInv'
  BY <1>2, TroubleNext
<1>4. TroubleInv => FalseHasReason
  BY DEF TroubleInv, TroubleKnown, FalseHasReason
<1>. QED BY <1>1, <1>3, <1>4, NetworkInvariant, PTL DEF Spec
=============================================================================
