------------------------------- MODULE Network -------------------------------
(* labrpc/labrpc.go, with the part of raft/config.go that crashes and         *)
(* restarts a server: calls from client ends to one server name, each handled *)
(* by a goroutine of its own (ProcessReq) which runs the handler in another.  *)
(* A handler adds its request to what the server instance remembers and saves *)
(* that in the Persister the instance was made with.  A killed instance       *)
(* cannot be stopped: its handlers go on running.                             *)
EXTENDS Integers

CONSTANTS
    Req,          \* the calls of a run, each issued once
    EndOf,        \* the client end each call is issued on
    Stuck,        \* calls whose handler need not return
    MaxInstance   \* bound on the instances of the server

ASSUME NetworkAssumption == Stuck \subseteq Req /\ MaxInstance \in Nat \ {0}

VARIABLES
    network,      \* the goroutine of MakeNetwork: "up", "cleaned", "stopped"
    reliable,
    enabled,      \* by end
    server,       \* rn.servers of the name: an instance, or None
    call,         \* the goroutine of each call: its pc, what it read
    handler,      \* the handler of each call: "none", "running", "done"
    instances,    \* how many instances were made
    memory,       \* what each instance knows
    persister,    \* the Persister each instance was made with
    content,      \* what each Persister holds
    saved,        \* cfg.saved
    connected,    \* cfg.connected of the peer that owns each end
    harness,      \* where crash1/start1 are
    trouble       \* history: calls that met a network not in order

vars == <<network, reliable, enabled, server, call, handler, instances,
          memory, persister, content, saved, connected, harness, trouble>>

netVars == <<network, reliable, enabled, server>>
callVars == <<call, handler>>
hostVars == <<instances, memory, persister, content, saved, connected, harness>>

None == 0
Instance == 1..MaxInstance
End == {EndOf[r] : r \in Req}

(* Persister k > 0 is the one instance k was made with, Kept the copy between *)
(* a crash and the restart; nobody writes to a copy, so copying it again (as  *)
(* crash1 and start1 do) changes nothing.                                     *)
Kept == 0

InFlight(r) == call[r].pc \notin {"idle", "true", "false"}

Trouble(r) ==
    ~enabled[EndOf[r]] \/ server = None \/ ~reliable \/ network # "up"

Init ==
    /\ network = "up"
    /\ reliable \in BOOLEAN
    /\ enabled = [e \in End |-> TRUE]
    /\ server = 1
    /\ call = [r \in Req |-> [pc |-> "idle", server |-> None, lossy |-> FALSE]]
    /\ handler = [r \in Req |-> "none"]
    /\ instances = 1
    /\ memory = [i \in Instance |-> {}]
    /\ persister = [i \in Instance |-> i]
    /\ content = [p \in {Kept} \cup Instance |-> {}]
    /\ saved = 1
    /\ connected = [e \in End |-> TRUE]
    /\ harness = "running"
    /\ trouble = [r \in Req |-> FALSE]

-----------------------------------------------------------------------------
\* ClientEnd.Call and ProcessReq.

\* What the goroutine read is gone when it ends, but for the handler's server.
Step(r, from, to) ==
    /\ call[r].pc = from
    /\ call' = [call EXCEPT ![r].pc = to,
                            ![r].lossy = @ /\ to \notin {"true", "false"}]
    /\ UNCHANGED <<netVars, handler, hostVars>>

Call(r) == Step(r, "idle", "sending")

\* The goroutine of MakeNetwork; its select may prefer a call to done.
Accept(r) == network # "stopped" /\ Step(r, "sending", "accepted")

NetworkDone(r) == network # "up" /\ Step(r, "sending", "false")

ReadEndnameInfo(r) ==
    /\ call[r].pc = "accepted"
    /\ call' = [call EXCEPT ![r] =
                  [pc |-> IF enabled[EndOf[r]] /\ server # None
                          THEN "reached" ELSE "unreachable",
                   server |-> server,
                   lossy |-> ~reliable]]
    /\ UNCHANGED <<netVars, handler, hostVars>>

NoReply(r) == Step(r, "unreachable", "false")

DropRequest(r) == call[r].lossy /\ Step(r, "reached", "false")

\* The server read before the delay, even if it has been deleted since.
Dispatch(r) ==
    /\ call[r].pc = "reached"
    /\ call' = [call EXCEPT ![r].pc = "waiting"]
    /\ handler' = [handler EXCEPT ![r] = "running"]
    /\ UNCHANGED <<netVars, hostVars>>

\* server.dispatch, up to a handler that updates and persists.
Handle(r) ==
    LET i == call[r].server IN
    /\ handler[r] = "running"
    /\ handler' = [handler EXCEPT ![r] = "done"]
    /\ memory' = [memory EXCEPT ![i] = @ \cup {r}]
    /\ content' = [content EXCEPT ![persister[i]] = memory'[i]]
    /\ UNCHANGED <<netVars, call, instances, persister, saved, connected, harness>>

IsServerDead(r) == ~enabled[EndOf[r]] \/ server # call[r].server

TakeReply(r) == handler[r] = "done" /\ Step(r, "waiting", "replied")

BugPollOnlyDeleted(r) == server = None /\ Step(r, "waiting", "false")

BugServerDeadPoll(r) == Step(r, "waiting", "false")

\* The check every 100 ms; the select may prefer it to a reply that is there.
ServerDeadPoll(r) == IsServerDead(r) /\ Step(r, "waiting", "false")

BugFinalCheck(r) == Step(r, "replied", "passing")

\* The check after the reply.
FinalCheck(r) == Step(r, "replied", IF IsServerDead(r) THEN "false" ELSE "passing")

DropReply(r) == call[r].lossy /\ Step(r, "passing", "false")

Deliver(r) == Step(r, "passing", "true")

Cleanup ==
    /\ network = "up"
    /\ network' = "cleaned"
    /\ UNCHANGED <<reliable, enabled, server, callVars, hostVars>>

NetworkStops ==
    /\ network = "cleaned"
    /\ network' = "stopped"
    /\ UNCHANGED <<reliable, enabled, server, callVars, hostVars>>

Reliable(yes) ==
    /\ reliable # yes
    /\ reliable' = yes
    /\ UNCHANGED <<network, enabled, server, callVars, hostVars>>

-----------------------------------------------------------------------------
\* The harness: disconnect, crash1, start1, connect.

Harness(from, to) ==
    /\ harness = from
    /\ harness' = to
    /\ UNCHANGED <<network, reliable, connected, callVars>>

\* connect and disconnect of the peer that owns end e.
SetConnected(e, yes) ==
    /\ connected[e] # yes
    /\ connected' = [connected EXCEPT ![e] = yes]
    /\ enabled' = [enabled EXCEPT ![e] = yes /\ harness = "running"]
    /\ UNCHANGED <<network, reliable, server, callVars, instances, memory,
                   persister, content, saved, harness>>

Disconnect ==
    /\ instances < MaxInstance
    /\ Harness("running", "disconnected")
    /\ enabled' = [e \in End |-> FALSE]
    /\ UNCHANGED <<server, instances, memory, persister, content, saved>>

DeleteServer ==
    /\ Harness("disconnected", "deleted")
    /\ server' = None
    /\ UNCHANGED <<enabled, instances, memory, persister, content, saved>>

CopyPersister ==
    /\ Harness("deleted", "down")
    /\ content' = [content EXCEPT ![Kept] = content[saved]]
    /\ saved' = Kept
    /\ UNCHANGED <<enabled, server, instances, memory, persister>>

\* The new instance is made with cfg.saved as it is.
BugMake ==
    /\ Harness("down", "made")
    /\ instances' = instances + 1
    /\ persister' = [persister EXCEPT ![instances'] = persister[instances]]
    /\ content' = [content EXCEPT ![persister[instances]] = content[saved]]
    /\ memory' = [memory EXCEPT ![instances'] = content[saved]]
    /\ saved' = persister[instances]
    /\ UNCHANGED <<enabled, server>>

\* start1: a fresh Persister with the content of the old one; Make reads it.
Make ==
    /\ Harness("down", "made")
    /\ instances' = instances + 1
    /\ content' = [content EXCEPT ![instances'] = content[saved]]
    /\ memory' = [memory EXCEPT ![instances'] = content[saved]]
    /\ saved' = instances'
    /\ UNCHANGED <<enabled, server, persister>>

AddServer ==
    /\ Harness("made", "added")
    /\ server' = instances
    /\ UNCHANGED <<enabled, instances, memory, persister, content, saved>>

Connect ==
    /\ Harness("added", "running")
    /\ enabled' = connected
    /\ UNCHANGED <<server, instances, memory, persister, content, saved>>

-----------------------------------------------------------------------------

Progress(r) ==
    \/ Accept(r) \/ NetworkDone(r) \/ ReadEndnameInfo(r) \/ NoReply(r)
    \/ Dispatch(r) \/ TakeReply(r) \/ ServerDeadPoll(r) \/ FinalCheck(r) \/ Deliver(r)

Action ==
    \/ \E r \in Req : \/ Call(r) \/ Progress(r) \/ Handle(r)
                      \/ DropRequest(r) \/ DropReply(r)
    \/ \E yes \in BOOLEAN : Reliable(yes) \/ \E e \in End : SetConnected(e, yes)
    \/ Cleanup \/ NetworkStops
    \/ Disconnect \/ DeleteServer \/ CopyPersister \/ Make \/ AddServer \/ Connect

Next ==
    /\ Action
    /\ trouble' = [r \in Req |-> /\ call'[r].pc # "true"
                                 /\ trouble[r] \/ (InFlight(r)' /\ Trouble(r)')]

Spec == Init /\ [][Next]_vars

(* Goroutines run; handlers return, those of Stuck excepted.  Nothing is     *)
(* assumed of the harness nor of losses.                                      *)
FairSpec ==
    /\ Spec
    /\ \A r \in Req : WF_vars(Progress(r) /\ Next)
    /\ \A r \in Req \ Stuck : WF_vars(Handle(r) /\ Next)
    /\ WF_vars(NetworkStops /\ Next)

-----------------------------------------------------------------------------

(* A call that returned true is in the Persister the next instance starts     *)
(* from, at every point of a crash and a restart: a client never gets a       *)
(* positive reply from an instance that "persisted the update into the old    *)
(* Persister" (comment at labrpc.go:253-258).                                 *)
PositiveReplyDurable ==
    \A r \in Req : call[r].pc = "true" => r \in content[saved]

(* Nobody but the instance in service writes its Persister: what it holds is  *)
(* what that instance knows, although handlers of killed instances still run  *)
(* ("so old instance doesn't overwrite new instance's persisted state",       *)
(* config.go:154-155).                                                        *)
PersisterIsOwn ==
    server # None => content[persister[server]] = memory[server]

(* A call returns false only if, while it was under way, its end was          *)
(* disabled, the server gone, the network lossy or cleaned up.                *)
FalseHasReason ==
    \A r \in Req : call[r].pc = "false" => trouble[r]

(* "Call() is guaranteed to return (perhaps after a delay) except if the      *)
(* handler function on the server side does not return" (raft.go:302-304),    *)
(* and then returns too once the server is deleted for good or cut off.       *)
CallsReturn ==
    \A r \in Req :
        call[r].pc = "sending" ~>
            (~InFlight(r) \/ (r \in Stuck /\ handler[r] = "running" /\ ~IsServerDead(r)))
=============================================================================
