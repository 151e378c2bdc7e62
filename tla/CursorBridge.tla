---------------------------- MODULE CursorBridge ----------------------------
(***************************************************************************)
(* The host bridge that runs the Cursor CLI for the API                    *)
(* (services/llm/cursor_bridge.py, cli_runner.py) and the provider that    *)
(* calls it (cursor_provider.py).                                          *)
(*                                                                         *)
(* Each request has a handler thread.  A packet that passes the checks     *)
(* waits for one of the bridge's slots, runs the CLI in a process group of *)
(* its own until its output ends or its time is up, gives the slot back    *)
(* and answers.  An exception that do_POST does not catch ends the thread  *)
(* without an answer: the server closes the connection.  The CLI may start *)
(* helpers, in its group; a helper that shares the CLI's output keeps it   *)
(* open after the CLI has ended.  The client has a timeout of its own, and *)
(* may be gone before its turn comes.                                      *)
(***************************************************************************)
EXTENDS Naturals, FiniteSets

CONSTANTS Requests, Slots   \* Slots is CURSOR_BRIDGE_MAX_CONCURRENT

ASSUME BridgeAssumption == IsFiniteSet(Requests) /\ Slots \in Nat \ {0}

VARIABLES slots,      \* value of cli_slots
          pc, status, \* handler of a request, and the status it answers with, 0 before or without one
          client,     \* whether the provider still waits
          cli,        \* the CLI process of a request
          helpers,    \* a helper of the CLI: none, one on its output, one detached from it
          late        \* requests whose CLI ran out of time

vars == <<slots, pc, status, client, cli, helpers, late>>

Answers == {200, 400, 401, 404, 503}
Holding == {"start", "running", "reaping"}   \* inside "with cli_slots"

TypeOK ==
  /\ slots \in 0..Slots
  /\ pc \in [Requests -> {"new", "reading", "queued", "start", "running", "reaping", "done"}]
  /\ status \in [Requests -> {0} \cup Answers]
  /\ client \in [Requests -> {"waits", "left"}]
  /\ cli \in [Requests -> {"none", "alive", "ended", "failed"}]
  /\ helpers \in [Requests -> {"none", "piped", "detached"}]
  /\ late \in SUBSET Requests

Init ==
  /\ slots = Slots
  /\ pc = [r \in Requests |-> "new"]
  /\ status = [r \in Requests |-> 0]
  /\ client = [r \in Requests |-> "waits"]
  /\ cli = [r \in Requests |-> "none"]
  /\ helpers = [r \in Requests |-> "none"]
  /\ late = {}

Goto(r, step) == pc' = [pc EXCEPT ![r] = step]
\* _send: to a client that has gone the write fails, and the thread ends as well.
Send(r, code) ==
  /\ Goto(r, "done")
  /\ status' = [status EXCEPT ![r] = code]
\* What do_POST does not catch.
Raise(r) == Goto(r, "done") /\ UNCHANGED status
Release == slots' = slots + 1

\* do_POST up to the body: a wrong path, no bearer token, a length out of bounds; a token
\* that is not ASCII raises.
Refuse(r) ==
  /\ pc[r] = "new"
  /\ Raise(r) \/ \E code \in {404, 401, 400} : Send(r, code)
  /\ UNCHANGED <<slots, client, cli, helpers, late>>

Read(r) ==
  /\ pc[r] = "new"
  /\ Goto(r, "reading")
  /\ UNCHANGED <<slots, status, client, cli, helpers, late>>

\* The body is there, or the client is gone and what came of it is no JSON; parse_packet.
\* A connection that was reset raises, and so does a message that has no UTF-8.
Parse(r) ==
  /\ pc[r] = "reading"
  /\ \/ client[r] = "waits" /\ Goto(r, "queued") /\ UNCHANGED status
     \/ Send(r, 400)
     \/ Raise(r)
  /\ UNCHANGED <<slots, client, cli, helpers, late>>

Free == slots > 0
Acquire(r) ==
  /\ pc[r] = "queued" /\ Free
  /\ slots' = slots - 1
  /\ Goto(r, "start")
  /\ UNCHANGED <<status, client, cli, helpers, late>>

\* invoke_ask makes its directory and run_cli starts the process, or an OSError ends both; a
\* prompt with a NUL raises ValueError instead.
Start(r) ==
  /\ pc[r] = "start"
  /\ \/ /\ cli' = [cli EXCEPT ![r] = "alive"]
        /\ Goto(r, "running")
        /\ UNCHANGED <<slots, status>>
     \/ (Send(r, 503) \/ Raise(r)) /\ Release /\ UNCHANGED cli
  /\ UNCHANGED <<client, helpers, late>>

\* communicate returns when the output has ended, and json_result_text reads it; output
\* that is no UTF-8 raises UnicodeDecodeError, whatever the exit code.
Collect(r) ==
  /\ pc[r] = "running" /\ cli[r] \in {"ended", "failed"} /\ helpers[r] # "piped"
  /\ Raise(r) \/ Send(r, IF cli[r] = "ended" THEN 200 ELSE 503)
  /\ Release
  /\ UNCHANGED <<client, cli, helpers, late>>

\* TimeoutExpired and _kill_process_group: the CLI, if it is still there, and its helpers.
KillsLeader(h) == h   \* mutant: process.kill
KillsGroup(h) == "none"
Timeout(r) ==
  /\ pc[r] = "running" /\ (cli[r] = "alive" \/ helpers[r] = "piped")
  /\ late' = late \cup {r}
  /\ cli' = [cli EXCEPT ![r] = "failed"]
  /\ helpers' = [helpers EXCEPT ![r] = KillsGroup(@)]
  /\ Goto(r, "reaping")
  /\ UNCHANGED <<slots, status, client>>

\* The second communicate, without a timeout, and the error; output that the kill cut off
\* within a character raises as well.
NeverReleases == UNCHANGED slots   \* mutant: the error path leaves the slot taken
ReleaseLate == Release
Reap(r) ==
  /\ pc[r] = "reaping" /\ helpers[r] # "piped"
  /\ Send(r, 503) \/ Raise(r)
  /\ ReleaseLate
  /\ UNCHANGED <<client, cli, helpers, late>>

\* The CLI and its helpers: the model's answer, an error, or neither ever.
CliEnds(r) ==
  /\ cli[r] = "alive"
  /\ \E how \in {"ended", "failed"} : cli' = [cli EXCEPT ![r] = how]
  /\ UNCHANGED <<slots, pc, status, client, helpers, late>>
CliForks(r) ==
  /\ cli[r] = "alive" /\ helpers[r] = "none"
  /\ \E how \in {"piped", "detached"} : helpers' = [helpers EXCEPT ![r] = how]
  /\ UNCHANGED <<slots, pc, status, client, cli, late>>
HelperEnds(r) ==
  /\ helpers[r] # "none"
  /\ helpers' = [helpers EXCEPT ![r] = "none"]
  /\ UNCHANGED <<slots, pc, status, client, cli, late>>

\* urlopen's timeout: the provider raises, nothing tells the bridge.
ClientLeaves(r) ==
  /\ client[r] = "waits" /\ pc[r] # "done"
  /\ client' = [client EXCEPT ![r] = "left"]
  /\ UNCHANGED <<slots, pc, status, cli, helpers, late>>

Handler(r) ==
  \/ Refuse(r) \/ Read(r) \/ Parse(r) \/ Acquire(r) \/ Start(r)
  \/ Collect(r) \/ Timeout(r) \/ Reap(r)

Next ==
  \E r \in Requests :
    \/ Handler(r)
    \/ CliEnds(r) \/ CliForks(r) \/ HelperEnds(r) \/ ClientLeaves(r)

Spec == Init /\ [][Next]_vars

\* Threads run on, a CLI's time runs out, and a client does not wait for ever; the CLI and its
\* helpers owe nothing.
FairSpec ==
  /\ Spec
  /\ \A r \in Requests : WF_vars(Handler(r)) /\ WF_vars(ClientLeaves(r))

-----------------------------------------------------------------------------
\* README: the bridge "runs at most CURSOR_BRIDGE_MAX_CONCURRENT CLI processes at once", with
\* timeouts, failing starts and clients that have gone.
AtMostSlots == Cardinality({r \in Requests : cli[r] = "alive"}) <= Slots

\* No path through invoke_ask keeps a slot or gives one back twice.
SlotsConserved == slots + Cardinality({r \in Requests : pc[r] \in Holding}) = Slots

\* Every request that waits for a slot comes to its end - an answer, or a connection that is
\* closed without one - whatever the CLI and its helpers do and however many wait.
RequestsEnd == \A r \in Requests : pc[r] = "queued" ~> pc[r] = "done"
=============================================================================
