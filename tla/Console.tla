------------------------------ MODULE Console ------------------------------
(***************************************************************************)
(* The console commands of cmd/geth/consolecmd.go (lines 57-186):          *)
(* localConsole ("console") and ephemeralConsole ("js") start a node and   *)
(* attach a console to it in-process; remoteConsole ("attach") dials a     *)
(* running node.  Each command runs on the main goroutine; ephemeralConsole *)
(* also starts a goroutine that calls os.Exit(0) on Ctrl-C.                *)
(*                                                                         *)
(* The node and the console keep only their lifecycle.  The deferred      *)
(* calls are a stack run in reverse order on return; utils.Fatalf and      *)
(* os.Exit end the process without running them.  What the console reads, *)
(* evaluates and prints, and which endpoint dialRPC picks, are left out:   *)
(* a session or a script either succeeds or fails.                         *)
(***************************************************************************)
EXTENDS Integers, SequencesExt

CONSTANTS
  Commands,   \* the commands invoked: "console", "attach", "js"
  MaxFiles    \* bound on the files given to "js"

VARIABLES
  cmd,        \* the command being run
  pc,         \* where the command is; "returned", "fatal", "interrupted" end it
  node,       \* the in-process node: "none", "running", "stopped"
  cons,       \* the console: "none", "running", "stopped"
  deferred,   \* the deferred calls registered so far, oldest first
  left,       \* the files ephemeralConsole has still to execute
  aborter     \* the Ctrl-C goroutine of lines 179-182 is running

cvars == <<cmd, pc, node, cons, deferred, left, aborter>>

Lifecycle == {"none", "running", "stopped"}
Ended == {"returned", "fatal", "interrupted"}

TypeOK ==
  /\ cmd \in {"console", "attach", "js"}
  /\ pc \in {"start", "dial", "new", "session", "execute", "wait", "return"} \cup Ended
  /\ node \in Lifecycle /\ cons \in Lifecycle
  /\ deferred \in Seq({"node", "console"})
  /\ left \in 0 .. MaxFiles
  /\ aborter \in BOOLEAN

Init ==
  /\ cmd \in Commands
  /\ pc = IF cmd = "attach" THEN "dial" ELSE "start"
  /\ node = "none"
  /\ cons = "none"
  /\ deferred = <<>>
  /\ left \in IF cmd = "js" THEN 0 .. MaxFiles ELSE {0}
  /\ aborter = FALSE

\* the effect of a deferred call on the node and the console
Stop(d) ==
  /\ node' = IF d = "node" THEN "stopped" ELSE node
  /\ cons' = IF d = "console" THEN "stopped" ELSE cons

\* lines 61-69 and 147-155: makeFullNode, startNode, defer node.Stop(),
\* then node.Attach, which fails only on a node that is not running and
\* so takes its utils.Fatalf branch never
StartNode ==
  /\ pc = "start"
  /\ node' = "running"
  /\ deferred' = <<"node">>
  /\ pc' = "new"
  /\ UNCHANGED <<cmd, cons, left, aborter>>

\* lines 99-102 and 131-140: dialRPC rewrites the endpoint and rpc.Dial
\* connects to it or fails, and a failure is fatal
Dial ==
  /\ pc = "dial"
  /\ \E ok \in BOOLEAN : pc' = IF ok THEN "new" ELSE "fatal"
  /\ UNCHANGED <<cmd, node, cons, deferred, left, aborter>>

\* mutant: console.New without the defer of console.Stop(false)
NewConsoleNoDefer ==
  /\ pc = "new"
  /\ \/ /\ pc' = "fatal"
        /\ UNCHANGED cons
     \/ /\ cons' = "running"
        /\ pc' = IF cmd = "js" THEN "execute" ELSE "session"
  /\ UNCHANGED <<cmd, node, deferred, left, aborter>>

\* lines 70-81, 103-114 and 156-167: console.New, which runs the preloaded
\* scripts and may fail (fatal), then defer console.Stop(false)
NewConsole ==
  /\ pc = "new"
  /\ \/ /\ pc' = "fatal"
        /\ UNCHANGED <<cons, deferred>>
     \/ /\ cons' = "running"
        /\ deferred' = Append(deferred, "console")
        /\ pc' = IF cmd = "js" THEN "execute" ELSE "session"
  /\ UNCHANGED <<cmd, node, left, aborter>>

\* lines 83-92 and 116-125: evaluate the --exec script, or print the
\* welcome and run the interactive loop until the user leaves; then return
Session ==
  /\ pc = "session"
  /\ pc' = "return"
  /\ UNCHANGED <<cmd, node, cons, deferred, left, aborter>>

\* lines 170-174: execute the next file; a failing file is fatal
Execute ==
  /\ pc = "execute"
  /\ left > 0
  /\ \/ left' = left - 1 /\ UNCHANGED pc
     \/ pc' = "fatal" /\ UNCHANGED left
  /\ UNCHANGED <<cmd, node, cons, deferred, aborter>>

\* lines 176-182: with every file executed, route Ctrl-C to the goroutine
\* that calls os.Exit(0)
Wait ==
  /\ pc = "execute"
  /\ left = 0
  /\ aborter' = TRUE
  /\ pc' = "wait"
  /\ UNCHANGED <<cmd, node, cons, deferred, left>>

\* line 183: console.Stop(true) returns once the pending callbacks ran
StopGraceful ==
  /\ pc = "wait"
  /\ cons' = "stopped"
  /\ pc' = "return"
  /\ UNCHANGED <<cmd, node, deferred, left, aborter>>

\* lines 180-181: the user presses Ctrl-C and the goroutine exits the
\* process, whatever the main goroutine is doing, deferred calls included
Interrupt ==
  /\ aborter
  /\ pc \notin Ended
  /\ pc' = "interrupted"
  /\ UNCHANGED <<cmd, node, cons, deferred, left, aborter>>

\* mutant: the deferred calls run in the order they were registered
UnwindFirst ==
  /\ pc = "return"
  /\ \/ /\ deferred = <<>>
        /\ pc' = "returned"
        /\ UNCHANGED <<node, cons, deferred>>
     \/ /\ deferred # <<>>
        /\ Stop(Head(deferred))
        /\ deferred' = Tail(deferred)
        /\ UNCHANGED pc
  /\ UNCHANGED <<cmd, left, aborter>>

\* return nil: the deferred calls run, the last registered first
\* (console.Stop(false) before node.Stop()), then the command has returned
Unwind ==
  /\ pc = "return"
  /\ \/ /\ deferred = <<>>
        /\ pc' = "returned"
        /\ UNCHANGED <<node, cons, deferred>>
     \/ /\ deferred # <<>>
        /\ Stop(Last(deferred))
        /\ deferred' = Front(deferred)
        /\ UNCHANGED pc
  /\ UNCHANGED <<cmd, left, aborter>>

\* the process has ended
Exited == pc \in Ended /\ UNCHANGED cvars

\* localConsole, lines 59-92: a node, its console and the session
LocalConsole ==
  cmd = "console" /\ (StartNode \/ NewConsole \/ Session \/ Unwind)

\* remoteConsole, lines 96-125: a dialled node, its console and the session
RemoteConsole ==
  cmd = "attach" /\ (Dial \/ NewConsole \/ Session \/ Unwind)

\* ephemeralConsole, lines 144-186: a node, its console and the files
EphemeralConsole ==
  cmd = "js" /\ (StartNode \/ NewConsole \/ Execute \/ Wait \/ StopGraceful \/ Unwind)

Next == LocalConsole \/ RemoteConsole \/ EphemeralConsole \/ Interrupt \/ Exited

Spec == Init /\ [][Next]_cvars
-----------------------------------------------------------------------------

\* the console talks to the node through the in-process client that
\* node.Attach returned: the deferred calls of localConsole and
\* ephemeralConsole stop the node only after every console attached to it
ConsoleBeforeNode == node = "stopped" => cons # "running"

\* a console command that returns leaves no console running and no node it
\* started running: every resource it acquired has its deferred stop run
TornDown == pc = "returned" => cons = "stopped" /\ node # "running"
=============================================================================
