----------------------------- MODULE AiContainers -----------------------------
(***************************************************************************)
(* The front ends of the AI assistant (frontend.scrapec, gui_frontend      *)
(* .scrapec, the menu and the queries of pacnixum ai-assist) and the       *)
(* containers they start through interface.scrapec and docker_compat       *)
(* .scrapec.  A session is one process of a front end; sessions share one  *)
(* Docker daemon, and one action is one docker command.  frontend and      *)
(* gui_frontend are menus over one assistant.                              *)
(*                                                                         *)
(* Assumed of Docker: "run" needs the name and the host port to be free,   *)
(* and may fail for other reasons; it always refuses --cpus next to        *)
(* --cpu-quota; --rm removes a container that ends; "stop" ends the        *)
(* container or fails.  What depends on the network or the image only (the *)
(* ping, the local images, the pull) is an arbitrary outcome.              *)
(***************************************************************************)
EXTENDS Integers, Sequences, FiniteSets

CONSTANTS
  Sessions,
  Names,          \* of assistants
  Images,
  DefaultImage,   \* my-ai-image:latest
  ImageOf,        \* the image the user names with each assistant
  FrontendName,   \* the one assistant of frontend.scrapec
  GuiNames,       \* the table of gui_frontend.scrapec
  Launches        \* what the user enters in the menu: lists of names

ASSUME AiAssumption ==
  /\ DefaultImage \in Images
  /\ ImageOf \in [Names -> Images]
  /\ FrontendName \in Names /\ GuiNames \subseteq Names
  /\ Launches \subseteq Seq(Names) \ {<<>>}

VARIABLES
  containers,   \* the running containers
  pc,           \* the next docker command of each session
  todo,         \* its head is the name the session works on
  why,          \* whether ensure_ai_container was called to launch or restart
  running,      \* the Vec of the assistants reported as running
  gone,         \* observer: the container of the first run has ended
  unstopped     \* observer: names for which the shutdown's stop failed

vars == <<containers, pc, todo, why, running, gone, unstopped>>

Ports == {12789, 12800}
Containers == [name : Names, by : Sessions, image : Images, port : Ports]
Ensuring == {"prepare", "run1", "run2", "run3"}
Labels == Ensuring \cup {"idle", "menu", "exec", "restart", "stop", "stopped"}

TypeOK ==
  /\ containers \subseteq Containers
  /\ pc \in [Sessions -> Labels]
  /\ todo \in [Sessions -> Seq(Names)]
  /\ \A s \in Sessions : pc[s] \notin {"idle", "menu", "stopped"} => todo[s] # <<>>
  /\ \A s \in Sessions : pc[s] = "menu" => running[s] # <<>>
  /\ why \in [Sessions -> {"launch", "restart"}]
  /\ running \in [Sessions -> Seq(Names)]
  /\ gone \in [Sessions -> BOOLEAN]
  /\ unstopped \in [Sessions -> SUBSET Names]

Init ==
  /\ containers = {}
  /\ pc = [s \in Sessions |-> "idle"]
  /\ todo = [s \in Sessions |-> <<>>]
  /\ why = [s \in Sessions |-> "launch"]
  /\ running = [s \in Sessions |-> <<>>]
  /\ gone = [s \in Sessions |-> FALSE]
  /\ unstopped = [s \in Sessions |-> {}]

name(s) == Head(todo[s])
Named(n) == {c \in containers : c.name = n}

Goto(s, label) == pc' = [pc EXCEPT ![s] = label]

(* Back in the menu, or at the end of a session that has none. *)
Back(s) == Goto(s, IF running[s] = <<>> THEN "idle" ELSE "menu")

(* The containers in C end; a session between its runs may lose its own. *)
End(C) ==
  /\ containers' = containers \ C
  /\ gone' = [s \in Sessions |->
                \/ gone[s]
                \/ /\ pc[s] \in {"run2", "run3"}
                   /\ \E c \in C : c.by = s /\ c.name = name(s)]

-----------------------------------------------------------------------------
(* ensure_ai_container *)

(* Its return: ensure_ai_containers keeps the list of the assistants that  *)
(* run and goes on with the next one; query_ai only prints the result.     *)
ReturnWith(s, list) ==
  /\ gone' = [gone EXCEPT ![s] = FALSE]
  /\ why' = [why EXCEPT ![s] = "launch"]
  /\ todo' = [todo EXCEPT ![s] = Tail(@)]
  /\ IF why[s] = "restart"
     THEN Back(s) /\ UNCHANGED running
     ELSE /\ running' = [running EXCEPT ![s] = list]
          /\ Goto(s, CASE Tail(todo[s]) # <<>> -> "prepare"
                       [] Tail(todo[s]) = <<>> /\ list = <<>> -> "idle"
                       [] OTHER -> "menu")

ReturnTrue(s) == ReturnWith(s, Append(running[s], name(s)))
ReturnFalse(s) == ReturnWith(s, running[s])

(* docker info, ping, docker images, docker pull: either all is well, or   *)
(* the call returns false.                                                 *)
Prepare(s) ==
  /\ pc[s] = "prepare"
  /\ \/ Goto(s, "run1") /\ UNCHANGED <<todo, why, running, gone>>
     \/ ReturnFalse(s)
  /\ UNCHANGED <<containers, unstopped>>

image(s) == IF why[s] = "restart" THEN DefaultImage ELSE ImageOf[name(s)]

Free(n, port) == \A c \in containers : c.name # n /\ c.port # port

RunContainer(s, port) ==
  containers' = containers \cup
    {[name |-> name(s), by |-> s, image |-> image(s), port |-> port]}

(* The first run, with the volumes if the user asked for storage.  With    *)
(* the limits it cannot succeed.                                           *)
RunFirst_oneFlag(s) ==
  /\ pc[s] = "run1"
  /\ \/ /\ Named(name(s)) = {}
        /\ RunContainer(s, 0) /\ Goto(s, "run2")
        /\ UNCHANGED <<todo, why, running, gone>>
     \/ ReturnFalse(s) /\ UNCHANGED containers
  /\ UNCHANGED unstopped

RunFirst(s) ==
  /\ pc[s] = "run1"
  /\ \/ \E limits \in BOOLEAN :
          /\ ~limits /\ Free(name(s), 12789)
          /\ RunContainer(s, 12789) /\ Goto(s, "run2")
          /\ UNCHANGED <<todo, why, running, gone>>
     \/ ReturnFalse(s) /\ UNCHANGED containers
  /\ UNCHANGED unstopped

(* The second run, under the same name and port, whatever became of the    *)
(* first.  When it fails the user may ask for another port.                *)
RunSecond_replace(s) ==
  /\ pc[s] = "run2"
  /\ containers' = (containers \ Named(name(s))) \cup
       {[name |-> name(s), by |-> s, image |-> image(s), port |-> 12789]}
  /\ ReturnTrue(s)
  /\ UNCHANGED unstopped

RunSecond(s) ==
  /\ pc[s] = "run2"
  /\ \/ Free(name(s), 12789) /\ RunContainer(s, 12789) /\ ReturnTrue(s)
     \/ Goto(s, "run3") /\ UNCHANGED <<containers, todo, why, running, gone>>
     \/ ReturnFalse(s) /\ UNCHANGED containers
  /\ UNCHANGED unstopped

find_free_port == 12800

RunThird(s) ==
  /\ pc[s] = "run3"
  /\ \/ /\ Free(name(s), find_free_port)
        /\ RunContainer(s, find_free_port) /\ ReturnTrue(s)
     \/ ReturnFalse(s) /\ UNCHANGED containers
  /\ UNCHANGED unstopped

-----------------------------------------------------------------------------
(* The sessions. *)

Launch(s, names) ==
  /\ pc[s] = "idle"
  /\ Goto(s, "prepare")
  /\ todo' = [todo EXCEPT ![s] = names]
  /\ UNCHANGED <<containers, why, running, gone, unstopped>>

Frontend(s) == Launch(s, <<FrontendName>>)
GuiFrontend(s) == \E n \in GuiNames : Launch(s, <<n>>)
Menu(s) == \E names \in Launches : Launch(s, names)

(* query_ai *)
Query(s, n) ==
  /\ Goto(s, "exec")
  /\ todo' = [todo EXCEPT ![s] = <<n>>]
  /\ UNCHANGED <<containers, why, running, gone, unstopped>>

(* From a menu, with a name that is in its list. *)
QueryListed(s) ==
  pc[s] = "menu" /\ \E i \in DOMAIN running[s] : Query(s, running[s][i])

(* From "pacnixum ai-assist query", with any name. *)
QueryNamed(s) == pc[s] = "idle" /\ \E n \in Names : Query(s, n)

(* exec_in_container: an answer or an error ends the query; on an error    *)
(* (streamed answers excepted) the user may accept a restart instead.      *)
Exec(s) ==
  /\ pc[s] = "exec"
  /\ \/ Back(s) /\ todo' = [todo EXCEPT ![s] = <<>>]
     \/ Goto(s, "restart") /\ UNCHANGED todo
  /\ UNCHANGED <<containers, why, running, gone, unstopped>>

(* shutdown_ai, whose result nobody looks at, then ensure_ai_container     *)
(* with the default image.                                                 *)
RestartThen(s, label) ==
  /\ pc[s] = "restart"
  /\ End(Named(name(s))) \/ End({})
  /\ why' = [why EXCEPT ![s] = "restart"]
  /\ Goto(s, label)
  /\ UNCHANGED <<todo, running, unstopped>>

Restart_retry(s) == RestartThen(s, "exec")
Restart(s) == RestartThen(s, "prepare")

ExitMenu(s) ==
  /\ pc[s] = "menu"
  /\ Goto(s, "stop")
  /\ todo' = [todo EXCEPT ![s] = running[s]]
  /\ UNCHANGED <<containers, why, running, gone, unstopped>>

(* shutdown_ai of the next assistant; that it is not running, or that      *)
(* docker could not stop it, is no reason to end the loop.                 *)
StopThen(s, rest, ended) ==
  /\ pc[s] = "stop"
  /\ \/ End(Named(name(s))) /\ UNCHANGED unstopped
     \/ /\ Named(name(s)) # {} /\ End({})
        /\ unstopped' = [unstopped EXCEPT ![s] = @ \cup {name(s)}]
  /\ todo' = [todo EXCEPT ![s] = rest]
  /\ Goto(s, IF ended THEN "stopped" ELSE "stop")
  /\ UNCHANGED <<why, running>>

StopNext_past(s) == StopThen(s, Tail(todo[s]), todo[s] = <<>>)
StopNext_giveUp(s) ==
  StopThen(s, Tail(todo[s]), Tail(todo[s]) = <<>> \/ Named(name(s)) = {})
StopNext(s) == StopThen(s, Tail(todo[s]), Tail(todo[s]) = <<>>)

(* "All assistants stopped." *)
Return(s) ==
  /\ pc[s] = "stopped"
  /\ Goto(s, "idle")
  /\ running' = [running EXCEPT ![s] = <<>>]
  /\ unstopped' = [unstopped EXCEPT ![s] = {}]
  /\ UNCHANGED <<containers, todo, why, gone>>

Step(s) == \/ Prepare(s) \/ RunFirst(s) \/ RunSecond(s) \/ RunThird(s)
           \/ Exec(s) \/ Restart(s) \/ StopNext(s) \/ Return(s)

(* The user ends the process: its containers stay. *)
Kill(s) ==
  /\ pc[s] # "idle"
  /\ Goto(s, "idle")
  /\ todo' = [todo EXCEPT ![s] = <<>>]
  /\ why' = [why EXCEPT ![s] = "launch"]
  /\ running' = [running EXCEPT ![s] = <<>>]
  /\ gone' = [gone EXCEPT ![s] = FALSE]
  /\ unstopped' = [unstopped EXCEPT ![s] = {}]
  /\ UNCHANGED containers

(* An assistant ends by itself. *)
Die(c) == End({c}) /\ UNCHANGED <<pc, todo, why, running, unstopped>>

Next == \/ \E s \in Sessions :
             \/ Step(s) \/ ExitMenu(s) \/ Kill(s)
             \/ Frontend(s) \/ GuiFrontend(s) \/ Menu(s)
             \/ QueryListed(s) \/ QueryNamed(s)
        \/ \E c \in containers : Die(c)

Spec == Init /\ [][Next]_vars

-----------------------------------------------------------------------------
(* PROPERTIES *)

(* DOCKER_COMPAT.md:12: "Pull and run an AI assistant:                     *)
(* `ensure_ai_container(...)`".  A call whose container runs does not      *)
(* return false.  Line 99 starts the assistant a second time under the     *)
(* name and the port that the first container has, and breaks it.          *)
HealthyLaunchReported ==
  [][\A s \in Sessions :
       /\ RunSecond(s) \/ RunThird(s)
       /\ \E c \in Named(name(s)) : c.by = s
       /\ todo'[s] # todo[s] /\ why[s] = "launch"
       => Len(running'[s]) > Len(running[s])]_vars

(* Why: ensure_ai_container starts the assistant twice under one name      *)
(* (lines 77-81 and 99), so an assistant is reported as running only if    *)
(* the container of the first run has ended in between, whoever ended it.  *)
LaunchNeedsLoss ==
  [][\A s \in Sessions : Len(running'[s]) > Len(running[s]) => gone[s]]_vars

(* Lines 281-284: when a menu has worked through its list, the only        *)
(* containers left of those it started under a name in it are the ones     *)
(* docker failed to stop, whatever ended, was restarted or was taken over  *)
(* by other sessions meanwhile.                                            *)
ShutdownStopsOwn ==
  \A s \in Sessions : pc[s] = "stopped" =>
     \A i \in DOMAIN running[s] :
        running[s][i] \in unstopped[s] \/ \A c \in Named(running[s][i]) : c.by # s

(* There are two host ports (lines 76 and 152), and each assistant takes   *)
(* one: no three assistants run at once, however many are launched.        *)
TwoAtMost == \A b, c, d \in containers : b = c \/ c = d \/ b = d

(* No call of ensure_ai_container, query_ai or shutdown_ai can go round in *)
(* circles: each docker command of a call brings the session nearer to its *)
(* end.  The names that are left count most, then the place in the work on *)
(* the present one; a restart (line 216) calls ensure_ai_container and not *)
(* the query again, and other sessions and containers cannot set a session *)
(* back.  That a command or a user answers is not assumed: a call may wait *)
(* at any of them.                                                         *)
Place == [exec |-> 7, restart |-> 6, prepare |-> 5, run1 |-> 4, run2 |-> 3, run3 |-> 2,
          stop |-> 1, stopped |-> 1, idle |-> 0, menu |-> 0]

CommandsLeft(s) == 10 * Len(todo[s]) + Place[pc[s]]

CallMovesOn ==
  [][\A s \in Sessions : pc[s] \notin {"idle", "menu"} =>
       \/ pc'[s] \in {"idle", "menu"}
       \/ pc'[s] = pc[s] /\ todo'[s] = todo[s]
       \/ CommandsLeft(s)' < CommandsLeft(s)]_vars
=============================================================================
