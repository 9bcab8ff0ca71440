-------------------------- MODULE AiContainersProofs --------------------------
(***************************************************************************)
(* Proofs about AiContainers, for any sessions, assistants and menu        *)
(* inputs.  The safety properties follow from IInv: Docker keeps names and *)
(* ports apart, a session between its runs either still has the container  *)
(* of the first one or has seen it go, and a session that shuts down has   *)
(* no container left under the names it has already worked off, except     *)
(* those docker failed to stop.                                            *)
(***************************************************************************)
EXTENDS AiContainers, TLAPS

NamesApart == \A c, d \in containers : c.name = d.name => c = d
PortsApart == \A c, d \in containers : c.port = d.port => c = d

FirstRun ==
  \A s \in Sessions : pc[s] \in {"run2", "run3"} /\ ~gone[s] =>
     \E c \in containers : c.by = s /\ c.name = name(s)

(* The name at place i of the list is still to be worked off. *)
Pending(s, i) == \E j \in DOMAIN todo[s] : todo[s][j] = running[s][i]
Clean(s, n) == n \in unstopped[s] \/ \A c \in containers : c.name = n => c.by # s

Stopping ==
  \A s \in Sessions :
     /\ pc[s] = "stop" =>
          \A i \in DOMAIN running[s] : Clean(s, running[s][i]) \/ Pending(s, i)
     /\ pc[s] = "stopped" => \A i \in DOMAIN running[s] : Clean(s, running[s][i])

IInv == TypeOK /\ NamesApart /\ PortsApart /\ FirstRun /\ Stopping

-----------------------------------------------------------------------------
Returns(s) == ReturnTrue(s) \/ ReturnFalse(s)

(* What a return from ensure_ai_container leaves: a list of names, and the *)
(* session out of the runs and out of the shutdown.                        *)
LEMMA ReturnLeaves ==
  ASSUME TypeOK, NEW s \in Sessions, pc[s] \in Ensuring, Returns(s)
  PROVE  /\ \E label \in {"idle", "menu", "prepare"} :
              /\ pc' = [pc EXCEPT ![s] = label]
              /\ label = "prepare" => todo'[s] # <<>>
              /\ label = "menu" => running'[s] # <<>>
         /\ todo' \in [Sessions -> Seq(Names)]
         /\ \A t \in Sessions \ {s} : todo'[t] = todo[t] /\ running'[t] = running[t]
         /\ why' \in [Sessions -> {"launch", "restart"}]
         /\ running' \in [Sessions -> Seq(Names)]
         /\ gone' = [gone EXCEPT ![s] = FALSE]
<1>1. todo[s] \in Seq(Names) /\ todo[s] # <<>> /\ running[s] \in Seq(Names)
  BY DEF TypeOK, Ensuring
<1>2. name(s) \in Names /\ Tail(todo[s]) \in Seq(Names)
  BY <1>1 DEF name
<1>3. PICK list \in Seq(Names) : ReturnWith(s, list)
  <2>1. Append(running[s], name(s)) \in Seq(Names)
    BY <1>1, <1>2
  <2> QED BY <1>1, <2>1 DEF Returns, ReturnTrue, ReturnFalse
<1>4. todo' = [todo EXCEPT ![s] = Tail(@)] /\ why' = [why EXCEPT ![s] = "launch"]
      /\ gone' = [gone EXCEPT ![s] = FALSE]
  BY <1>3 DEF ReturnWith
<1>5. todo'[s] = Tail(todo[s]) /\ todo' \in [Sessions -> Seq(Names)]
      /\ \A t \in Sessions \ {s} : todo'[t] = todo[t]
  BY <1>2, <1>4 DEF TypeOK
<1>6. why' \in [Sessions -> {"launch", "restart"}]
  BY <1>4 DEF TypeOK
<1>7. CASE why[s] = "restart"
  <2>1. running' = running /\ Back(s)
    BY <1>3, <1>7 DEF ReturnWith
  <2> QED BY <1>4, <1>5, <1>6, <2>1 DEF Back, Goto, TypeOK
<1>8. CASE why[s] # "restart"
  <2>1. running' = [running EXCEPT ![s] = list]
    BY <1>3, <1>8 DEF ReturnWith
  <2>2. running' \in [Sessions -> Seq(Names)] /\ running'[s] = list
        /\ \A t \in Sessions \ {s} : running'[t] = running[t]
    BY <2>1 DEF TypeOK
  <2>3. Goto(s, CASE Tail(todo[s]) # <<>> -> "prepare"
                  [] Tail(todo[s]) = <<>> /\ list = <<>> -> "idle"
                  [] OTHER -> "menu")
    BY <1>3, <1>8 DEF ReturnWith
  <2>4. CASE Tail(todo[s]) # <<>>
    <3>1. pc' = [pc EXCEPT ![s] = "prepare"]
      BY <2>3, <2>4 DEF Goto
    <3> QED BY <1>4, <1>5, <1>6, <2>2, <2>4, <3>1
  <2>5. CASE Tail(todo[s]) = <<>> /\ list = <<>>
    <3>1. pc' = [pc EXCEPT ![s] = "idle"]
      BY <2>3, <2>5 DEF Goto
    <3> QED BY <1>4, <1>5, <1>6, <2>2, <3>1
  <2>6. CASE Tail(todo[s]) = <<>> /\ list # <<>>
    <3>1. pc' = [pc EXCEPT ![s] = "menu"]
      BY <2>3, <2>6 DEF Goto
    <3> QED BY <1>4, <1>5, <1>6, <2>2, <2>6, <3>1
  <2> QED BY <2>4, <2>5, <2>6
<1> QED BY <1>7, <1>8

(* A new container is a container of this session, under its own name. *)
LEMMA RunTypes ==
  ASSUME TypeOK, NEW s \in Sessions, pc[s] \in Ensuring, NEW port \in Ports,
         RunContainer(s, port)
  PROVE  containers' \subseteq Containers
<1>1. name(s) \in Names
  <2>1. todo[s] \in Seq(Names) /\ todo[s] # <<>>
    BY DEF TypeOK, Ensuring
  <2> QED BY <2>1 DEF name
<1>2. image(s) \in Images
  BY <1>1, AiAssumption DEF image
<1> QED BY <1>1, <1>2 DEF RunContainer, Containers, TypeOK

(* End changes nothing but the containers and the observer. *)
LEMMA EndTypes ==
  ASSUME TypeOK, NEW C, End(C)
  PROVE  containers' \subseteq Containers /\ gone' \in [Sessions -> BOOLEAN]
BY DEF End, TypeOK

-----------------------------------------------------------------------------
(* Every step keeps the types. *)
LEMMA StepTypeOK == TypeOK /\ [Next]_vars => TypeOK'
<1> SUFFICES ASSUME TypeOK, [Next]_vars PROVE TypeOK'
  OBVIOUS
<1> DEFINE Rest(s) == UNCHANGED <<todo, why, running, gone>>
<1>1. ASSUME NEW s \in Sessions, pc[s] \in Ensuring, Returns(s),
             containers' \subseteq Containers, unstopped' = unstopped
      PROVE  TypeOK'
  <2>1. PICK label \in {"idle", "menu", "prepare"} :
           /\ pc' = [pc EXCEPT ![s] = label]
           /\ label = "prepare" => todo'[s] # <<>>
           /\ label = "menu" => running'[s] # <<>>
    BY <1>1, ReturnLeaves
  <2>2. /\ todo' \in [Sessions -> Seq(Names)]
        /\ \A t \in Sessions \ {s} : todo'[t] = todo[t] /\ running'[t] = running[t]
        /\ why' \in [Sessions -> {"launch", "restart"}]
        /\ running' \in [Sessions -> Seq(Names)]
        /\ gone' \in [Sessions -> BOOLEAN]
    BY <1>1, ReturnLeaves DEF TypeOK
  <2> QED BY <1>1, <2>1, <2>2 DEF TypeOK, Labels, Ensuring
<1>2. ASSUME NEW s \in Sessions, Prepare(s) PROVE TypeOK'
  <2>1. CASE Goto(s, "run1") /\ Rest(s)
    BY <1>2, <2>1 DEF Prepare, Goto, TypeOK, Labels, Ensuring
  <2>2. CASE ReturnFalse(s)
    BY <1>1, <1>2, <2>2 DEF Prepare, Returns, Ensuring, TypeOK
  <2> QED BY <1>2, <2>1, <2>2 DEF Prepare
<1>3. ASSUME NEW s \in Sessions, RunFirst(s) PROVE TypeOK'
  <2> USE <1>3
  <2>1. CASE RunContainer(s, 12789) /\ Goto(s, "run2") /\ Rest(s)
    <3>1. containers' \subseteq Containers
      BY <2>1, RunTypes DEF RunFirst, Ensuring, Ports
    <3> QED BY <2>1, <3>1 DEF RunFirst, Goto, TypeOK, Labels, Ensuring
  <2>2. CASE ReturnFalse(s) /\ UNCHANGED containers
    BY <1>1, <2>2 DEF RunFirst, Returns, Ensuring, TypeOK
  <2> QED BY <2>1, <2>2 DEF RunFirst
<1>4. ASSUME NEW s \in Sessions, RunSecond(s) PROVE TypeOK'
  <2> USE <1>4
  <2>1. CASE RunContainer(s, 12789) /\ ReturnTrue(s)
    <3>1. containers' \subseteq Containers
      BY <2>1, RunTypes DEF RunSecond, Ensuring, Ports
    <3> QED BY <1>1, <2>1, <3>1 DEF RunSecond, Returns, Ensuring
  <2>2. CASE Goto(s, "run3") /\ UNCHANGED <<containers, todo, why, running, gone>>
    BY <2>2 DEF RunSecond, Goto, TypeOK, Labels, Ensuring
  <2>3. CASE ReturnFalse(s) /\ UNCHANGED containers
    BY <1>1, <2>3 DEF RunSecond, Returns, Ensuring, TypeOK
  <2> QED BY <2>1, <2>2, <2>3 DEF RunSecond
<1>5. ASSUME NEW s \in Sessions, RunThird(s) PROVE TypeOK'
  <2> USE <1>5
  <2>1. CASE RunContainer(s, 12800) /\ ReturnTrue(s)
    <3>1. containers' \subseteq Containers
      BY <2>1, RunTypes DEF RunThird, Ensuring, Ports
    <3> QED BY <1>1, <2>1, <3>1 DEF RunThird, Returns, Ensuring
  <2>2. CASE ReturnFalse(s) /\ UNCHANGED containers
    BY <1>1, <2>2 DEF RunThird, Returns, Ensuring, TypeOK
  <2> QED BY <2>1, <2>2 DEF RunThird, find_free_port
<1>6. ASSUME NEW s \in Sessions, Exec(s) PROVE TypeOK'
  <2>1. <<>> \in Seq(Names)
    OBVIOUS
  <2>2. CASE Back(s) /\ todo' = [todo EXCEPT ![s] = <<>>]
    BY <1>6, <2>1, <2>2 DEF Exec, Back, Goto, TypeOK, Labels, Ensuring
  <2>3. CASE Goto(s, "restart") /\ UNCHANGED todo
    BY <1>6, <2>3 DEF Exec, Goto, TypeOK, Labels, Ensuring
  <2> QED BY <1>6, <2>2, <2>3 DEF Exec
<1>7. ASSUME NEW s \in Sessions, Restart(s) PROVE TypeOK'
  <2>1. containers' \subseteq Containers /\ gone' \in [Sessions -> BOOLEAN]
    BY <1>7, EndTypes DEF Restart, RestartThen
  <2> QED BY <1>7, <2>1 DEF Restart, RestartThen, Goto, TypeOK, Labels, Ensuring
<1>8. ASSUME NEW s \in Sessions, StopNext(s) PROVE TypeOK'
  <2>1. containers' \subseteq Containers /\ gone' \in [Sessions -> BOOLEAN]
    BY <1>8, EndTypes DEF StopNext, StopThen
  <2>2. todo[s] \in Seq(Names) /\ todo[s] # <<>>
    BY <1>8 DEF StopNext, StopThen, TypeOK
  <2>3. Tail(todo[s]) \in Seq(Names)
    BY <2>2
  <2>5. unstopped' \in [Sessions -> SUBSET Names]
    <3>1. name(s) \in Names
      BY <2>2 DEF name
    <3>2. unstopped[s] \cup {name(s)} \in SUBSET Names
      BY <3>1 DEF TypeOK
    <3>3. \/ unstopped' = unstopped
          \/ unstopped' = [unstopped EXCEPT ![s] = unstopped[s] \cup {name(s)}]
      BY <1>8 DEF StopNext, StopThen
    <3> QED BY <3>2, <3>3 DEF TypeOK
  <2>4. todo' = [todo EXCEPT ![s] = Tail(todo[s])] /\ UNCHANGED <<why, running>>
        /\ Goto(s, IF Tail(todo[s]) = <<>> THEN "stopped" ELSE "stop")
    BY <1>8 DEF StopNext, StopThen
  <2> QED BY <2>1, <2>3, <2>4, <2>5 DEF Goto, TypeOK, Labels, Ensuring
<1>9. ASSUME NEW s \in Sessions, Return(s) PROVE TypeOK'
  BY <1>9 DEF Return, Goto, TypeOK, Labels, Ensuring
<1>10. ASSUME NEW s \in Sessions, ExitMenu(s) \/ Kill(s) PROVE TypeOK'
  <2>1. CASE Kill(s)
    BY <2>1 DEF Kill, Goto, TypeOK, Labels, Ensuring
  <2>2. CASE ExitMenu(s) 
    BY <2>2 DEF ExitMenu, Goto, TypeOK, Labels, Ensuring
  <2> QED BY <1>10, <2>1, <2>2
<1>11. ASSUME NEW s \in Sessions, Frontend(s) \/ GuiFrontend(s) \/ Menu(s)
       PROVE  TypeOK'
  <2>1. PICK names \in Seq(Names) : names # <<>> /\ Launch(s, names)
    <3>1. \A n \in Names : <<n>> \in Seq(Names) /\ <<n>> # <<>>
      OBVIOUS
    <3>2. CASE Frontend(s)
      BY <3>1, <3>2, AiAssumption DEF Frontend
    <3>3. CASE GuiFrontend(s)
      BY <3>1, <3>3, AiAssumption DEF GuiFrontend
    <3>4. CASE Menu(s)
      BY <3>4, AiAssumption DEF Menu
    <3> QED BY <1>11, <3>2, <3>3, <3>4
  <2> QED BY <2>1 DEF Launch, Goto, TypeOK, Labels, Ensuring
<1>12. ASSUME NEW s \in Sessions, QueryListed(s) \/ QueryNamed(s) PROVE TypeOK'
  <2>1. PICK n \in Names : Query(s, n)
    BY <1>12 DEF QueryListed, QueryNamed, TypeOK
  <2>2. <<n>> \in Seq(Names) /\ <<n>> # <<>>
    OBVIOUS
  <2> QED BY <2>1, <2>2 DEF Query, Goto, TypeOK, Labels, Ensuring
<1>13. ASSUME NEW c \in containers, Die(c) PROVE TypeOK'
  BY <1>13, EndTypes DEF Die, TypeOK
<1>14. CASE UNCHANGED vars
  BY <1>14 DEF vars, TypeOK
<1> QED
  BY <1>2, <1>3, <1>4, <1>5, <1>6, <1>7, <1>8, <1>9, <1>10, <1>11, <1>12, <1>13,
     <1>14 DEF Next, Step

-----------------------------------------------------------------------------
(* A session begins, or a query in its menu. *)
Opens(s) == Frontend(s) \/ GuiFrontend(s) \/ Menu(s) \/ QueryListed(s) \/ QueryNamed(s)

(* A step adds at most one container, of the session that takes it, whose  *)
(* name and port were free.                                                *)
Adds(s) == \E port \in Ports : Free(name(s), port) /\ RunContainer(s, port)

(* The steps of ensure_ai_container, by what they do to the containers. *)
LEMMA EnsureSteps ==
  ASSUME NEW s \in Sessions, Prepare(s) \/ RunFirst(s) \/ RunSecond(s) \/ RunThird(s)
  PROVE  /\ pc[s] \in Ensuring
         /\ Adds(s) \/ containers' = containers
         /\ \/ Returns(s)
            \/ /\ UNCHANGED <<todo, running, gone>>
               /\ \/ Goto(s, "run1")
                  \/ Goto(s, "run2") /\ \E port \in Ports : RunContainer(s, port)
                  \/ Goto(s, "run3") /\ pc[s] = "run2" /\ containers' = containers
<1> USE DEF Ensuring, Ports, Adds, Returns
<1>1. CASE Prepare(s) BY <1>1 DEF Prepare
<1>2. CASE RunFirst(s) BY <1>2 DEF RunFirst
<1>3. CASE RunSecond(s) BY <1>3 DEF RunSecond
<1>4. CASE RunThird(s) BY <1>4 DEF RunThird, find_free_port
<1> QED BY <1>1, <1>2, <1>3, <1>4

(* Names and ports stay apart. *)
LEMMA StepApart ==
  NamesApart /\ PortsApart /\ [Next]_vars => NamesApart' /\ PortsApart'
<1> SUFFICES ASSUME NamesApart, PortsApart, [Next]_vars
             PROVE  NamesApart' /\ PortsApart'
  OBVIOUS
<1>1. \/ containers' \subseteq containers
      \/ \E s \in Sessions : Adds(s)
  <2>1. ASSUME NEW s \in Sessions, Step(s)
        PROVE  containers' \subseteq containers \/ Adds(s)
    BY <2>1, EnsureSteps
       DEF Step, Exec, Restart, RestartThen, StopNext, StopThen, Return, End
  <2> QED
    BY <2>1 DEF Next, ExitMenu, Kill, Frontend, GuiFrontend, Menu, Launch, QueryListed,
                QueryNamed, Query, Die, End, vars
<1>2. CASE containers' \subseteq containers
  BY <1>2 DEF NamesApart, PortsApart
<1>3. CASE \E s \in Sessions : Adds(s)
  BY <1>3 DEF Adds, RunContainer, Free, NamesApart, PortsApart
<1> QED BY <1>1, <1>2, <1>3

-----------------------------------------------------------------------------
(* A session between its runs keeps its container, or sees it go. *)
LEMMA StepFirstRun == TypeOK /\ FirstRun /\ [Next]_vars => FirstRun'
<1> SUFFICES ASSUME TypeOK, FirstRun, [Next]_vars,
                    NEW t \in Sessions, pc'[t] \in {"run2", "run3"}, ~gone'[t]
             PROVE  \E c \in containers' : c.by = t /\ c.name = name(t)'
  BY DEF FirstRun
<1>1. ASSUME pc[t] \in {"run2", "run3"}, todo'[t] = todo[t], gone'[t] = gone[t],
             containers \subseteq containers'
      PROVE  \E c \in containers' : c.by = t /\ c.name = name(t)'
  BY <1>1 DEF FirstRun, name
<1>2. ASSUME pc[t] \in {"run2", "run3"}, todo'[t] = todo[t], NEW C, End(C)
      PROVE  \E c \in containers' : c.by = t /\ c.name = name(t)'
  <2>1. ~gone[t] /\ ~ \E c \in C : c.by = t /\ c.name = name(t)
    BY <1>2 DEF End
  <2>2. PICK c \in containers : c.by = t /\ c.name = name(t)
    BY <1>2, <2>1 DEF FirstRun
  <2> QED BY <1>2, <2>1, <2>2 DEF End, name
<1>3. ASSUME NEW s \in Sessions,
             Prepare(s) \/ RunFirst(s) \/ RunSecond(s) \/ RunThird(s)
      PROVE  \E c \in containers' : c.by = t /\ c.name = name(t)'
  <2>1. containers \subseteq containers'
    BY <1>3, EnsureSteps DEF Adds, RunContainer
  <2>2. CASE Returns(s)
    <3>1. pc[s] \in Ensuring
      BY <1>3, EnsureSteps
    <3>2. PICK label \in {"idle", "menu", "prepare"} : pc' = [pc EXCEPT ![s] = label]
      BY <2>2, <3>1, ReturnLeaves
    <3>3. s # t
      BY <3>2 DEF TypeOK
    <3>4. pc'[t] = pc[t] /\ todo'[t] = todo[t] /\ gone'[t] = gone[t]
      BY <2>2, <3>1, <3>2, <3>3, ReturnLeaves DEF TypeOK
    <3> QED BY <1>1, <2>1, <3>4
  <2>3. CASE UNCHANGED <<todo, running, gone>> /\ Goto(s, "run1")
    BY <1>1, <2>1, <2>3 DEF Goto, TypeOK
  <2>4. CASE UNCHANGED <<todo, running, gone>> /\ Goto(s, "run2")
             /\ \E port \in Ports : RunContainer(s, port)
    <3>1. CASE s = t
      <4>1. PICK port \in Ports :
              [name |-> name(t), by |-> t, image |-> image(t), port |-> port]
                \in containers'
        BY <2>4, <3>1 DEF RunContainer
      <4>2. name(t)' = name(t)
        BY <2>4 DEF name
      <4> QED BY <4>1, <4>2
    <3>2. CASE s # t
      BY <1>1, <2>1, <2>4, <3>2 DEF Goto, TypeOK
    <3> QED BY <3>1, <3>2
  <2>5. CASE UNCHANGED <<todo, running, gone>> /\ Goto(s, "run3") /\ pc[s] = "run2"
    BY <1>1, <2>1, <2>5 DEF Goto, TypeOK
  <2> QED BY <1>3, <2>2, <2>3, <2>4, <2>5, EnsureSteps
<1>4. ASSUME NEW s \in Sessions, Restart(s) \/ StopNext(s)
      PROVE  \E c \in containers' : c.by = t /\ c.name = name(t)'
  <2>1. End(Named(name(s))) \/ End({})
    BY <1>4 DEF Restart, RestartThen, StopNext, StopThen
  <2>2. pc[t] \in {"run2", "run3"} /\ todo'[t] = todo[t]
    BY <1>4 DEF Restart, RestartThen, StopNext, StopThen, Goto, TypeOK
  <2> QED BY <1>2, <2>1, <2>2
<1>5. ASSUME NEW s \in Sessions, Exec(s) \/ Return(s) \/ ExitMenu(s) \/ Kill(s)
      PROVE  \E c \in containers' : c.by = t /\ c.name = name(t)'
  BY <1>1, <1>5 DEF Exec, Back, Return, ExitMenu, Kill, Goto, TypeOK
<1>6. ASSUME NEW s \in Sessions, Opens(s)
      PROVE  \E c \in containers' : c.by = t /\ c.name = name(t)'
  BY <1>1, <1>6
     DEF Opens, Frontend, GuiFrontend, Menu, Launch, QueryListed, QueryNamed, Query,
         Goto, TypeOK
<1>7. ASSUME NEW c \in containers, Die(c)
      PROVE  \E d \in containers' : d.by = t /\ d.name = name(t)'
  BY <1>2, <1>7 DEF Die
<1>8. CASE UNCHANGED vars
  BY <1>1, <1>8 DEF vars
<1> QED
  BY <1>3, <1>4, <1>5, <1>6, <1>7, <1>8 DEF Next, Step, Opens

-----------------------------------------------------------------------------
(* The shutdown leaves nothing behind under the names it has worked off. *)
LEMMA StepStopping == TypeOK /\ Stopping /\ [Next]_vars => Stopping'
<1> DEFINE Kept(t) ==
      /\ pc[t] = "stop" =>
           \A i \in DOMAIN running[t] : Clean(t, running[t][i]) \/ Pending(t, i)
      /\ pc[t] = "stopped" =>
           \A i \in DOMAIN running[t] : Clean(t, running[t][i])
<1> SUFFICES ASSUME TypeOK, Stopping, [Next]_vars, NEW t \in Sessions
             PROVE  Kept(t)'
  BY DEF Stopping
<1>0. Kept(t)
  BY DEF Stopping
<1>1. ASSUME pc'[t] = pc[t], todo'[t] = todo[t], running'[t] = running[t],
             unstopped'[t] = unstopped[t],
             \A c \in containers' : c \in containers \/ c.by # t
      PROVE  Kept(t)'
  BY <1>0, <1>1 DEF Clean, Pending
<1>2. ASSUME NEW s \in Sessions,
             Prepare(s) \/ RunFirst(s) \/ RunSecond(s) \/ RunThird(s)
      PROVE  Kept(t)'
  <2>1. \A c \in containers' : c \in containers \/ c.by = s
    BY <1>2, EnsureSteps DEF Adds, RunContainer
  <2>2. \E label \in Labels \ {"stop", "stopped"} : pc' = [pc EXCEPT ![s] = label]
    BY <1>2, EnsureSteps, ReturnLeaves DEF Goto, Labels, Ensuring
  <2>3. CASE s = t
    BY <2>2, <2>3 DEF TypeOK
  <2>4. CASE s # t
    <3>1. pc'[t] = pc[t]
      BY <2>2, <2>4 DEF TypeOK
    <3>2. todo'[t] = todo[t] /\ running'[t] = running[t]
      BY <1>2, <2>4, EnsureSteps, ReturnLeaves
    <3>3. unstopped' = unstopped
      BY <1>2 DEF Prepare, RunFirst, RunSecond, RunThird
    <3> QED BY <1>1, <2>1, <2>4, <3>1, <3>2, <3>3
  <2> QED BY <2>3, <2>4
<1>3. ASSUME NEW s \in Sessions, StopNext(s) PROVE Kept(t)'
  <2>1. /\ \/ containers' = containers \ Named(name(s)) /\ unstopped' = unstopped
           \/ /\ containers' = containers
              /\ unstopped' = [unstopped EXCEPT ![s] = @ \cup {name(s)}]
        /\ todo' = [todo EXCEPT ![s] = Tail(todo[s])]
        /\ pc' = [pc EXCEPT ![s] = IF Tail(todo[s]) = <<>> THEN "stopped" ELSE "stop"]
        /\ running' = running /\ pc[s] = "stop"
    BY <1>3 DEF StopNext, StopThen, End, Goto
  <2>2. CASE s # t
    BY <1>1, <2>1, <2>2 DEF TypeOK
  <2>3. CASE s = t
    <3>1. todo[t] \in Seq(Names) /\ todo[t] # <<>> /\ todo'[t] = Tail(todo[t])
      BY <2>1, <2>3 DEF TypeOK
    <3>2. ASSUME NEW i \in DOMAIN running[t], ~Clean(t, running[t][i])'
          PROVE  Pending(t, i)' /\ Tail(todo[t]) # <<>>
      <4>1. ~Clean(t, running[t][i])
        BY <2>1, <2>3, <3>2 DEF Clean, TypeOK
      <4>2. PICK j \in DOMAIN todo[t] : todo[t][j] = running[t][i]
        BY <1>0, <2>1, <2>3, <4>1 DEF Pending
      <4>3. running[t][i] # name(t)
        BY <2>1, <2>3, <3>2 DEF Clean, Named, TypeOK
      <4>4. j \in 2 .. Len(todo[t])
        BY <3>1, <4>2, <4>3 DEF name
      <4>5. j - 1 \in DOMAIN Tail(todo[t]) /\ Tail(todo[t])[j - 1] = todo[t][j]
        BY <3>1, <4>4
      <4>6. Tail(todo[t]) # <<>>
        BY <3>1, <4>5
      <4> QED BY <2>1, <3>1, <4>2, <4>5, <4>6 DEF Pending
    <3>3. running'[t] = running[t]
          /\ pc'[t] = IF Tail(todo[t]) = <<>> THEN "stopped" ELSE "stop"
      BY <2>1, <2>3 DEF TypeOK
    <3> QED BY <3>2, <3>3
  <2> QED BY <2>2, <2>3
<1>4. ASSUME NEW s \in Sessions, ExitMenu(s) PROVE Kept(t)'
  <2>1. CASE s # t
    BY <1>1, <1>4, <2>1 DEF ExitMenu, Goto, TypeOK
  <2>2. CASE s = t
    <3>1. todo'[t] = running[t] /\ running'[t] = running[t] /\ pc'[t] = "stop"
      BY <1>4, <2>2 DEF ExitMenu, Goto, TypeOK
    <3> QED BY <3>1 DEF Pending
  <2> QED BY <2>1, <2>2
<1>5. ASSUME NEW s \in Sessions, Restart(s) PROVE Kept(t)'
  <2>1. pc'[t] = pc[t] \/ pc'[t] = "prepare"
    BY <1>5 DEF Restart, RestartThen, Goto, TypeOK
  <2>2. /\ todo' = todo /\ running' = running /\ unstopped' = unstopped
        /\ containers' \subseteq containers
    BY <1>5 DEF Restart, RestartThen, End
  <2> QED BY <1>1, <2>1, <2>2
<1>6. ASSUME NEW s \in Sessions, Exec(s) \/ Return(s) \/ Kill(s) PROVE Kept(t)'
  <2>1. CASE s = t
    BY <1>6, <2>1 DEF Exec, Back, Return, Kill, Goto, TypeOK
  <2>2. CASE s # t
    BY <1>1, <1>6, <2>2 DEF Exec, Back, Return, Kill, Goto, TypeOK
  <2> QED BY <2>1, <2>2
<1>7. ASSUME NEW s \in Sessions, Opens(s)
      PROVE  Kept(t)'
  <2>1. CASE s = t
    BY <1>7, <2>1
       DEF Opens, Frontend, GuiFrontend, Menu, Launch, QueryListed, QueryNamed, Query,
           Goto, TypeOK
  <2>2. CASE s # t
    BY <1>1, <1>7, <2>2
       DEF Opens, Frontend, GuiFrontend, Menu, Launch, QueryListed, QueryNamed, Query,
           Goto, TypeOK
  <2> QED BY <2>1, <2>2
<1>8. ASSUME NEW c \in containers, Die(c) PROVE Kept(t)'
  BY <1>1, <1>8 DEF Die, End
<1>9. CASE UNCHANGED vars
  BY <1>1, <1>9 DEF vars
<1> HIDE DEF Kept
<1> QED
  BY <1>2, <1>3, <1>4, <1>5, <1>6, <1>7, <1>8, <1>9 DEF Next, Step, Opens

-----------------------------------------------------------------------------
(* IInv holds in every state of every behaviour of the sessions. *)
THEOREM AiInvariant == Spec => []IInv
<1>1. Init => IInv
  BY DEF Init, IInv, TypeOK, NamesApart, PortsApart, FirstRun, Stopping, Labels
<1>2. IInv /\ [Next]_vars => IInv'
  BY StepTypeOK, StepApart, StepFirstRun, StepStopping DEF IInv
<1> QED BY <1>1, <1>2, PTL DEF Spec

(* Type correctness of the sessions and of the containers they start. *)
THEOREM AiTypeOK == Spec => []TypeOK
<1>1. IInv => TypeOK
  BY DEF IInv
<1> QED BY <1>1, AiInvariant, PTL

(* A menu that has worked through its list (lines 281-284) leaves, of the  *)
(* containers it started under a name of the list, only those that docker  *)
(* failed to stop.                                                         *)
THEOREM AiShutdownStopsOwn == Spec => []ShutdownStopsOwn
<1>1. IInv => ShutdownStopsOwn
  BY DEF IInv, Stopping, Clean, ShutdownStopsOwn, Named
<1> QED BY <1>1, AiInvariant, PTL

(* Two hard-coded ports: at most two assistants run at once, for any       *)
(* number of sessions and names.                                           *)
THEOREM AiTwoAtMost == Spec => []TwoAtMost
<1>1. IInv => TwoAtMost
  <2> SUFFICES ASSUME IInv, NEW b \in containers, NEW c \in containers,
                      NEW d \in containers
               PROVE  b = c \/ c = d \/ b = d
    BY DEF TwoAtMost
  <2>1. \A x \in {b, c, d} : x.port = 12789 \/ x.port = 12800
    BY DEF IInv, TypeOK, Containers, Ports
  <2> QED BY <2>1 DEF IInv, PortsApart
<1> QED BY <1>1, AiInvariant, PTL

(* Only the loss of the first container lets ensure_ai_container (line 99  *)
(* or 108) return true while an assistant is launched.                     *)
THEOREM AiLaunchNeedsLoss == Spec => LaunchNeedsLoss
<1>1. IInv /\ [Next]_vars
        => [\A s \in Sessions : Len(running'[s]) > Len(running[s]) => gone[s]]_vars
  <2> SUFFICES ASSUME IInv, Next, NEW t \in Sessions,
                      Len(running'[t]) > Len(running[t])
               PROVE  gone[t]
    OBVIOUS
  <2> USE DEF IInv
  <2>1. running[t] \in Seq(Names) /\ Len(running[t]) \in Nat
    BY DEF TypeOK
  <2>2. ASSUME NEW s \in Sessions, ReturnFalse(s), running[s] \in Seq(Names)
        PROVE  running' = running
    BY <2>2 DEF ReturnFalse, ReturnWith, TypeOK
  <2>3. ASSUME NEW s \in Sessions, ReturnTrue(s) PROVE running'[t] = running[t] \/ s = t
    BY <2>3 DEF ReturnTrue, ReturnWith, TypeOK
  <2>4. ASSUME NEW s \in Sessions, Prepare(s) \/ RunFirst(s) PROVE gone[t]
    <3>1. running' = running
      BY <2>2, <2>4 DEF Prepare, RunFirst, TypeOK
    <3> QED BY <2>1, <3>1
  <2>5. ASSUME NEW s \in Sessions, RunSecond(s) \/ RunThird(s) PROVE gone[t]
    <3>1. CASE running' = running
      BY <2>1, <3>1
    <3>2. CASE ReturnTrue(s) /\ \E port \in Ports : Free(name(s), port)
      <4>1. s = t
        BY <2>1, <2>3, <3>2
      <4>2. pc[t] \in {"run2", "run3"}
        BY <2>5, <4>1 DEF RunSecond, RunThird
      <4> QED BY <3>2, <4>1, <4>2 DEF FirstRun, Free
    <3> QED BY <2>2, <2>5, <3>1, <3>2
            DEF RunSecond, RunThird, find_free_port, Ports, TypeOK
  <2>6. ASSUME NEW s \in Sessions,
               \/ Exec(s) \/ Restart(s) \/ StopNext(s) \/ ExitMenu(s)
        PROVE  gone[t]
    BY <2>1, <2>6 DEF Exec, Restart, RestartThen, StopNext, StopThen, ExitMenu
  <2>7. ASSUME NEW s \in Sessions, Return(s) \/ Kill(s) PROVE gone[t]
    <3>1. running'[t] = running[t] \/ running'[t] = <<>>
      BY <2>7 DEF Return, Kill, TypeOK
    <3> QED BY <2>1, <3>1
  <2>8. ASSUME NEW s \in Sessions, Opens(s)
        PROVE  gone[t]
    BY <2>1, <2>8
       DEF Opens, Frontend, GuiFrontend, Menu, Launch, QueryListed, QueryNamed, Query
  <2>9. ASSUME NEW c \in containers, Die(c) PROVE gone[t]
    BY <2>1, <2>9 DEF Die
  <2> QED BY <2>4, <2>5, <2>6, <2>7, <2>8, <2>9 DEF Next, Step, Opens
<1> QED BY <1>1, AiInvariant, PTL DEF Spec, LaunchNeedsLoss

-----------------------------------------------------------------------------
(* Calls come to an end: what CallMovesOn says of one session. *)
Nearer(s) == \/ pc'[s] \in {"idle", "menu"}
             \/ pc'[s] = pc[s] /\ todo'[s] = todo[s]
             \/ CommandsLeft(s)' < CommandsLeft(s)

(* The next command for the same name, ... *)
LEMMA SameName ==
  ASSUME TypeOK, NEW s \in Sessions, NEW label \in Labels, Goto(s, label), UNCHANGED todo,
         Place[label] < Place[pc[s]]
  PROVE Nearer(s)
<1>1. pc'[s] = label /\ Len(todo[s]) \in Nat
  BY DEF TypeOK, Goto
<1>2. Place[label] \in Nat /\ Place[pc[s]] \in Nat
  BY DEF TypeOK, Place, Labels, Ensuring
<1> QED BY <1>1, <1>2 DEF Nearer, CommandsLeft

(* One name less outweighs any place. *)
LEMMA NameOutweighs == \A k \in Nat, x, y \in 0 .. 7 : 10 * (k - 1) + x < 10 * k + y
OBVIOUS

(* ... and the next name. *)
LEMMA NextName ==
  ASSUME TypeOK, NEW s \in Sessions, todo[s] # <<>>, todo'[s] = Tail(todo[s]), pc'[s] \in Labels
  PROVE Nearer(s)
<1>1. todo[s] \in Seq(Names)
  BY DEF TypeOK
<1>2. Len(todo[s]) \in Nat /\ Len(todo'[s]) = Len(todo[s]) - 1
  BY <1>1
<1>3. Place[pc[s]] \in 0 .. 7 /\ Place[pc'[s]] \in 0 .. 7
  BY DEF TypeOK, Place, Labels, Ensuring
<1>4. 10 * Len(todo'[s]) + Place[pc'[s]] < 10 * Len(todo[s]) + Place[pc[s]]
  <2>2. 10 * (Len(todo[s]) - 1) + Place[pc'[s]] < 10 * Len(todo[s]) + Place[pc[s]]
    BY <1>2, <1>3, NameOutweighs
  <2> QED BY <1>2, <2>2
<1> QED BY <1>4 DEF Nearer, CommandsLeft

LEMMA StepNearer ==
  ASSUME TypeOK, TypeOK', NEW s \in Sessions, Step(s)
  PROVE Nearer(s)
<1>t. pc'[s] \in Labels /\ todo[s] \in Seq(Names)
  BY DEF TypeOK
<1>r. ASSUME Returns(s), pc[s] \in Ensuring PROVE Nearer(s)
  <2>1. todo' = [todo EXCEPT ![s] = Tail(@)]
    BY <1>r DEF Returns, ReturnTrue, ReturnFalse, ReturnWith
  <2>2. todo'[s] = Tail(todo[s]) /\ todo[s] # <<>>
    BY <1>r, <2>1 DEF TypeOK, Ensuring
  <2> QED BY <2>2, <1>t, NextName
<1>g. ASSUME NEW label \in Labels, Goto(s, label), UNCHANGED todo, Place[label] < Place[pc[s]]
      PROVE Nearer(s)
  BY <1>g, SameName
<1>1. CASE Prepare(s)
  BY <1>1, <1>r, <1>g DEF Prepare, Returns, Ensuring, Place, Labels
<1>2. CASE RunFirst(s)
  BY <1>2, <1>r, <1>g DEF RunFirst, Returns, Ensuring, Place, Labels
<1>3. CASE RunSecond(s)
  BY <1>3, <1>r, <1>g DEF RunSecond, Returns, Ensuring, Place, Labels
<1>4. CASE RunThird(s)
  BY <1>4, <1>r DEF RunThird, Returns, Ensuring
<1>5. CASE Exec(s)
  <2>1. CASE Back(s)
    BY <2>1 DEF Back, Goto, TypeOK, Nearer
  <2>2. CASE Goto(s, "restart") /\ UNCHANGED todo
    BY <1>5, <2>2, <1>g DEF Exec, Place, Labels
  <2> QED BY <1>5, <2>1, <2>2 DEF Exec
<1>6. CASE Restart(s)
  BY <1>6, <1>g DEF Restart, RestartThen, Place, Labels, Ensuring
<1>7. CASE StopNext(s)
  <2>1. pc[s] = "stop" /\ todo' = [todo EXCEPT ![s] = Tail(todo[s])]
    BY <1>7 DEF StopNext, StopThen
  <2>2. todo'[s] = Tail(todo[s]) /\ todo[s] # <<>>
    BY <2>1 DEF TypeOK
  <2> QED BY <2>2, <1>t, NextName
<1>8. CASE Return(s)
  BY <1>8 DEF Return, Goto, TypeOK, Nearer
<1> QED BY <1>1, <1>2, <1>3, <1>4, <1>5, <1>6, <1>7, <1>8 DEF Step

(* A call of ensure_ai_container, query_ai or shutdown_ai, for any number  *)
(* of names and whatever the other sessions do, makes at most as many      *)
(* docker commands as CommandsLeft says at its start.                      *)
THEOREM AiCallMovesOn == Spec => CallMovesOn
<1>1. ASSUME TypeOK, TypeOK', [Next]_vars
      PROVE [\A s \in Sessions : pc[s] \notin {"idle", "menu"} =>
               \/ pc'[s] \in {"idle", "menu"}
               \/ pc'[s] = pc[s] /\ todo'[s] = todo[s]
               \/ CommandsLeft(s)' < CommandsLeft(s)]_vars
  <2> SUFFICES ASSUME Next, NEW t \in Sessions, pc[t] \notin {"idle", "menu"} PROVE Nearer(t)
    BY <1>1 DEF Nearer
  <2>o. ASSUME NEW s \in Sessions \ {t},
               \/ Step(s) \/ ExitMenu(s) \/ Kill(s) \/ Opens(s)
        PROVE pc'[t] = pc[t] /\ todo'[t] = todo[t]
    <3> USE DEF Goto, TypeOK
    <3>r. ASSUME Returns(s) PROVE pc'[t] = pc[t] /\ todo'[t] = todo[t]
      <4>1. todo' = [todo EXCEPT ![s] = Tail(@)] /\ \E label : pc' = [pc EXCEPT ![s] = label]
        BY <3>r DEF Returns, ReturnTrue, ReturnFalse, ReturnWith, Back
      <4> QED BY <1>1, <2>o, <4>1
    <3>1. CASE Prepare(s) \/ RunFirst(s) \/ RunSecond(s) \/ RunThird(s)
      BY <1>1, <2>o, <3>1, <3>r DEF Prepare, RunFirst, RunSecond, RunThird, Returns
    <3>2. CASE Exec(s) \/ Restart(s) \/ StopNext(s) \/ Return(s) \/ ExitMenu(s) \/ Kill(s)
      BY <1>1, <2>o, <3>2
         DEF Back, Exec, Restart, RestartThen, StopNext, StopThen, Return, ExitMenu, Kill
    <3>3. CASE Opens(s)
      BY <1>1, <2>o, <3>3
         DEF Opens, Frontend, GuiFrontend, Menu, Launch, QueryListed, QueryNamed, Query
    <3> QED BY <2>o, <3>1, <3>2, <3>3 DEF Step
  <2>1. CASE Step(t)
    BY <1>1, <2>1, StepNearer
  <2>2. CASE Kill(t)
    BY <1>1, <2>2 DEF Kill, Goto, TypeOK, Nearer
  <2>3. ASSUME ExitMenu(t) \/ Opens(t) PROVE FALSE
    BY <2>3 DEF ExitMenu, Opens, Frontend, GuiFrontend, Menu, Launch, QueryListed, QueryNamed
  <2>4. ASSUME NEW c \in containers, Die(c) PROVE Nearer(t)
    BY <2>4 DEF Die, Nearer
  <2> QED BY <2>o, <2>1, <2>2, <2>3, <2>4 DEF Next, Opens, Nearer
<1> QED BY <1>1, AiTypeOK, PTL DEF Spec, CallMovesOn
=============================================================================
