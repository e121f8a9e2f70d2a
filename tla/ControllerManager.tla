------------------------- MODULE ControllerManager -------------------------
(***************************************************************************)
(* controller_manager as this system uses it: which controllers hold the   *)
(* joints, and the switch_controller calls that trade them.  Its own code  *)
(* is not in the repository; what is modelled is what the controllers'     *)
(* configuration, the arm authority and the safety controller rely on.     *)
(* The calls are served one at a time, and a switch is applied by the      *)
(* update thread between the controllers' updates and the write.           *)
(***************************************************************************)
EXTENDS LowCmdSystem, Dex3System, LegControllers, Sequences, SequencesExt

CONSTANTS MaxQueue  \* bound: switch calls waiting at once

ASSUME MaxQueueAssumption == MaxQueue \in Nat \ {0}
ASSUME BodyPartsAssumption == Parts = {"legs", "arms"}

VARIABLES
  holders, \* the active controllers
  loaded,  \* the controllers that are loaded and configured
  calls,   \* switch_controller calls not served yet, oldest first
  answers  \* what each caller has been answered

cmVars == <<holders, loaded, calls, answers>>

\* The callers whose answers matter.  A spawner, a script or a caller that gave up
\* is "nobody".
Callers == {"safety", "executor"}
Controllers == {"agile", "safety", "freeze", "armFreeze", "armTraj", "hand"}

AllInterfaces == {"position", "velocity", "effort", "kp", "kd"}

\* lowcmd_controllers.yaml: who claims which part, and how.
PartOf(c) == IF c \in {"armFreeze", "armTraj"} THEN "arms" ELSE "legs"
Claimed(c) == CASE c \in {"safety", "freeze", "armFreeze"} -> AllInterfaces
                [] c = "armTraj" -> {"position"}
                [] OTHER -> {}

\* The interfaces of part p that the controllers cs claim.
InterfacesOf(cs, p) ==
  UNION {Claimed(c) : c \in {k \in cs : k \notin {"agile", "hand"} /\ PartOf(k) = p}}

Call(by, act, deact, strict) ==
  [by |-> by, act |-> act, deact |-> deact, strict |-> strict]

\* One owner a joint, and nothing chained into a controller that is not there.
Consistent(cs) ==
  /\ ~({"safety", "freeze"} \subseteq cs)
  /\ ~({"armFreeze", "armTraj"} \subseteq cs)
  /\ "agile" \in cs => "safety" \in cs

\* Command interfaces exist only while their component is active.
Available(cs) ==
  /\ cs \subseteq loaded
  /\ cs \ {"hand"} # {} => life = "active"
  /\ "hand" \in cs => hlife = "active"

\* Who holds the joints after a call, or holders itself: STRICT does all of it
\* or nothing, BEST_EFFORT whatever part of it can be done.
After(call) ==
  IF call.strict
    THEN LET cs == (holders \ call.deact) \cup call.act
         IN IF /\ call.deact \subseteq holders
               /\ call.act \cap (holders \ call.deact) = {}
               /\ Available(call.act) /\ Consistent(cs)
              THEN cs ELSE holders
    ELSE LET rest == IF Consistent(holders \ call.deact) THEN holders \ call.deact
                     ELSE holders
             act == {c \in call.act : Available({c}) /\ Consistent(rest \cup {c})}
         IN rest \cup act

\* STRICT answers no to a call it could not do.
Answer(call) ==
  IF call.strict /\ After(call) = holders THEN "refused" ELSE "ok"

Send(call) ==
  /\ Len(calls) < MaxQueue
  /\ calls' = Append(calls, call)
  /\ answers' = [c \in Callers |-> IF c = call.by THEN "waiting" ELSE answers[c]]
  /\ UNCHANGED <<holders, loaded>>

\* A caller stops waiting; its call, if still queued, is served all the same.
GiveUp(by) ==
  /\ answers[by] = "waiting"
  /\ answers' = [answers EXCEPT ![by] = "none"]
  /\ calls' = [i \in DOMAIN calls |->
       IF calls[i].by = by THEN [calls[i] EXCEPT !.by = "nobody"] ELSE calls[i]]
  /\ UNCHANGED <<holders, loaded>>

\* A caller takes its answer.
Take(by) ==
  /\ answers[by] \in {"ok", "refused"}
  /\ answers' = [answers EXCEPT ![by] = "none"]
  /\ UNCHANGED <<holders, loaded, calls>>

\* The update thread serves the oldest call; the legs are at pose m.
ServeCall(m) ==
  /\ rt = "switch"
  /\ calls # <<>>
  /\ LET call == Head(calls)
         after == After(call)
     IN /\ holders' = after
        /\ ModeSwitch([p \in Parts |-> InterfacesOf(after \ holders, p)],
                      [p \in Parts |-> InterfacesOf(holders \ after, p)])
        /\ LegsSwitch(holders, after, m)
        /\ calls' = Tail(calls)
        /\ answers' = [c \in Callers |-> IF c = call.by THEN Answer(call) ELSE answers[c]]
  /\ UNCHANGED <<handVars, loaded>>

\* A component that leaves the active state takes its controllers with it.
BodyLetsGo ==
  /\ holders' = holders \cap {"hand"}
  /\ LegsSwitch(holders, holders', 0)
  /\ UNCHANGED <<loaded, calls, answers>>

HandLoses ==
  /\ holders' = holders \ {"hand"}
  /\ UNCHANGED <<loaded, calls, answers>>

\* The controllers' updates of one tick.  A controller whose update returns an
\* error, as the policy's does when inference fails, is deactivated.
ControllersUpdate(infers, fails, wants, reading, bad) ==
  /\ Update([p \in Parts |->
               IF InterfacesOf(holders, p) = AllInterfaces THEN Ticks
               ELSE joint[p].kp], bad)
  /\ LegsUpdate(holders, infers /\ ~fails, wants, reading)
  /\ holders' = IF infers /\ fails THEN holders \ {"agile"} ELSE holders
  /\ UNCHANGED <<handVars, loaded, calls, answers>>

\* The spawner loads a controller and leaves it inactive.
LoadFreeze ==
  /\ "freeze" \notin loaded
  /\ loaded' = loaded \cup {"freeze"}
  /\ UNCHANGED <<bodyVars, handVars, legVars, holders, calls, answers>>

CmInit ==
  /\ holders = {}
  /\ loaded = Controllers \ {"freeze"}
  /\ calls = <<>>
  /\ answers = [c \in Callers |-> "none"]

CmTypeOK ==
  /\ holders \subseteq Controllers /\ loaded \subseteq Controllers
  /\ Len(calls) <= MaxQueue
  /\ \A i \in DOMAIN calls :
       calls[i] \in [by: Callers \cup {"nobody"}, act: SUBSET Controllers,
                     deact: SUBSET Controllers, strict: BOOLEAN]
  /\ answers \in [Callers -> {"none", "waiting", "ok", "refused"}]
=============================================================================
