---------------------------- MODULE Dex3System ----------------------------
(***************************************************************************)
(* G1Dex3System, the ros2_control component of one Dex3 hand               *)
(* (g1_hand_interface).  One finger stands for the seven.  As in the body  *)
(* component, the update thread's write and a release on another thread    *)
(* may meet: seeded_ and in_write_ keep them apart.                        *)
(***************************************************************************)
EXTENDS Integers

CONSTANTS
  Reach,     \* finger positions are 0..Reach; a target is clamped to them
  SlewStep,  \* the furthest the command moves in one write
  MaxHandOps \* bound: lifecycle calls made to the hand

ASSUME ReachAssumption == Reach \in Nat
ASSUME SlewStepAssumption == SlewStep \in Nat \ {0}
ASSUME MaxHandOpsAssumption == MaxHandOps \in Nat

VARIABLES
  hlife,    \* lifecycle state
  hop,      \* the lifecycle callback under way, and who runs it
  hasked,   \* lifecycle calls so far
  seeded,   \* seeded_
  hsdk,     \* sdk_initialized_
  hchannels,\* the SDK channels exist
  hfirst,   \* first_state_received_
  hsample,  \* the newest HandState: young enough, enough motors, the position
  hrt,      \* where the update thread stands
  hInWrite, \* in_write_
  measured, \* position_state_
  ramped,   \* ramped_command_
  hwire     \* the last frame the hand got, and whether a release was refused since

handVars == <<hlife, hop, hasked, seeded, hsdk, hchannels, hfirst, hsample, hrt,
              hInWrite, measured, ramped, hwire>>

Fingers == 0..Reach
HandLives == {"inactive", "active", "unconfigured"}
HandOps == {"none", "wait", "drain", "release", "drainRt", "releaseRt",
            "close", "closeRt"}

\* packHandMotor: a driven frame goes to the ramped command, a release frame
\* locks the finger where it is measured and arms the motor's own timeout.
HandFrame(driven) ==
  [driven |-> driven, pos |-> IF driven THEN ramped ELSE measured, missed |-> FALSE]

\* publish() returns at once without a publisher and ignores Write()'s result: a
\* refused frame changes nothing on the wire and nobody tries again.
PublishHand(driven) ==
  hwire' \in IF ~hchannels THEN {hwire}
             ELSE {HandFrame(driven), [hwire EXCEPT !.missed = @ \/ (~driven /\ hwire.driven)]}

\* std::clamp.
Within(x, low, high) == IF x < low THEN low ELSE IF x > high THEN high ELSE x

-----------------------------------------------------------------------------
\* handStateCallback: any position, on a whole or a short frame.
HandState(whole, pos) ==
  /\ hchannels
  /\ hsample' = [fresh |-> TRUE, whole |-> whole, pos |-> pos]
  /\ hsample' # hsample \/ ~hfirst
  /\ hfirst' = TRUE
  /\ UNCHANGED <<hlife, hop, hasked, seeded, hsdk, hchannels, hrt, hInWrite,
                 measured, ramped, hwire>>

HandGoesStale ==
  /\ hsample.fresh
  /\ hsample' = [hsample EXCEPT !.fresh = FALSE]
  /\ UNCHANGED <<hlife, hop, hasked, seeded, hsdk, hchannels, hfirst, hrt,
                 hInWrite, measured, ramped, hwire>>

(***************************************************************************)
(* The update thread.                                                      *)
(***************************************************************************)
\* read: the age is judged before the size, a short frame keeps the reading.
HandRead ==
  /\ hrt = "read"
  /\ IF hsdk /\ seeded /\ ~hsample.fresh
       THEN hrt' = "error" /\ UNCHANGED measured
       ELSE /\ hrt' = "write"
            /\ measured' = IF hsdk /\ hsample.whole THEN hsample.pos ELSE measured
  /\ UNCHANGED <<hlife, hop, hasked, seeded, hsdk, hchannels, hfirst, hsample,
                 hInWrite, ramped, hwire>>

\* write raises in_write_ before it reads seeded_.
HandEnterWrite ==
  /\ hrt = "write"
  /\ hrt' = "check"
  /\ hInWrite' = TRUE
  /\ UNCHANGED <<hlife, hop, hasked, seeded, hsdk, hchannels, hfirst, hsample,
                 measured, ramped, hwire>>

HandCheckSeeded ==
  /\ hrt = "check"
  /\ IF seeded THEN hrt' = "slew" /\ UNCHANGED hInWrite
               ELSE hrt' = "done" /\ hInWrite' = FALSE
  /\ UNCHANGED <<hlife, hop, hasked, seeded, hsdk, hchannels, hfirst, hsample,
                 measured, ramped, hwire>>

\* The command slews to the controller's target, clamped to the limits; a target
\* that is not finite (finite = FALSE) holds.  due: the publishing period is up.
HandSlew(finite, target, due) ==
  /\ hrt = "slew"
  /\ ramped' = IF finite
       THEN ramped + Within(Within(target, 0, Reach) - ramped, -SlewStep, SlewStep)
       ELSE ramped
  /\ IF due THEN hrt' = "publish" /\ UNCHANGED hInWrite
            ELSE hrt' = "done" /\ hInWrite' = FALSE
  /\ UNCHANGED <<hlife, hop, hasked, seeded, hsdk, hchannels, hfirst, hsample,
                 measured, hwire>>

HandPublish ==
  /\ hrt = "publish"
  /\ hrt' = "done"
  /\ hInWrite' = FALSE
  /\ PublishHand(TRUE)
  /\ UNCHANGED <<hlife, hop, hasked, seeded, hsdk, hchannels, hfirst, hsample,
                 measured, ramped>>

HandNextCycle ==
  /\ hrt = "done"
  /\ hrt' = "read"
  /\ UNCHANGED <<hlife, hop, hasked, seeded, hsdk, hchannels, hfirst, hsample,
                 hInWrite, measured, ramped, hwire>>

(***************************************************************************)
(* Lifecycle: one transition at a time (external).                         *)
(***************************************************************************)
HandShutdownSdk ==
  hchannels' = FALSE /\ hsdk' = FALSE /\ hfirst' = FALSE

\* on_activate, into initializeSdk: the channels open.
HandActivate ==
  /\ hop = "none"
  /\ hlife = "inactive"
  /\ hasked < MaxHandOps
  /\ hasked' = hasked + 1
  /\ hop' = "wait"
  /\ hchannels' = TRUE
  /\ UNCHANGED <<hlife, seeded, hsdk, hfirst, hsample, hrt, hInWrite, measured,
                 ramped, hwire>>

\* A first whole state seeds the command from the measurement ...
HandSeed ==
  /\ hop = "wait"
  /\ hfirst /\ hsample.whole
  /\ hsdk' = TRUE
  /\ measured' = hsample.pos
  /\ ramped' = hsample.pos
  /\ seeded' = TRUE
  /\ hlife' = "active"
  /\ hop' = "none"
  /\ UNCHANGED <<hasked, hchannels, hfirst, hsample, hrt, hInWrite, hwire>>

\* ... a short one is refused, and so is a hand that stays silent.  on_error then
\* releases nothing: the channels are gone.
HandNotSeeded ==
  /\ hop = "wait"
  /\ ~hfirst \/ ~hsample.whole
  /\ HandShutdownSdk
  /\ seeded' = FALSE
  /\ hlife' = "unconfigured"
  /\ hop' = "none"
  /\ UNCHANGED <<hasked, hsample, hrt, hInWrite, measured, ramped, hwire>>

HandConfigure ==
  /\ hop = "none"
  /\ hlife = "unconfigured"
  /\ hasked < MaxHandOps
  /\ hasked' = hasked + 1
  /\ hlife' = "inactive"
  /\ UNCHANGED <<hop, seeded, hsdk, hchannels, hfirst, hsample, hrt,
                 hInWrite, measured, ramped, hwire>>

\* releaseAndShutdown, shared by on_deactivate, on_shutdown and on_error: seeded_
\* is cleared first ...
BeginHandRelease(op) ==
  /\ hop = "none"
  /\ hop' = op
  /\ seeded' = FALSE
  /\ UNCHANGED <<hlife, hsdk, hchannels, hfirst, hsample, hrt, hInWrite, measured,
                 ramped, hwire>>

HandDeactivate ==
  /\ hlife = "active"
  /\ hasked < MaxHandOps
  /\ hasked' = hasked + 1
  /\ BeginHandRelease("drain")

\* on_error, after a read that found the hand silent.
HandOnError ==
  /\ hrt = "error"
  /\ BeginHandRelease("drainRt")
  /\ UNCHANGED hasked

\* Slip: a write inside is not waited out.
HandDrainAtOnce ==
  /\ hop \in {"drain", "drainRt"}
  /\ hop' = IF hop = "drain" THEN "release" ELSE "releaseRt"
  /\ UNCHANGED <<hlife, hasked, seeded, hsdk, hchannels, hfirst, hsample, hrt,
                 hInWrite, measured, ramped, hwire>>

\* ... then a write inside is waited out ...
HandDrain ==
  /\ hop \in {"drain", "drainRt"}
  /\ ~hInWrite
  /\ hop' = IF hop = "drain" THEN "release" ELSE "releaseRt"
  /\ UNCHANGED <<hlife, hasked, seeded, hsdk, hchannels, hfirst, hsample, hrt,
                 hInWrite, measured, ramped, hwire>>

\* ... then the release frame goes out, or is refused ...
HandRelease ==
  /\ hop \in {"release", "releaseRt"}
  /\ PublishHand(FALSE)
  /\ hop' = IF hop = "release" THEN "close" ELSE "closeRt"
  /\ UNCHANGED <<hlife, hasked, seeded, hsdk, hchannels, hfirst, hsample, hrt,
                 hInWrite, measured, ramped>>

\* ... and the channels close.
HandClose ==
  /\ hop \in {"close", "closeRt"}
  /\ HandShutdownSdk
  /\ hlife' = IF hop = "close" THEN "inactive" ELSE "unconfigured"
  /\ hrt' = IF hop = "closeRt" THEN "done" ELSE hrt
  /\ hop' = "none"
  /\ UNCHANGED <<hasked, seeded, hsample, hInWrite, measured, ramped, hwire>>

-----------------------------------------------------------------------------
HandInit ==
  /\ hlife = "inactive" /\ hop = "none" /\ hasked = 0
  /\ seeded = FALSE /\ hsdk = FALSE /\ hchannels = FALSE /\ hfirst = FALSE
  /\ hsample = [fresh |-> FALSE, whole |-> FALSE, pos |-> 0]
  /\ hrt = "read" /\ hInWrite = FALSE
  /\ measured = 0 /\ ramped = 0
  /\ hwire = [driven |-> FALSE, pos |-> 0, missed |-> FALSE]

\* One turn of the hand's part of the update loop.
HandWriteStep ==
  \/ HandRead \/ HandEnterWrite \/ HandCheckSeeded \/ HandPublish
  \/ \E finite, due \in BOOLEAN, target \in {0, Reach + 1} :
       HandSlew(finite, target, due)

\* What a callback does once it has begun.
HandTransition == HandSeed \/ HandNotSeeded \/ HandDrain \/ HandRelease \/ HandClose

HandWorld ==
  \/ HandGoesStale
  \/ \E whole \in BOOLEAN, pos \in {Reach} : HandState(whole, pos)

HandNext ==
  \/ HandWorld \/ HandWriteStep \/ HandNextCycle \/ HandTransition
  \/ HandActivate \/ HandConfigure \/ HandDeactivate \/ HandOnError

HandSpec == HandInit /\ [][HandNext]_handVars

HandTypeOK ==
  /\ hlife \in HandLives /\ hop \in HandOps
  /\ hasked \in 0..MaxHandOps
  /\ seeded \in BOOLEAN /\ hsdk \in BOOLEAN /\ hchannels \in BOOLEAN
  /\ hfirst \in BOOLEAN /\ hInWrite \in BOOLEAN
  /\ hsample \in [fresh: BOOLEAN, whole: BOOLEAN, pos: Fingers]
  /\ hrt \in {"read", "write", "check", "slew", "publish", "error", "done"}
  /\ measured \in Fingers /\ ramped \in Fingers
  /\ hwire \in [driven: BOOLEAN, pos: Fingers, missed: BOOLEAN]

\* A hand that is not active was sent the release frame last, which alone arms its
\* motors' timeout: no error path skips it and no write in flight follows it
\* (g1_dex3_system.hpp 97-101, 134-138; g1_dex3_system.cpp 304-315, 396-403).  A
\* release frame the SDK refuses (line 446) leaves the hand driven.
HandLetsGo == hlife # "active" /\ hop = "none" => ~hwire.driven \/ hwire.missed
=============================================================================
