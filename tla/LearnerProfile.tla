--------------------------- MODULE LearnerProfile ---------------------------
(***************************************************************************)
(* The profile of a signed-in learner and what turns that end at the same  *)
(* time do to its row:                                                     *)
(*                                                                         *)
(*   src/api/modules/session_engine/learner_profile.py  what a turn adds   *)
(*   src/api/modules/orchestration/profile_branch.py    read, add, write   *)
(*   src/api/db/learner_profile_db.py                   the row            *)
(*                                                                         *)
(* A turn reads the profile in one transaction and writes it in another;   *)
(* that one loads the row again, and its UPDATE names the columns whose    *)
(* value differs from the one loaded.  ProfileRow has the place of this in *)
(* a session; here is what the columns say.                                *)
(*                                                                         *)
(* A level is its ordinal (A1 is 1), 0 for none.  A scene that has not     *)
(* been counted, or an error category that has not, has no key.            *)
(***************************************************************************)
EXTENDS Integers, Sequences, FiniteSets, SequencesExt, Functions, Enumeration

CONSTANTS
  LearnerTurns,        \* turns of one learner that end side by side
  Signals,      \* what the feedback of a turn can say
  Pasts,        \* sequences of signals: what was practised before
  Categories,   \* the closed set of error categories
  SceneCap,     \* how many scenes are kept
  Window        \* how many levels are kept

ASSUME ProfileAssumption ==
  /\ SceneCap \in Nat \ {0} /\ Window \in Nat \ {0}
  /\ \A s \in Signals : s.level \in Nat /\ IsFiniteSet(DOMAIN s.errors)
  /\ Pasts \subseteq Seq(Signals)

VARIABLES
  record,   \* the row of the learner
  update,   \* update[t]: how far the update for turn t has got
  counted,  \* history: the signals of the turns the row was written for
  overlaid  \* history: some turn wrote over one that it had not read

learnerVars == <<record, update, counted, overlaid>>

-----------------------------------------------------------------------------
NoProfile == [practised |-> 0, scenes |-> <<>>, errors |-> [c \in {} |-> 0],
              levels |-> <<>>, estimate |-> 0]

(* How often category c is among the errors of a signal.                   *)
Occurrences(c, errors) == Cardinality({i \in DOMAIN errors : errors[i] = c})

(* Only categories of the closed set are counted.                          *)
AddedErrors(errors, signal) ==
  [c \in DOMAIN errors \cup (Range(signal.errors) \cap Categories) |->
     (IF c \in DOMAIN errors THEN errors[c] ELSE 0) + Occurrences(c, signal.errors)]

Latest(scenes) ==
  IF Len(scenes) > SceneCap THEN SubSeq(scenes, Len(scenes) - SceneCap + 1, Len(scenes)) ELSE scenes

(* A slip: a scene that is there already is counted where it stands.       *)
CountedScene(scenes, scene) ==
  IF \E i \in DOMAIN scenes : scenes[i].scene = scene
    THEN [i \in DOMAIN scenes |->
            IF scenes[i].scene = scene THEN [scenes[i] EXCEPT !.count = @ + 1] ELSE scenes[i]]
    ELSE Latest(Append(scenes, [scene |-> scene, count |-> 1]))

(* pop and add: the scene moves to the end with one more; the oldest       *)
(* beyond the cap go.                                                      *)
AddedScene(scenes, scene) ==
  LET places == {i \in DOMAIN scenes : scenes[i].scene = scene}
      old    == CHOOSE i \in places : TRUE
  IN  Latest(
        IF places = {} THEN Append(scenes, [scene |-> scene, count |-> 1])
        ELSE Append(RemoveAt(scenes, old), [scene |-> scene, count |-> scenes[old].count + 1]))

LastLevels(levels) ==
  IF Len(levels) > Window THEN SubSeq(levels, Len(levels) - Window + 1, Len(levels)) ELSE levels

(* The places of a sequence of levels, lower levels first.                 *)
LowerFirst(levels) ==
  {pair \in (DOMAIN levels) \X (DOMAIN levels) :
     \/ levels[pair[1]] < levels[pair[2]]
     \/ levels[pair[1]] = levels[pair[2]] /\ pair[1] < pair[2]}

(* statistics.median_low: the middle of the sorted levels, the lower one   *)
(* of two.                                                                 *)
MedianLow(levels) ==
  levels[Enumerated(DOMAIN levels, LowerFirst(levels))[(Len(levels) + 1) \div 2]]

(* apply_turn_to_profile: without a level the window and the estimate stay.*)
ApplyTurn(profile, signal) ==
  LET levels == IF signal.level = 0 THEN profile.levels
                ELSE LastLevels(Append(profile.levels, signal.level))
  IN  [practised |-> profile.practised + 1,
       scenes    |-> AddedScene(profile.scenes, signal.scene),
       errors    |-> AddedErrors(profile.errors, signal),
       levels    |-> levels,
       estimate  |-> IF signal.level = 0 THEN profile.estimate ELSE MedianLow(levels)]

ApplyAll(signals) ==
  LET after[i \in 0..Len(signals)] ==
        IF i = 0 THEN NoProfile ELSE ApplyTurn(after[i - 1], signals[i])
  IN  after[Len(signals)]

-----------------------------------------------------------------------------
Idle == [pc |-> "idle", signal |-> CHOOSE s \in Signals : TRUE,
         profile |-> NoProfile, loaded |-> NoProfile, read |-> 0]

LearnerInit ==
  /\ \E past \in Pasts : record = ApplyAll(past) /\ counted = past
  /\ update = [t \in LearnerTurns |-> Idle]
  /\ overlaid = FALSE

(* repository.get: a transaction of its own; then the rules above.         *)
GetProfile(t) ==
  /\ update[t].pc = "idle"
  /\ \E s \in Signals :
       update' = [update EXCEPT ![t] =
         [pc |-> "read", signal |-> s, profile |-> ApplyTurn(record, s),
          loaded |-> NoProfile, read |-> Len(counted)]]
  /\ UNCHANGED <<record, counted, overlaid>>

(* upsert loads the row again.                                             *)
LoadRecord(t) ==
  /\ update[t].pc = "read"
  /\ update' = [update EXCEPT ![t].pc = "loaded", ![t].loaded = record]
  /\ UNCHANGED <<record, counted, overlaid>>

Missing(profile) == profile.practised = 0

Written(new, old, now) == IF new # old THEN new ELSE now

(* The columns that differ are written, the others stay as they are by     *)
(* now.  Scenes are a dictionary: two that differ in order are equal.      *)
UpdatedRecord(t) ==
  LET new == update[t].profile
      old == update[t].loaded
  IN  [practised |-> Written(new.practised, old.practised, record.practised),
       scenes    |-> IF Range(new.scenes) # Range(old.scenes) THEN new.scenes ELSE record.scenes,
       errors    |-> Written(new.errors, old.errors, record.errors),
       levels    |-> Written(new.levels, old.levels, record.levels),
       estimate  |-> Written(new.estimate, old.estimate, record.estimate)]

(* UPDATE, or INSERT if no row was loaded, and commit.                     *)
SaveRecord(t) ==
  /\ update[t].pc = "loaded"
  /\ Missing(update[t].loaded) => Missing(record)
  /\ record' = UpdatedRecord(t)
  /\ counted' = Append(counted, update[t].signal)
  /\ overlaid' = (overlaid \/ Len(counted) # update[t].read)
  /\ update' = [update EXCEPT ![t].pc = "done"]

(* An INSERT that comes second meets the primary key, and any of the steps *)
(* can fail: the turn goes on without its update.                          *)
UpdateFails(t) ==
  /\ update[t].pc \in {"read", "loaded"}
  /\ update' = [update EXCEPT ![t].pc = "done"]
  /\ UNCHANGED <<record, counted, overlaid>>

LearnerNext ==
  \E t \in LearnerTurns : GetProfile(t) \/ LoadRecord(t) \/ SaveRecord(t) \/ UpdateFails(t)

LearnerSpec == LearnerInit /\ [][LearnerNext]_learnerVars

-----------------------------------------------------------------------------
(* What a profile says, told from the signals of its turns.                *)
ScenesOf(signals) == {signals[i].scene : i \in DOMAIN signals}

(* The scenes of the turns up to n since the last turn of this scene.      *)
ScenesSince(scene, signals, n) ==
  {signals[i].scene : i \in {i \in 1..n : \A j \in i..n : signals[j].scene # scene}}

IsRecent(scene, signals, n) == Cardinality(ScenesSince(scene, signals, n)) < SceneCap

(* The turns of the scene since the cap last pushed it out.                *)
TurnsSinceKept(scene, signals) ==
  {i \in DOMAIN signals :
     signals[i].scene = scene /\ \A n \in i..Len(signals) : IsRecent(scene, signals, n)}

TurnsOf(scene, signals) == {i \in DOMAIN signals : signals[i].scene = scene}

ScenesTold(scenes, signals) ==
  /\ {scenes[i].scene : i \in DOMAIN scenes} =
       {scene \in ScenesOf(signals) : IsRecent(scene, signals, Len(signals))}
  /\ \A i, j \in DOMAIN scenes :
       i < j => scenes[j].scene \in ScenesSince(scenes[i].scene, signals, Len(signals))
  /\ \A i \in DOMAIN scenes :
       scenes[i].count = Cardinality(TurnsSinceKept(scenes[i].scene, signals))

(* The errors of category c, as pairs of a turn and a place in it.         *)
ErrorsOf(c, signals) ==
  UNION {{i} \X {j \in DOMAIN signals[i].errors : signals[i].errors[j] = c} : i \in DOMAIN signals}

ErrorsTold(errors, signals) ==
  errors = [c \in {c \in Categories : ErrorsOf(c, signals) # {}} |-> Cardinality(ErrorsOf(c, signals))]

TurnsWithLevel(signals) == {i \in DOMAIN signals : signals[i].level # 0}

(* The window is full or has all there are, and the last but n stands at   *)
(* the place before the last n.                                            *)
LevelsTold(levels, signals) ==
  LET turns == TurnsWithLevel(signals)
  IN  /\ Len(levels) = IF Cardinality(turns) < Window THEN Cardinality(turns) ELSE Window
      /\ \A i \in turns :
           LET n == Cardinality({j \in turns : j > i})
           IN  n < Len(levels) => levels[Len(levels) - n] = signals[i].level

AtMost(levels, l) == {i \in DOMAIN levels : levels[i] <= l}

(* l is the lower median: half of the levels or more are at most l, and    *)
(* fewer than half are below it.                                           *)
IsLowMedian(l, levels) ==
  /\ l \in Range(levels)
  /\ 2 * Cardinality(AtMost(levels, l)) >= Len(levels)
  /\ 2 * Cardinality(AtMost(levels, l - 1)) < Len(levels)

EstimateTold(estimate, levels) ==
  IF levels = <<>> THEN estimate = 0 ELSE IsLowMedian(estimate, levels)

Tells(profile, signals) ==
  /\ profile.practised = Len(signals)
  /\ ScenesTold(profile.scenes, signals)
  /\ ErrorsTold(profile.errors, signals)
  /\ LevelsTold(profile.levels, signals)
  /\ EstimateTold(profile.estimate, profile.levels)

(* As long as turns do not overlap the row tells exactly what their        *)
(* feedback said: nothing lost, nothing counted twice, the recent scenes   *)
(* in order and the estimate the median of the window                      *)
(* (apply_turn_to_profile).                                                *)
SerialIsExact == ~overlaid => Tells(record, counted)

LevelsOf(signals) == {signals[i].level : i \in DOMAIN signals} \ {0}

(* When they overlap counts are lost, never made up (the comment of        *)
(* update_for_turn), the levels are ones that were observed, and the row   *)
(* stays within its bounds.                                                *)
Within(profile, signals) ==
  /\ profile.practised <= Len(signals)
  /\ Len(profile.scenes) <= SceneCap /\ Len(profile.levels) <= Window
  /\ \A c \in DOMAIN profile.errors :
       c \in Categories /\ profile.errors[c] <= Cardinality(ErrorsOf(c, signals))
  /\ Range(profile.levels) \cup ({profile.estimate} \ {0}) \subseteq LevelsOf(signals)
  /\ \A i \in DOMAIN profile.scenes :
       profile.scenes[i].count <= Cardinality(TurnsOf(profile.scenes[i].scene, signals))

NothingMadeUp == Within(record, counted)

(* What the runs check of the profile, part by part.                       *)
LearnerInv == SerialIsExact /\ NothingMadeUp

(* src/api/modules/orchestration/profile_branch.py:74-75: at worst one     *)
(* count is lost, the last write wins; so the estimate is the median of    *)
(* the stored window whoever wrote them.                                   *)
EstimateIsMedian ==
  record.levels # <<>> => IsLowMedian(record.estimate, record.levels)
=============================================================================
