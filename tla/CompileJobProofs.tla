-------------------------- MODULE CompileJobProofs --------------------------
(***************************************************************************)
(* Proofs about CompileJob, for any number of models, any supermodels and  *)
(* any size of a batch.                                                    *)
(***************************************************************************)
EXTENDS CompileJob, FiniteSetTheorems, SequenceTheorems, TLAPS

\* Where the worker is, and what that says of the channel and of the outcome.
Stages ==
    /\ pc \in {"idle", "open", "next", "read", "stage", "spawn", "wait", "collect",
               "flush", "close", "returned", "panicked"}
    /\ fatal \/ canceled => pc \in {"flush", "close", "returned"}
    /\ sent <=> pc \in {"close", "returned"}
    /\ hungup => pc \in {"returned", "panicked"}
    /\ pc \in {"idle", "open"} => at = 0 /\ batch = <<>>
    /\ pc \in {"read", "stage"} => at > 0
    /\ pc \in {"next", "read", "stage"} => Len(batch) < BatchSize

\* What the window says of the job.
SaysSo ==
    /\ told = "done" => pc \in {"close", "returned"} /\ ~fatal /\ ~canceled
    /\ told = "stopped" => pc = "panicked"

\* No model is twice in a batch, and a model that was exported is whole.
Batches ==
    /\ \A i, j \in 1..Len(batch) : batch[i] = batch[j] => i = j
    /\ \A m \in exported : target[m] = "model"
    /\ exported \cap Set(batch) = {}

\* As long as nothing ended the job, the models that were counted are exported,
\* in the report or wait for the compiler; at the end none waits.
Accounts ==
    ~fatal /\ ~canceled =>
        /\ exported \cup skipped \cup Set(batch) = 1..visited
        /\ exported \cap skipped = {} /\ skipped \cap Set(batch) = {}
        /\ report = skipped
        /\ visited = IF pc \in {"read", "stage"} THEN at - 1 ELSE at
        /\ pc = "next" /\ at = total => batch = <<>>
        /\ pc \in {"flush", "close", "returned"} => at = total /\ batch = <<>>

\* What a model or a supermodel that was staged is derived from has been dealt
\* with, or is the one to be staged next.
Chains ==
    \A f \in Set(batch) \cup staged \cup (IF pc = "stage" THEN {at} ELSE {}) :
        SuperOf[f] \in named \cup {None} \/ (pc = "stage" /\ SuperOf[f] = wanted)

\* The inductive invariant.
IInv == TypeOK /\ Stages /\ SaysSo /\ Batches /\ Accounts /\ Chains

----------------------------------------------------------------------------
\* The models are numbered.
LEMMA ModelNumbers ==
    /\ Cardinality(Models) \in Nat /\ Models = 1..Cardinality(Models)
    /\ BatchSize \in Nat /\ BatchSize > 0
BY CompileAssumption, FS_CardinalityType

\* What a model or a supermodel is derived from is a supermodel, or nothing.
LEMMA Derived ==
    \A f \in Models \cup Supers : SuperOf[f] \in Supers \cup {None}
BY CompileAssumption

\* The model the worker is at is one of the archive's.
LEMMA AtModel ==
    ASSUME TypeOK, at > 0
    PROVE  at \in Models /\ at \in 1..total
BY ModelNumbers DEF TypeOK

\* A model joins the batch.
LEMMA JoinsBatch ==
    ASSUME NEW s \in Seq(Models), NEW m \in Models
    PROVE  /\ Append(s, m) \in Seq(Models) /\ Len(Append(s, m)) = Len(s) + 1
           /\ Set(Append(s, m)) = Set(s) \cup {m}
           /\ (\A i, j \in 1..Len(s) : s[i] = s[j] => i = j) /\ m \notin Set(s)
              => \A i, j \in 1..Len(Append(s, m)) : Append(s, m)[i] = Append(s, m)[j] => i = j
<1> DEFINE t == Append(s, m)
<1>1. /\ t \in Seq(Models) /\ Len(s) \in Nat /\ Len(t) = Len(s) + 1
      /\ \A k \in 1..Len(s) : t[k] = s[k]
      /\ t[Len(s) + 1] = m
      /\ DOMAIN s = 1..Len(s) /\ DOMAIN t = 1..Len(t)
    BY AppendProperties
<1> HIDE DEF t
<1>2. Set(t) = Set(s) \cup {m}
    BY <1>1 DEF Set
<1>3. ASSUME \A i, j \in 1..Len(s) : s[i] = s[j] => i = j, m \notin Set(s)
      PROVE  \A i, j \in 1..Len(t) : t[i] = t[j] => i = j
    BY <1>1, <1>3 DEF Set
<1> QED
    BY <1>1, <1>2, <1>3 DEF t

\* The first model leaves it.
LEMMA LeavesBatch ==
    ASSUME NEW s \in Seq(Models), s # <<>>,
           \A i, j \in 1..Len(s) : s[i] = s[j] => i = j
    PROVE  /\ Head(s) \in Models /\ Head(s) \in Set(s)
           /\ Tail(s) \in Seq(Models) /\ Len(Tail(s)) < Len(s)
           /\ Set(Tail(s)) = Set(s) \ {Head(s)}
           /\ \A i, j \in 1..Len(Tail(s)) : Tail(s)[i] = Tail(s)[j] => i = j
<1> DEFINE t == Tail(s)
<1>1. /\ t \in Seq(Models) /\ Len(s) \in Nat /\ Len(s) > 0 /\ Len(t) = Len(s) - 1
      /\ \A k \in 1..Len(t) : t[k] = s[k + 1]
      /\ Head(s) = s[1] /\ s[1] \in Models
      /\ DOMAIN s = 1..Len(s) /\ DOMAIN t = 1..Len(t)
    BY HeadTailProperties, EmptySeq
<1> HIDE DEF t
<1>2. /\ 1 \in 1..Len(s)
      /\ \A k \in 1..Len(t) : k + 1 \in 1..Len(s) /\ k + 1 # 1
    BY <1>1
<1>3. ASSUME NEW i \in 1..Len(t), NEW j \in 1..Len(t), t[i] = t[j]
      PROVE  i = j
    <2>1. i + 1 = j + 1
        BY <1>1, <1>2, <1>3
    <2> QED
        BY <2>1
<1>4. Head(s) \in Set(s)
    BY <1>1, <1>2 DEF Set
<1>5. ASSUME NEW k \in 1..Len(t) PROVE t[k] \in Set(s) /\ t[k] # Head(s)
    <2>1. t[k] = s[k + 1] /\ k + 1 \in 1..Len(s) /\ k + 1 # 1
        BY <1>1, <1>2
    <2> QED
        BY <1>1, <1>2, <2>1 DEF Set
<1>6. ASSUME NEW k \in 1..Len(s), s[k] # Head(s) PROVE s[k] \in Set(t)
    <2>1. k - 1 \in 1..Len(t) /\ t[k - 1] = s[k]
        BY <1>1, <1>6
    <2> QED
        BY <1>1, <2>1 DEF Set
<1>7. Set(t) = Set(s) \ {Head(s)}
    <2>1. \A x : x \in Set(t) <=> \E k \in 1..Len(t) : t[k] = x
        BY <1>1 DEF Set
    <2>2. \A x : x \in Set(s) <=> \E k \in 1..Len(s) : s[k] = x
        BY <1>1 DEF Set
    <2> QED
        BY <1>5, <1>6, <2>1, <2>2
<1>8. Len(t) < Len(s)
    BY <1>1
<1> QED
    BY <1>1, <1>3, <1>4, <1>7, <1>8 DEF t

\* An empty batch has no model.
LEMMA EmptyBatch ==
    Set(<<>>) = {} /\ <<>> \in Seq(Models) /\ Len(<<>>) = 0
BY DEF Set

\* The numbers of models, and the flags: the types that take arithmetic and
\* the others.
Numbers ==
    /\ total \in Models \cup {0} /\ at \in 0..total /\ visited \in 0..at
    /\ Len(batch) <= BatchSize /\ exported \cup skipped \subseteq 1..total
Flags == {job, cancel, quit, quitting, fatal, canceled, sent, hungup} \subseteq BOOLEAN
Names ==
    /\ wanted \in Supers \cup {None} /\ named = staged \cup absent \cup broken
    /\ batch \in Seq(Models) /\ child \in {"none", "running", "exited"}
    /\ report \subseteq skipped
    /\ made \in [Models -> {"none", "valid", "invalid"}]
    /\ target \in [Models -> {"old", "part", "model"}]

LEMMA TypesSplit == TypeOK => Numbers /\ Flags /\ Names
BY DEF TypeOK, Numbers, Flags, Names

\* What the failure of a model does: the job ends, or the model is counted and
\* in the report.
NotPreparedShape ==
    /\ wanted' = None
    /\ UNCHANGED <<job, cancel, quit, quitting, told, compiler, total, at, exported,
                   canceled, batch, child, made, target, sent, hungup>>
    /\ \/ /\ fatal' = TRUE /\ pc' = "flush" /\ visited' = visited
          /\ skipped' \in {skipped, skipped \cup {at}} /\ report' = report
       \/ /\ fatal' = fatal /\ visited' = visited + 1 /\ ~Single
          /\ skipped' = skipped \cup {at} /\ report' = report \cup {at}
          /\ \/ pc' = "spawn"
             \/ /\ pc' = "next"
                /\ batch = <<>> \/ (Len(batch) # BatchSize /\ visited + 1 # total)

LEMMA Unprepared ==
    ASSUME ~fatal, NotPrepared
    PROVE  NotPreparedShape
<1>1. CASE fatal'
    BY <1>1 DEF NotPrepared, Record, Leave, NotPreparedShape, window, work, channel
<1>2. CASE ~fatal'
    BY <1>2 DEF NotPrepared, Record, Leave, AfterModel, Count, NotPreparedShape,
                window, work, channel
<1> QED
    BY <1>1, <1>2

\* What the preparation of a model does.
WriteInputShape ==
    /\ at \in Models /\ at \notin Set(batch) \cup exported \cup skipped
    /\ visited = at - 1 /\ visited' = at /\ 1..at = (1..visited) \cup {at}
    /\ batch' \in Seq(Models) /\ Len(batch') = Len(batch) + 1
    /\ Len(batch) < BatchSize /\ Set(batch') = Set(batch) \cup {at}
    /\ \A i, j \in 1..Len(batch') : batch'[i] = batch'[j] => i = j
    /\ wanted' = None /\ pc = "stage" /\ pc' \in {"spawn", "next"}
    /\ pc' = "next" => Len(batch') < BatchSize /\ at # total
    /\ UNCHANGED <<total, at, named, staged, absent, broken, exported, skipped,
                   report, fatal, canceled, target, made, child>>

\* A model that was prepared joins the batch.
LEMMA WritesInput ==
    ASSUME TypeOK, Stages, Batches, Accounts, WriteInput
    PROVE  WriteInputShape
<1>1. pc = "stage" /\ at > 0 /\ ~fatal /\ ~canceled /\ Len(batch) < BatchSize
    BY DEF WriteInput, Stages
<1>2. at \in Models /\ visited = at - 1 /\ batch \in Seq(Models)
    BY <1>1, AtModel DEF Accounts, TypeOK
<1>3. at \in Nat /\ at \notin 1..visited
    BY <1>1, <1>2, ModelNumbers
<1>4. at \notin Set(batch) \cup exported \cup skipped
    BY <1>1, <1>3 DEF Accounts
<1>5. batch' = Append(batch, at) /\ visited' = visited + 1
    BY DEF WriteInput, AfterModel, Count
<1>6. 1..at = (1..visited) \cup {at} /\ visited' = at
    BY <1>1, <1>2, <1>3, <1>5
<1>7. /\ batch' \in Seq(Models) /\ Len(batch') = Len(batch) + 1
      /\ Set(batch') = Set(batch) \cup {at}
      /\ \A i, j \in 1..Len(batch') : batch'[i] = batch'[j] => i = j
    BY <1>2, <1>4, <1>5, JoinsBatch DEF Batches
<1>8. batch' # <<>>
    BY <1>7, EmptyBatch
<1>9. pc' \in {"spawn", "next"} /\ (pc' = "next" => Len(batch') # BatchSize /\ visited + 1 # total)
    BY <1>8 DEF WriteInput, AfterModel, Count
<1>10. Len(batch) \in Nat /\ BatchSize \in Nat
    BY <1>2, ModelNumbers
<1>11. pc' = "next" => Len(batch') < BatchSize /\ at # total
    BY <1>1, <1>5, <1>6, <1>7, <1>9, <1>10
<1> QED
    BY <1>1, <1>2, <1>4, <1>6, <1>7, <1>9, <1>11
    DEF WriteInput, Leave, AfterModel, supers, outcome, WriteInputShape

\* What the worker does with the first model of a batch.
CollectShape(m) ==
    /\ m \in Models /\ m \in Set(batch) /\ m \notin exported \cup skipped
    /\ m \in 1..total /\ ~fatal /\ ~canceled
    /\ batch' \in Seq(Models) /\ Len(batch') < Len(batch)
    /\ Set(batch') = Set(batch) \ {m}
    /\ \A i, j \in 1..Len(batch') : batch'[i] = batch'[j] => i = j
    /\ \A k \in Models : k # m => target'[k] = target[k]
    /\ \/ /\ target'[m] = "model" /\ exported' = exported \cup {m} /\ fatal' = fatal
          /\ UNCHANGED <<skipped, report>>
       \/ /\ skipped' = skipped \cup {m} /\ report' = report \cup {m}
          /\ UNCHANGED <<exported, fatal>>
       \/ /\ skipped' \in {skipped, skipped \cup {m}} /\ fatal' = TRUE
          /\ pc' = "flush" /\ UNCHANGED <<exported, report>>
    /\ ~fatal' => pc' = IF batch' = <<>> THEN "next" ELSE "collect"
    /\ target' \in [Models -> {"old", "part", "model"}]
    /\ UNCHANGED <<total, at, visited, wanted, named, staged, absent, broken,
                   canceled, child, made>>

\* A model of the batch is exported or recorded, or the job ends.
LEMMA Collects ==
    ASSUME TypeOK, Stages, Batches, Accounts, Collect,
           NEW m, m = Head(batch)
    PROVE  CollectShape(m)
<1>1. /\ pc = "collect" /\ batch # <<>> /\ ~fatal /\ ~canceled
      /\ batch' = Tail(batch) /\ batch \in Seq(Models)
      /\ \A i, j \in 1..Len(batch) : batch[i] = batch[j] => i = j
    BY DEF Collect, Stages, TypeOK, Batches
<1>2. /\ m \in Models /\ m \in Set(batch)
      /\ batch' \in Seq(Models) /\ Len(batch') < Len(batch)
      /\ Set(batch') = Set(batch) \ {m}
      /\ \A i, j \in 1..Len(batch') : batch'[i] = batch'[j] => i = j
    BY <1>1, LeavesBatch
<1>3. m \in 1..visited /\ m \notin exported \cup skipped
    BY <1>1, <1>2 DEF Accounts, Batches
<1>4. m \in 1..total
    <2>1. visited \in 0..at /\ at \in 0..total /\ total \in Nat
        BY ModelNumbers DEF TypeOK
    <2> QED
        BY <1>3, <2>1
<1>5. \/ /\ target' = [target EXCEPT ![m] = "model"]
         /\ exported' = exported \cup {m} /\ UNCHANGED <<skipped, report, fatal>>
      \/ /\ target' = [target EXCEPT ![m] = "part"] \/ target' = target
         /\ Record(m) /\ UNCHANGED exported
    BY DEF Collect
<1>6. target \in [Models -> {"old", "part", "model"}]
    BY DEF TypeOK
<1>7. /\ target' \in [Models -> {"old", "part", "model"}]
      /\ \A k \in Models : k # m => target'[k] = target[k]
      /\ \/ /\ target'[m] = "model" /\ exported' = exported \cup {m}
            /\ UNCHANGED <<skipped, report, fatal>>
         \/ Record(m) /\ UNCHANGED exported
    BY <1>2, <1>5, <1>6
<1>8. pc' = IF fatal' THEN "flush" ELSE IF batch' = <<>> THEN "next" ELSE "collect"
    BY DEF Collect
<1>9. \/ /\ target'[m] = "model" /\ exported' = exported \cup {m} /\ fatal' = fatal
         /\ UNCHANGED <<skipped, report>>
      \/ /\ skipped' = skipped \cup {m} /\ report' = report \cup {m}
         /\ UNCHANGED <<exported, fatal>>
      \/ /\ skipped' \in {skipped, skipped \cup {m}} /\ fatal' = TRUE
         /\ pc' = "flush" /\ UNCHANGED <<exported, report>>
    BY <1>7, <1>8 DEF Record
<1>10. UNCHANGED <<total, at, visited, wanted, named, staged, absent, broken,
                   canceled, child, made>>
    BY DEF Collect, loop, supers
<1> QED
    BY <1>1, <1>2, <1>3, <1>4, <1>7, <1>8, <1>9, <1>10 DEF CollectShape


----------------------------------------------------------------------------
(* One lemma per part of the invariant.                                    *)

\* Every step keeps to the order of the worker's steps.
LEMMA StagesKept ==
    TypeOK /\ Stages /\ Accounts /\ [Next]_vars => Stages'
<1> SUFFICES ASSUME TypeOK, Stages, Accounts, [Next]_vars
             PROVE  Stages'
    OBVIOUS
<1>1. ASSUME NEW n \in Models, Start(n) PROVE Stages'
    BY <1>1, ModelNumbers DEF Start, window, supers, outcome, work, channel,
                              Stages, TypeOK
<1>2. CASE Cancel
    BY <1>2, ModelNumbers DEF Cancel, window, loop, supers, outcome, work,
                              channel, Stages, TypeOK
<1>3. CASE CloseRequest
    BY <1>3, ModelNumbers DEF CloseRequest, window, loop, supers, outcome,
                              work, channel, Stages, TypeOK
<1>4. CASE Poll
    BY <1>4, ModelNumbers DEF Poll, Over, Told, window, loop, supers, outcome,
                              work, channel, Stages, TypeOK
<1>5. CASE OpenWorkspace
    BY <1>5, ModelNumbers, EmptyBatch
    DEF OpenWorkspace, Fatal, window, loop, supers, outcome, work, channel,
        Stages, TypeOK
<1>6. CASE NextModel
    BY <1>6, ModelNumbers DEF NextModel, window, loop, supers, outcome, work,
                              channel, Stages, TypeOK
<1>7. CASE ReadModel
    BY <1>7, ModelNumbers DEF ReadModel, window, loop, supers, outcome, work,
                              channel, Stages, TypeOK
<1>8. CASE ReadFails
    <2>1. NotPreparedShape
        BY <1>8, Unprepared DEF ReadFails, Stages
    <2> QED
        BY <1>8, <2>1, ModelNumbers DEF ReadFails, supers, NotPreparedShape,
                                        Stages, TypeOK
<1>9. CASE StageSuper
    BY <1>9, ModelNumbers DEF StageSuper, Leave, window, loop, supers, outcome,
                              work, channel, Stages, TypeOK
<1>10. CASE StageFails
    <2>1. NotPreparedShape
        BY <1>10, Unprepared DEF StageFails, Stages
    <2> QED
        BY <1>10, <2>1, ModelNumbers
        DEF StageFails, NotPreparedShape, Stages, TypeOK
<1>11. CASE WriteInput
    BY <1>11, ModelNumbers, JoinsBatch
    DEF WriteInput, Leave, AfterModel, Count, window, loop, supers, outcome,
        work, channel, Stages, TypeOK
<1>12. CASE WriteFails
    <2>1. NotPreparedShape
        BY <1>12, Unprepared DEF WriteFails, Stages
    <2> QED
        BY <1>12, <2>1, ModelNumbers
        DEF WriteFails, supers, NotPreparedShape, Stages, TypeOK
<1>13. CASE Spawn
    BY <1>13, ModelNumbers DEF Spawn, Fatal, window, loop, supers, outcome,
                               work, channel, Stages, TypeOK
<1>14. CASE Wait
    BY <1>14, ModelNumbers DEF Wait, Fatal, window, loop, supers, outcome,
                               work, channel, Stages, TypeOK
<1>15. CASE Panic
    BY <1>15, ModelNumbers DEF Panic, window, loop, supers, outcome, work,
                               channel, Stages, TypeOK
<1>16. CASE Collect
    BY <1>16, ModelNumbers, LeavesBatch, EmptyBatch
    DEF Collect, Record, Single, window, loop, supers, outcome, work, channel,
        Stages, TypeOK
<1>17. CASE Finish
    BY <1>17, ModelNumbers DEF Finish, window, loop, supers, outcome, work,
                               channel, Stages, TypeOK
<1>18. CASE Return
    BY <1>18, ModelNumbers DEF Return, window, loop, supers, outcome, work,
                               channel, Stages, TypeOK
<1>19. CASE CompilerExits
    BY <1>19, ModelNumbers DEF CompilerExits, window, loop, supers, outcome,
                               work, channel, Stages, TypeOK
<1>20. CASE UNCHANGED vars
    BY <1>20, ModelNumbers DEF vars, window, loop, supers, outcome, work,
                               channel, Stages, TypeOK
<1> QED
    BY <1>1, <1>2, <1>3, <1>4, <1>5, <1>6, <1>7, <1>8, <1>9, <1>10, <1>11,
       <1>12, <1>13, <1>14, <1>15, <1>16, <1>17, <1>18, <1>19, <1>20
    DEF Next, Work

\* Every step keeps what the window says to what the worker did.
LEMMA SaysSoKept ==
    TypeOK /\ Stages /\ SaysSo /\ [Next]_vars => SaysSo'
<1> SUFFICES ASSUME TypeOK, Stages, SaysSo, [Next]_vars
             PROVE  SaysSo'
    OBVIOUS
<1>1. ASSUME NEW n \in Models, Start(n) PROVE SaysSo'
    BY <1>1 DEF Start, window, supers, outcome, work, channel, Stages, SaysSo
<1>2. CASE Cancel
    BY <1>2 DEF Cancel, window, loop, supers, outcome, work, channel, Stages,
                SaysSo
<1>3. CASE CloseRequest
    BY <1>3 DEF CloseRequest, window, loop, supers, outcome, work, channel,
                Stages, SaysSo
<1>4. CASE Poll
    BY <1>4 DEF Poll, Over, Told, window, loop, supers, outcome, work, channel,
                Stages, SaysSo
<1>5. CASE OpenWorkspace
    BY <1>5 DEF OpenWorkspace, Fatal, window, loop, supers, outcome, work,
                channel, Stages, SaysSo
<1>6. CASE NextModel
    BY <1>6 DEF NextModel, window, loop, supers, outcome, work, channel,
                Stages, SaysSo
<1>7. CASE ReadModel
    BY <1>7 DEF ReadModel, window, loop, supers, outcome, work, channel,
                Stages, SaysSo
<1>8. CASE ReadFails
    <2>1. NotPreparedShape
        BY <1>8, Unprepared DEF ReadFails, Stages
    <2> QED
        BY <1>8, <2>1 DEF ReadFails, supers, NotPreparedShape, Stages, SaysSo
<1>9. CASE StageSuper
    BY <1>9 DEF StageSuper, Leave, window, loop, supers, outcome, work,
                channel, Stages, SaysSo
<1>10. CASE StageFails
    <2>1. NotPreparedShape
        BY <1>10, Unprepared DEF StageFails, Stages
    <2> QED
        BY <1>10, <2>1 DEF StageFails, NotPreparedShape, Stages, SaysSo
<1>11. CASE WriteInput
    BY <1>11 DEF WriteInput, Leave, AfterModel, Count, window, loop, supers,
                 outcome, work, channel, Stages, SaysSo
<1>12. CASE WriteFails
    <2>1. NotPreparedShape
        BY <1>12, Unprepared DEF WriteFails, Stages
    <2> QED
        BY <1>12, <2>1 DEF WriteFails, supers, NotPreparedShape, Stages, SaysSo
<1>13. CASE Spawn
    BY <1>13 DEF Spawn, Fatal, window, loop, supers, outcome, work, channel,
                 Stages, SaysSo
<1>14. CASE Wait
    BY <1>14 DEF Wait, Fatal, window, loop, supers, outcome, work, channel,
                 Stages, SaysSo
<1>15. CASE Panic
    BY <1>15 DEF Panic, window, loop, supers, outcome, work, channel, Stages,
                 SaysSo
<1>16. CASE Collect
    BY <1>16 DEF Collect, Record, Single, window, loop, supers, outcome, work,
                 channel, Stages, SaysSo
<1>17. CASE Finish
    BY <1>17 DEF Finish, window, loop, supers, outcome, work, channel, Stages,
                 SaysSo
<1>18. CASE Return
    BY <1>18 DEF Return, window, loop, supers, outcome, work, channel, Stages,
                 SaysSo
<1>19. CASE CompilerExits
    BY <1>19 DEF CompilerExits, window, loop, supers, outcome, work, channel,
                 Stages, SaysSo
<1>20. CASE UNCHANGED vars
    BY <1>20 DEF vars, window, loop, supers, outcome, work, channel, Stages,
                 SaysSo
<1> QED
    BY <1>1, <1>2, <1>3, <1>4, <1>5, <1>6, <1>7, <1>8, <1>9, <1>10, <1>11,
       <1>12, <1>13, <1>14, <1>15, <1>16, <1>17, <1>18, <1>19, <1>20
    DEF Next, Work

\* Every step keeps the types.
LEMMA TypesKept ==
    TypeOK /\ Stages /\ Batches /\ Accounts /\ [Next]_vars => TypeOK'
<1> SUFFICES ASSUME TypeOK, Stages, Batches, Accounts, [Next]_vars
             PROVE  TypeOK'
    OBVIOUS
<1>1. ASSUME NEW n \in Models, Start(n) PROVE TypeOK'
    BY <1>1, ModelNumbers DEF Start, window, supers, outcome, work, channel,
                              Stages, TypeOK, Accounts
<1>2. CASE Cancel
    BY <1>2, ModelNumbers DEF Cancel, window, loop, supers, outcome, work,
                              channel, Stages, TypeOK, Accounts
<1>3. CASE CloseRequest
    BY <1>3, ModelNumbers DEF CloseRequest, window, loop, supers, outcome,
                              work, channel, Stages, TypeOK, Accounts
<1>4. CASE Poll
    BY <1>4, ModelNumbers DEF Poll, Over, Told, window, loop, supers, outcome,
                              work, channel, Stages, TypeOK, Accounts
<1>5. CASE OpenWorkspace
    BY <1>5, ModelNumbers DEF OpenWorkspace, Fatal, window, loop, supers,
                              outcome, work, channel, Stages, TypeOK, Accounts
<1>6. CASE NextModel
    <2>2. Numbers'
        BY <1>6, ModelNumbers, TypesSplit
        DEF NextModel, window, loop, supers, outcome, work, channel, Numbers,
            Names, Stages, Accounts
    <2>3. Flags'
        BY <1>6, TypesSplit DEF NextModel, window, loop, supers, outcome, work,
                              channel, Flags
    <2>4. Names'
        BY <1>6, TypesSplit DEF NextModel, window, loop, supers, outcome, work,
                              channel, Names, Numbers
    <2> QED
        BY <2>2, <2>3, <2>4 DEF Numbers, Flags, Names, TypeOK
<1>7. CASE ReadModel
    <2>1. at \in Models /\ SuperOf[at] \in Supers \cup {None}
        BY <1>7, AtModel, Derived DEF ReadModel, Stages
    <2>2. Numbers'
        BY <1>7, ModelNumbers, TypesSplit, <2>1
        DEF ReadModel, window, loop, supers, outcome, work, channel, Numbers,
            Names, Stages, Accounts
    <2>3. Flags'
        BY <1>7, TypesSplit DEF ReadModel, window, loop, supers, outcome, work,
                              channel, Flags
    <2>4. Names'
        BY <1>7, TypesSplit, <2>1 DEF ReadModel, window, loop, supers, outcome,
                                    work, channel, Names, Numbers
    <2> QED
        BY <2>2, <2>3, <2>4 DEF Numbers, Flags, Names, TypeOK
<1>8. CASE ReadFails
    <2>1. NotPreparedShape
        BY <1>8, Unprepared DEF ReadFails, Stages
    <2>2. Numbers'
        BY <1>8, <2>1, ModelNumbers, TypesSplit
        DEF ReadFails, supers, NotPreparedShape, Numbers, Names, Stages,
            Accounts
    <2>3. Flags'
        BY <1>8, <2>1, TypesSplit DEF ReadFails, supers, NotPreparedShape, Flags
    <2>4. Names'
        BY <1>8, <2>1, TypesSplit DEF ReadFails, supers, NotPreparedShape, Names,
                                    Numbers
    <2> QED
        BY <2>2, <2>3, <2>4 DEF Numbers, Flags, Names, TypeOK
<1>9. CASE StageSuper
    <2>2. Numbers'
        BY <1>9, ModelNumbers, TypesSplit, Derived
        DEF StageSuper, Leave, window, loop, supers, outcome, work, channel,
            Numbers, Names, Stages, Accounts
    <2>3. Flags'
        BY <1>9, TypesSplit DEF StageSuper, Leave, window, loop, supers, outcome,
                              work, channel, Flags
    <2>4. Names'
        BY <1>9, TypesSplit, Derived DEF StageSuper, Leave, window, loop, supers,
                                       outcome, work, channel, Names, Numbers
    <2> QED
        BY <2>2, <2>3, <2>4 DEF Numbers, Flags, Names, TypeOK
<1>10. CASE StageFails
    <2>1. NotPreparedShape
        BY <1>10, Unprepared DEF StageFails, Stages
    <2>2. Numbers'
        BY <1>10, <2>1, ModelNumbers, TypesSplit
        DEF StageFails, NotPreparedShape, Numbers, Names, Stages, Accounts
    <2>3. Flags'
        BY <1>10, <2>1, TypesSplit DEF StageFails, NotPreparedShape, Flags
    <2>4. Names'
        BY <1>10, <2>1, TypesSplit DEF StageFails, NotPreparedShape, Names,
                                    Numbers
    <2> QED
        BY <2>2, <2>3, <2>4 DEF Numbers, Flags, Names, TypeOK
<1>11. CASE WriteInput
    <2>1. WriteInputShape
        BY <1>11, WritesInput
    <2>2. Numbers'
        BY <2>1, ModelNumbers, TypesSplit
        DEF WriteInputShape, Numbers, Names
    <2>3. Flags'
        BY <1>11, <2>1, TypesSplit DEF WriteInputShape, WriteInput, window,
                                    channel, Flags
    <2>4. Names'
        BY <2>1, TypesSplit DEF WriteInputShape, Names
    <2> QED
        BY <2>2, <2>3, <2>4 DEF Numbers, Flags, Names, TypeOK
<1>12. CASE WriteFails
    <2>1. NotPreparedShape
        BY <1>12, Unprepared DEF WriteFails, Stages
    <2>2. Numbers'
        BY <1>12, <2>1, ModelNumbers, TypesSplit
        DEF WriteFails, supers, NotPreparedShape, Numbers, Names, Stages,
            Accounts
    <2>3. Flags'
        BY <1>12, <2>1, TypesSplit DEF WriteFails, supers, NotPreparedShape, Flags
    <2>4. Names'
        BY <1>12, <2>1, TypesSplit DEF WriteFails, supers, NotPreparedShape,
                                    Names, Numbers
    <2> QED
        BY <2>2, <2>3, <2>4 DEF Numbers, Flags, Names, TypeOK
<1>13. CASE Spawn
    BY <1>13, ModelNumbers DEF Spawn, Fatal, window, loop, supers, outcome,
                               work, channel, Stages, TypeOK, Accounts
<1>14. CASE Wait
    BY <1>14, ModelNumbers DEF Wait, Fatal, window, loop, supers, outcome,
                               work, channel, Stages, TypeOK, Accounts
<1>15. CASE Panic
    BY <1>15, ModelNumbers DEF Panic, window, loop, supers, outcome, work,
                               channel, Stages, TypeOK, Accounts
<1>16. CASE Collect
    <2> DEFINE m == Head(batch)
    <2>1. CollectShape(m)
        BY <1>16, Collects
    <2> HIDE DEF m
    <2>2. Numbers'
        BY <2>1, ModelNumbers, TypesSplit
        DEF CollectShape, Numbers, Names
    <2>3. Flags'
        BY <1>16, <2>1, TypesSplit DEF CollectShape, Collect, window, channel,
                                    Flags
    <2>4. Names'
        BY <2>1, TypesSplit DEF CollectShape, Names
    <2> QED
        BY <2>2, <2>3, <2>4 DEF Numbers, Flags, Names, TypeOK
<1>17. CASE Finish
    BY <1>17, ModelNumbers DEF Finish, window, loop, supers, outcome, work,
                               channel, Stages, TypeOK, Accounts
<1>18. CASE Return
    BY <1>18, ModelNumbers DEF Return, window, loop, supers, outcome, work,
                               channel, Stages, TypeOK, Accounts
<1>19. CASE CompilerExits
    BY <1>19, ModelNumbers DEF CompilerExits, window, loop, supers, outcome,
                               work, channel, Stages, TypeOK, Accounts
<1>20. CASE UNCHANGED vars
    BY <1>20, ModelNumbers DEF vars, window, loop, supers, outcome, work,
                               channel, Stages, TypeOK, Accounts
<1> QED
    BY <1>1, <1>2, <1>3, <1>4, <1>5, <1>6, <1>7, <1>8, <1>9, <1>10, <1>11,
       <1>12, <1>13, <1>14, <1>15, <1>16, <1>17, <1>18, <1>19, <1>20
    DEF Next, Work

\* Every step keeps exported models whole.
LEMMA BatchesKept ==
    TypeOK /\ Stages /\ Batches /\ Accounts /\ [Next]_vars => Batches'
<1> SUFFICES ASSUME TypeOK, Stages, Batches, Accounts, [Next]_vars
             PROVE  Batches'
    OBVIOUS
<1>1. ASSUME NEW n \in Models, Start(n) PROVE Batches'
    BY <1>1, ModelNumbers DEF Start, window, supers, outcome, work, channel,
                              Stages, TypeOK, Batches
<1>2. CASE Cancel
    BY <1>2, ModelNumbers DEF Cancel, window, loop, supers, outcome, work,
                              channel, Stages, TypeOK, Batches
<1>3. CASE CloseRequest
    BY <1>3, ModelNumbers DEF CloseRequest, window, loop, supers, outcome,
                              work, channel, Stages, TypeOK, Batches
<1>4. CASE Poll
    BY <1>4, ModelNumbers DEF Poll, Over, Told, window, loop, supers, outcome,
                              work, channel, Stages, TypeOK, Batches
<1>5. CASE OpenWorkspace
    BY <1>5, ModelNumbers DEF OpenWorkspace, Fatal, window, loop, supers,
                              outcome, work, channel, Stages, TypeOK, Batches
<1>6. CASE NextModel
    BY <1>6, ModelNumbers DEF NextModel, window, loop, supers, outcome, work,
                              channel, Stages, TypeOK, Batches
<1>7. CASE ReadModel
    BY <1>7, ModelNumbers DEF ReadModel, window, loop, supers, outcome, work,
                              channel, Stages, TypeOK, Batches
<1>8. CASE ReadFails
    <2>1. NotPreparedShape
        BY <1>8, Unprepared DEF ReadFails, Stages
    <2> QED
        BY <1>8, <2>1, ModelNumbers DEF ReadFails, supers, NotPreparedShape,
                                        Stages, TypeOK, Batches
<1>9. CASE StageSuper
    BY <1>9, ModelNumbers DEF StageSuper, Leave, window, loop, supers, outcome,
                              work, channel, Stages, TypeOK, Batches
<1>10. CASE StageFails
    <2>1. NotPreparedShape
        BY <1>10, Unprepared DEF StageFails, Stages
    <2> QED
        BY <1>10, <2>1, ModelNumbers
        DEF StageFails, NotPreparedShape, Stages, TypeOK, Batches
<1>11. CASE WriteInput
    <2>1. WriteInputShape
        BY <1>11, WritesInput
    <2> QED
        BY <2>1 DEF WriteInputShape, Batches
<1>12. CASE WriteFails
    <2>1. NotPreparedShape
        BY <1>12, Unprepared DEF WriteFails, Stages
    <2> QED
        BY <1>12, <2>1, ModelNumbers
        DEF WriteFails, supers, NotPreparedShape, Stages, TypeOK, Batches
<1>13. CASE Spawn
    BY <1>13, ModelNumbers DEF Spawn, Fatal, window, loop, supers, outcome,
                               work, channel, Stages, TypeOK, Batches
<1>14. CASE Wait
    BY <1>14, ModelNumbers DEF Wait, Fatal, window, loop, supers, outcome,
                               work, channel, Stages, TypeOK, Batches
<1>15. CASE Panic
    BY <1>15, ModelNumbers DEF Panic, window, loop, supers, outcome, work,
                               channel, Stages, TypeOK, Batches
<1>16. CASE Collect
    <2> DEFINE m == Head(batch)
    <2>1. CollectShape(m)
        BY <1>16, Collects
    <2> HIDE DEF m
    <2>2. exported \subseteq Models
        BY ModelNumbers DEF TypeOK
    <2>3. \A k \in exported' : target'[k] = "model"
        BY <2>1, <2>2 DEF CollectShape, Batches
    <2>4. exported' \cap Set(batch') = {}
        BY <2>1 DEF CollectShape, Batches
    <2> QED
        BY <2>1, <2>3, <2>4 DEF CollectShape, Batches
<1>17. CASE Finish
    BY <1>17, ModelNumbers DEF Finish, window, loop, supers, outcome, work,
                               channel, Stages, TypeOK, Batches
<1>18. CASE Return
    BY <1>18, ModelNumbers DEF Return, window, loop, supers, outcome, work,
                               channel, Stages, TypeOK, Batches
<1>19. CASE CompilerExits
    BY <1>19, ModelNumbers DEF CompilerExits, window, loop, supers, outcome,
                               work, channel, Stages, TypeOK, Batches
<1>20. CASE UNCHANGED vars
    BY <1>20, ModelNumbers DEF vars, window, loop, supers, outcome, work,
                               channel, Stages, TypeOK, Batches
<1> QED
    BY <1>1, <1>2, <1>3, <1>4, <1>5, <1>6, <1>7, <1>8, <1>9, <1>10, <1>11,
       <1>12, <1>13, <1>14, <1>15, <1>16, <1>17, <1>18, <1>19, <1>20
    DEF Next, Work

\* Every step accounts for the models that were counted.
LEMMA AccountsKept ==
    TypeOK /\ Stages /\ Batches /\ Accounts /\ [Next]_vars => Accounts'
<1> SUFFICES ASSUME TypeOK, Stages, Batches, Accounts, [Next]_vars
             PROVE  Accounts'
    OBVIOUS
<1>1. ASSUME NEW n \in Models, Start(n) PROVE Accounts'
    BY <1>1, ModelNumbers DEF Start, window, supers, outcome, work, channel,
                              Stages, TypeOK, Batches, Accounts
<1>2. CASE Cancel
    BY <1>2, ModelNumbers DEF Cancel, window, loop, supers, outcome, work,
                              channel, Stages, TypeOK, Batches, Accounts
<1>3. CASE CloseRequest
    BY <1>3, ModelNumbers DEF CloseRequest, window, loop, supers, outcome,
                              work, channel, Stages, TypeOK, Batches, Accounts
<1>4. CASE Poll
    BY <1>4, ModelNumbers DEF Poll, Over, Told, window, loop, supers, outcome,
                              work, channel, Stages, TypeOK, Batches, Accounts
<1>5. CASE OpenWorkspace
    BY <1>5, ModelNumbers DEF OpenWorkspace, Fatal, window, loop, supers,
                              outcome, work, channel, Stages, TypeOK, Batches,
                              Accounts
<1>6. CASE NextModel
    BY <1>6, ModelNumbers DEF NextModel, window, loop, supers, outcome, work,
                              channel, Stages, TypeOK, Batches, Accounts
<1>7. CASE ReadModel
    BY <1>7, ModelNumbers DEF ReadModel, window, loop, supers, outcome, work,
                              channel, Stages, TypeOK, Batches, Accounts
<1>8. CASE ReadFails
    <2>1. NotPreparedShape
        BY <1>8, Unprepared DEF ReadFails, Stages
    <2>2. 1..visited + 1 = (1..visited) \cup {visited + 1} /\ visited + 1 \notin 1..visited
        BY ModelNumbers DEF TypeOK
    <2>3. at = visited + 1 /\ visited \in Nat /\ ~canceled /\ ~fatal
        BY <1>8, ModelNumbers DEF ReadFails, Stages, Accounts, TypeOK
    <2>4. CASE fatal'
        BY <2>4 DEF Accounts
    <2>5. CASE ~fatal'
        <3>1. /\ skipped' = skipped \cup {at} /\ report' = report \cup {at}
              /\ exported' = exported /\ batch' = batch /\ visited' = visited + 1
              /\ at' = at /\ total' = total
              /\ pc' = "spawn" \/ (pc' = "next" /\ (batch = <<>> \/ at # total))
            BY <2>1, <2>3, <2>5 DEF NotPreparedShape
        <3>2. /\ exported' \cup skipped' \cup Set(batch') = 1..visited'
              /\ exported' \cap skipped' = {} /\ skipped' \cap Set(batch') = {}
              /\ report' = skipped'
            BY <2>2, <2>3, <3>1 DEF Accounts
        <3> QED
            BY <2>3, <3>1, <3>2 DEF Accounts
    <2> QED
        BY <2>4, <2>5
<1>9. CASE StageSuper
    BY <1>9, ModelNumbers DEF StageSuper, Leave, window, loop, supers, outcome,
                              work, channel, Stages, TypeOK, Batches, Accounts
<1>10. CASE StageFails
    <2>1. NotPreparedShape
        BY <1>10, Unprepared DEF StageFails, Stages
    <2>2. 1..visited + 1 = (1..visited) \cup {visited + 1} /\ visited + 1 \notin 1..visited
        BY ModelNumbers DEF TypeOK
    <2>3. at = visited + 1 /\ visited \in Nat /\ ~canceled /\ ~fatal
        BY <1>10, ModelNumbers DEF StageFails, Stages, Accounts, TypeOK
    <2>4. CASE fatal'
        BY <2>4 DEF Accounts
    <2>5. CASE ~fatal'
        <3>1. /\ skipped' = skipped \cup {at} /\ report' = report \cup {at}
              /\ exported' = exported /\ batch' = batch /\ visited' = visited + 1
              /\ at' = at /\ total' = total
              /\ pc' = "spawn" \/ (pc' = "next" /\ (batch = <<>> \/ at # total))
            BY <2>1, <2>3, <2>5 DEF NotPreparedShape
        <3>2. /\ exported' \cup skipped' \cup Set(batch') = 1..visited'
              /\ exported' \cap skipped' = {} /\ skipped' \cap Set(batch') = {}
              /\ report' = skipped'
            BY <2>2, <2>3, <3>1 DEF Accounts
        <3> QED
            BY <2>3, <3>1, <3>2 DEF Accounts
    <2> QED
        BY <2>4, <2>5
<1>11. CASE WriteInput
    <2>1. WriteInputShape
        BY <1>11, WritesInput
    <2> QED
        BY <2>1 DEF WriteInputShape, Accounts
<1>12. CASE WriteFails
    <2>1. NotPreparedShape
        BY <1>12, Unprepared DEF WriteFails, Stages
    <2>2. 1..visited + 1 = (1..visited) \cup {visited + 1} /\ visited + 1 \notin 1..visited
        BY ModelNumbers DEF TypeOK
    <2>3. at = visited + 1 /\ visited \in Nat /\ ~canceled /\ ~fatal
        BY <1>12, ModelNumbers DEF WriteFails, Stages, Accounts, TypeOK
    <2>4. CASE fatal'
        BY <2>4 DEF Accounts
    <2>5. CASE ~fatal'
        <3>1. /\ skipped' = skipped \cup {at} /\ report' = report \cup {at}
              /\ exported' = exported /\ batch' = batch /\ visited' = visited + 1
              /\ at' = at /\ total' = total
              /\ pc' = "spawn" \/ (pc' = "next" /\ (batch = <<>> \/ at # total))
            BY <2>1, <2>3, <2>5 DEF NotPreparedShape
        <3>2. /\ exported' \cup skipped' \cup Set(batch') = 1..visited'
              /\ exported' \cap skipped' = {} /\ skipped' \cap Set(batch') = {}
              /\ report' = skipped'
            BY <2>2, <2>3, <3>1 DEF Accounts
        <3> QED
            BY <2>3, <3>1, <3>2 DEF Accounts
    <2> QED
        BY <2>4, <2>5
<1>13. CASE Spawn
    BY <1>13, ModelNumbers DEF Spawn, Fatal, window, loop, supers, outcome,
                               work, channel, Stages, TypeOK, Batches, Accounts
<1>14. CASE Wait
    BY <1>14, ModelNumbers DEF Wait, Fatal, window, loop, supers, outcome,
                               work, channel, Stages, TypeOK, Batches, Accounts
<1>15. CASE Panic
    BY <1>15, ModelNumbers DEF Panic, window, loop, supers, outcome, work,
                               channel, Stages, TypeOK, Batches, Accounts
<1>16. CASE Collect
    <2> DEFINE m == Head(batch)
    <2>1. CollectShape(m)
        BY <1>16, Collects
    <2> HIDE DEF m
    <2>2. CASE fatal'
        BY <2>2 DEF Accounts
    <2>3. CASE ~fatal'
        <3>1. /\ exported' \cup skipped' = exported \cup skipped \cup {m}
              /\ exported \cap skipped = {} /\ report = skipped
              /\ (exported \cup skipped) \cap Set(batch) = {}
              /\ exported \cup skipped \cup Set(batch) = 1..visited
            BY <2>1, <2>3 DEF CollectShape, Accounts, Batches
        <3>2. /\ exported' \cup skipped' \cup Set(batch') = 1..visited'
              /\ skipped' \cap Set(batch') = {}
            BY <2>1, <3>1 DEF CollectShape
        <3>3. exported' \cap skipped' = {} /\ report' = skipped'
            <4>1. CASE exported' = exported \cup {m} /\ UNCHANGED <<skipped, report>>
                BY <2>1, <3>1, <4>1 DEF CollectShape
            <4>2. CASE /\ skipped' = skipped \cup {m} /\ report' = report \cup {m}
                       /\ exported' = exported
                BY <2>1, <3>1, <4>2 DEF CollectShape
            <4> QED
                BY <2>1, <2>3, <4>1, <4>2 DEF CollectShape
        <3>4. visited' = at' /\ pc' = IF batch' = <<>> THEN "next" ELSE "collect"
            BY <1>16, <2>1, <2>3 DEF CollectShape, Accounts, Collect
        <3> QED
            BY <3>2, <3>3, <3>4 DEF Accounts
    <2> QED
        BY <2>2, <2>3
<1>17. CASE Finish
    BY <1>17, ModelNumbers DEF Finish, window, loop, supers, outcome, work,
                               channel, Stages, TypeOK, Batches, Accounts
<1>18. CASE Return
    BY <1>18, ModelNumbers DEF Return, window, loop, supers, outcome, work,
                               channel, Stages, TypeOK, Batches, Accounts
<1>19. CASE CompilerExits
    BY <1>19, ModelNumbers DEF CompilerExits, window, loop, supers, outcome,
                               work, channel, Stages, TypeOK, Batches, Accounts
<1>20. CASE UNCHANGED vars
    BY <1>20, ModelNumbers DEF vars, window, loop, supers, outcome, work,
                               channel, Stages, TypeOK, Batches, Accounts
<1> QED
    BY <1>1, <1>2, <1>3, <1>4, <1>5, <1>6, <1>7, <1>8, <1>9, <1>10, <1>11,
       <1>12, <1>13, <1>14, <1>15, <1>16, <1>17, <1>18, <1>19, <1>20
    DEF Next, Work

\* Every step keeps the chains of supermodels.
LEMMA ChainsKept ==
    TypeOK /\ Stages /\ Batches /\ Accounts /\ Chains /\ [Next]_vars => Chains'
<1> SUFFICES ASSUME TypeOK, Stages, Batches, Accounts, Chains, [Next]_vars
             PROVE  Chains'
    OBVIOUS
<1>1. ASSUME NEW n \in Models, Start(n) PROVE Chains'
    BY <1>1 DEF Start, window, supers, outcome, work, channel, Chains, TypeOK
<1>2. CASE Cancel
    BY <1>2 DEF Cancel, window, loop, supers, outcome, work, channel, Chains,
                TypeOK
<1>3. CASE CloseRequest
    BY <1>3 DEF CloseRequest, window, loop, supers, outcome, work, channel,
                Chains, TypeOK
<1>4. CASE Poll
    BY <1>4 DEF Poll, Over, Told, window, loop, supers, outcome, work, channel,
                Chains, TypeOK
<1>5. CASE OpenWorkspace
    BY <1>5 DEF OpenWorkspace, Fatal, window, loop, supers, outcome, work,
                channel, Chains, TypeOK
<1>6. CASE NextModel
    BY <1>6 DEF NextModel, window, loop, supers, outcome, work, channel,
                Chains, TypeOK
<1>7. CASE ReadModel
    BY <1>7 DEF ReadModel, window, loop, supers, outcome, work, channel,
                Chains, TypeOK
<1>8. CASE ReadFails
    <2>1. NotPreparedShape
        BY <1>8, Unprepared DEF ReadFails, Stages
    <2> QED
        BY <1>8, <2>1 DEF ReadFails, supers, NotPreparedShape, Chains, TypeOK
<1>9. CASE StageSuper
    BY <1>9 DEF StageSuper, Leave, window, loop, supers, outcome, work,
                channel, Chains, TypeOK
<1>10. CASE StageFails
    <2>1. NotPreparedShape
        BY <1>10, Unprepared DEF StageFails, Stages
    <2> QED
        BY <1>10, <2>1 DEF StageFails, NotPreparedShape, Chains, TypeOK
<1>11. CASE WriteInput
    <2>1. WriteInputShape
        BY <1>11, WritesInput
    <2> QED
        BY <2>1, <1>11 DEF WriteInputShape, WriteInput, Chains
<1>12. CASE WriteFails
    <2>1. NotPreparedShape
        BY <1>12, Unprepared DEF WriteFails, Stages
    <2> QED
        BY <1>12, <2>1 DEF WriteFails, supers, NotPreparedShape, Chains, TypeOK
<1>13. CASE Spawn
    BY <1>13 DEF Spawn, Fatal, window, loop, supers, outcome, work, channel,
                 Chains, TypeOK
<1>14. CASE Wait
    BY <1>14 DEF Wait, Fatal, window, loop, supers, outcome, work, channel,
                 Chains, TypeOK
<1>15. CASE Panic
    BY <1>15 DEF Panic, window, loop, supers, outcome, work, channel, Chains,
                 TypeOK
<1>16. CASE Collect
    <2> DEFINE m == Head(batch)
    <2>1. CollectShape(m)
        BY <1>16, Collects
    <2> HIDE DEF m
    <2> QED
        BY <2>1, <1>16 DEF CollectShape, Chains, Stages, Collect
<1>17. CASE Finish
    BY <1>17 DEF Finish, window, loop, supers, outcome, work, channel, Chains,
                 TypeOK
<1>18. CASE Return
    BY <1>18 DEF Return, window, loop, supers, outcome, work, channel, Chains,
                 TypeOK
<1>19. CASE CompilerExits
    BY <1>19 DEF CompilerExits, window, loop, supers, outcome, work, channel,
                 Chains, TypeOK
<1>20. CASE UNCHANGED vars
    BY <1>20 DEF vars, window, loop, supers, outcome, work, channel, Chains,
                 TypeOK
<1> QED
    BY <1>1, <1>2, <1>3, <1>4, <1>5, <1>6, <1>7, <1>8, <1>9, <1>10, <1>11,
       <1>12, <1>13, <1>14, <1>15, <1>16, <1>17, <1>18, <1>19, <1>20
    DEF Next, Work

----------------------------------------------------------------------------
(* The theorems.                                                           *)

\* The first state satisfies the invariant.
LEMMA InvInit == Init => IInv
<1> SUFFICES ASSUME Init PROVE IInv
    OBVIOUS
<1>1. /\ total = 0 /\ at = 0 /\ visited = 0 /\ wanted = None /\ batch = <<>> /\ pc = "idle"
      /\ named = {} /\ staged = {} /\ absent = {} /\ broken = {} /\ child = "none"
      /\ exported = {} /\ skipped = {} /\ report = {} /\ told = "nothing"
      /\ 1..0 = {} /\ Set(batch) = {} /\ batch \in Seq(Models) /\ Len(batch) = 0
    BY EmptyBatch DEF Init
<1>2. Numbers
    BY <1>1, ModelNumbers DEF Numbers
<1>3. Flags
    BY DEF Init, Flags
<1>4. Names
    BY <1>1 DEF Init, Names
<1>5. TypeOK
    BY <1>2, <1>3, <1>4 DEF Numbers, Flags, Names, TypeOK
<1>6. Stages /\ SaysSo
    BY <1>1, ModelNumbers DEF Init, Stages, SaysSo
<1>7. Batches /\ Chains
    BY <1>1 DEF Batches, Chains
<1>8. Accounts
    BY <1>1 DEF Accounts
<1> QED
    BY <1>5, <1>6, <1>7, <1>8 DEF IInv

\* The invariant holds in every reachable state.
THEOREM Invariance == Spec => []IInv
<1>1. IInv /\ [Next]_vars => IInv'
    BY TypesKept, StagesKept, SaysSoKept, BatchesKept, AccountsKept, ChainsKept DEF IInv
<1> QED
    BY <1>1, InvInit, PTL DEF Spec

\* Every variable has its type: no batch grows over its limit, no model is
\* counted before its turn, and nothing is in the outcome that was not selected.
THEOREM TypeCorrect == Spec => []TypeOK
<1>1. IInv => TypeOK
    BY DEF IInv
<1> QED
    BY <1>1, Invariance, PTL

\* compile_models_worker and poll_model_compile_job: when the window says that a
\* job is done, every selected model is whole where it was to be exported or in
\* the failure report, and never both; it speaks of a worker that stopped only
\* if it did.
THEOREM ModelsAccounted == Spec => []EachAccounted
<1>1. IInv => EachAccounted
    <2> SUFFICES ASSUME IInv PROVE EachAccounted
        OBVIOUS
    <2>1. ASSUME told = "done"
          PROVE  /\ exported \cup skipped = 1..total /\ exported \cap skipped = {}
                 /\ report = skipped
        <3>1. pc \in {"close", "returned"} /\ ~fatal /\ ~canceled
            BY <2>1 DEF IInv, SaysSo
        <3>2. visited = total /\ batch = <<>>
            BY <3>1 DEF IInv, Accounts
        <3> QED
            BY <3>1, <3>2, EmptyBatch DEF IInv, Accounts
    <2> QED
        BY <2>1 DEF IInv, SaysSo, Batches, EachAccounted
<1> QED
    BY <1>1, Invariance, PTL

\* stage_model_dependencies: when the compiler runs, the chain of supermodels of
\* every model of its batch is in the workspace, up to one that was found
\* nowhere or could not be staged.
THEOREM ChainsStaged == Spec => []ChainStaged
<1>1. IInv => ChainStaged
    BY DEF IInv, TypeOK, Chains, ChainStaged
<1> QED
    BY <1>1, Invariance, PTL
=============================================================================
