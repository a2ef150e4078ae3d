------------------------ MODULE StageEvaluationProofs ------------------------
(***************************************************************************)
(* Proofs about StageEvaluation, for any processes, stages and commands.   *)
(* No lock keeps two commands apart.  What does is that a snapshot, once   *)
(* created, is never removed: whoever created it owns its stage (Owners),  *)
(* nobody owns it afterwards, and everything that is written of the stage  *)
(* is written by an owner (Written).                                       *)
(***************************************************************************)
EXTENDS StageEvaluation, TLAPS

\* At most one process at a time owns a stage.
Owners == \A s \in Stages : \A p, q \in Processes : Owns(p, s) /\ Owns(q, s) => p = q

\* What an owner has found, and what it has written so far.
Progress(p) ==
  LET s == Stage(p) IN
  /\ at[p] = "snapshot" => text[p] \in Texts
  /\ at[p] = "fill" => snapshot[s] = Partial /\ text[p] \in Texts
  /\ at[p] \in {"begin", "judge", "create", "write"} => snapshot[s] = text[p] /\ text[p] \in Texts
  /\ at[p] \in {"fill", "begin"} => judged[s] = 0
  /\ at[p] \in {"fill", "begin", "judge", "create"} => result[s] = NoFile
  /\ at[p] \in {"judge", "create", "write"} => used[p] = text[p]
  /\ at[p] = "write" => result[s] = Partial
  /\ at[p] = "exit" => todo[p] = <<>>

Written == \A p \in Processes : Progress(p)

\* Without a snapshot nothing has been done for a stage.
Untouched == \A s \in Stages : snapshot[s] = NoFile => judged[s] = 0 /\ result[s] = NoFile

Done(p, s) == result[s] \in Results /\ result[s].by = p

\* Each stage of a command is done, failed or still to be done.
Accounted ==
  \A p \in Processes : at[p] # "idle" =>
    \A s \in Range(command[p]) : s \in failed[p] \/ s \in Range(todo[p]) \/ Done(p, s)

IInv == TypeOK /\ Owners /\ Written /\ Untouched /\ Accounted /\ JudgedOnce /\ ResultNamesItsCriteria

-----------------------------------------------------------------------------
LEMMA SeqFacts ==
  ASSUME NEW S, NEW q \in Seq(S), q # <<>>
  PROVE  /\ Head(q) \in S /\ Tail(q) \in Seq(S)
         /\ \A s \in Range(q) : s = Head(q) \/ s \in Range(Tail(q))
  <1>1. Head(q) \in S /\ Tail(q) \in Seq(S)
    OBVIOUS
  <1>2. ASSUME NEW s \in Range(q), s # Head(q) PROVE s \in Range(Tail(q))
    <2>1. PICK i \in 1..Len(q) : q[i] = s
      BY DEF Range
    <2>2. i # 1
      BY <2>1, <1>2
    <2>3. i - 1 \in 1..Len(Tail(q)) /\ Tail(q)[i - 1] = s
      BY <2>1, <2>2
    <2>4. DOMAIN Tail(q) = 1..Len(Tail(q))
      BY <1>1
    <2> QED BY <2>3, <2>4 DEF Range
  <1> QED BY <1>1, <1>2

LEMMA EmptyRange == Range(<<>>) = {}
  BY DEF Range

LEMMA CommandFacts ==
  ASSUME NEW c \in Commands
  PROVE  c \in Seq(Stages)
  <1>1. CASE c = Order
    BY <1>1, StageAssumption
  <1>2. ASSUME NEW s \in Stages, c = <<s>> PROVE c \in Seq(Stages)
    BY <1>2
  <1> QED BY <1>1, <1>2 DEF Commands

LEMMA CommandStages ==
  ASSUME TypeOK, NEW p \in Processes
  PROVE  Range(command[p]) \subseteq Stages
  <1>1. command[p] \in Commands \cup {<<>>}
    BY DEF TypeOK
  <1>2. <<>> \in Seq(Stages)
    OBVIOUS
  <1>3. command[p] \in Seq(Stages)
    <2>1. CASE command[p] \in Commands
      BY <2>1, CommandFacts
    <2>2. CASE command[p] = <<>>
      BY <1>2, <2>2
    <2> QED BY <1>1, <2>1, <2>2
  <1> QED BY <1>3 DEF Range

LEMMA InitIInv == Init => IInv
  <1> SUFFICES ASSUME Init PROVE IInv
    OBVIOUS
  <1>1. TypeOK
    BY StageAssumption DEF Init, TypeOK
  <1>2. Owners /\ Untouched /\ Accounted /\ JudgedOnce
    BY DEF Init, Owners, Owns, Untouched, Accounted, JudgedOnce
  <1>3. Written
    BY DEF Init, Written, Progress
  <1>4. ResultNamesItsCriteria
    BY StageAssumption DEF Init, ResultNamesItsCriteria
  <1> QED BY <1>1, <1>2, <1>3, <1>4 DEF IInv

\* A step that leaves the files of every stage alone, and makes no owner.
LEMMA QuietStep ==
  ASSUME IInv, TypeOK', UNCHANGED <<snapshot, result, judged>>,
         NEW p \in Processes,
         \A q \in Processes \ {p} :
           /\ at'[q] = at[q] /\ todo'[q] = todo[q] /\ text'[q] = text[q] /\ used'[q] = used[q]
           /\ command'[q] = command[q] /\ failed'[q] = failed[q],
         at'[p] \in {"idle", "next", "load", "snapshot", "raise", "exit"},
         at'[p] = "snapshot" => text'[p] \in Texts,
         at'[p] = "exit" => todo'[p] = <<>>
  PROVE  /\ Owners' /\ Written' /\ Untouched' /\ JudgedOnce' /\ ResultNamesItsCriteria'
         /\ \A q \in Processes \ {p} : at'[q] # "idle" =>
              \A s \in Range(command'[q]) :
                s \in failed'[q] \/ s \in Range(todo'[q]) \/ Done(q, s)'
  <1>1. \A q \in Processes, s \in Stages : Owns(q, s)' => Owns(q, s)
    BY DEF Owns, Stage
  <1>2. Owners'
    BY <1>1 DEF IInv, Owners
  <1>3. Written'
    <2> SUFFICES ASSUME NEW q \in Processes PROVE Progress(q)'
      BY DEF Written
    <2>1. CASE q = p
      BY <2>1 DEF Progress
    <2>2. CASE q # p
      BY <2>2 DEF IInv, Written, Progress, Stage
    <2> QED BY <2>1, <2>2
  <1>4. Untouched' /\ JudgedOnce' /\ ResultNamesItsCriteria'
    BY DEF IInv, Untouched, JudgedOnce, ResultNamesItsCriteria
  <1>5. ASSUME NEW q \in Processes \ {p}, at'[q] # "idle", NEW s \in Range(command'[q])
        PROVE  s \in failed'[q] \/ s \in Range(todo'[q]) \/ Done(q, s)'
    BY <1>5 DEF IInv, Accounted, Done
  <1> QED BY <1>2, <1>3, <1>4, <1>5

\* What p accounts for when it leaves a stage that failed.
LEMMA FailingAccounts ==
  ASSUME IInv, NEW p \in Processes, at[p] # "idle", todo[p] # <<>>,
         FailStage(p), UNCHANGED result
  PROVE  \A s \in Range(command'[p]) : s \in failed'[p] \/ s \in Range(todo'[p]) \/ Done(p, s)'
  <1>1. todo[p] \in Seq(Stages)
    BY DEF IInv, TypeOK
  <1>2. failed'[p] = failed[p] \cup {Head(todo[p])} /\ todo'[p] = Tail(todo[p]) /\ command' = command
    BY DEF IInv, TypeOK, FailStage, Failures, Rest, Stage
  <1>3. \A s \in Range(todo[p]) : s = Head(todo[p]) \/ s \in Range(Tail(todo[p]))
    BY <1>1, SeqFacts
  <1> QED BY <1>2, <1>3 DEF IInv, Accounted, Done

LEMMA FailTypes ==
  ASSUME IInv, NEW p \in Processes, todo[p] # <<>>, FailStage(p)
  PROVE  /\ todo' \in [Processes -> Seq(Stages)]
         /\ failed' \in [Processes -> SUBSET Stages]
         /\ text' \in [Processes -> Texts \cup {NoText}]
         /\ used' \in [Processes -> Texts \cup {NoText}]
         /\ command' = command
         /\ \A q \in Processes \ {p} :
              /\ todo'[q] = todo[q] /\ failed'[q] = failed[q]
              /\ text'[q] = text[q] /\ used'[q] = used[q]
  <1>1. Head(todo[p]) \in Stages /\ Tail(todo[p]) \in Seq(Stages)
    BY SeqFacts DEF IInv, TypeOK
  <1> QED BY <1>1 DEF IInv, TypeOK, FailStage, Failures, Rest, Forget, Stage

\* The steps that end with a failure of the stage.
LEMMA FailureStep ==
  ASSUME IInv, NEW p \in Processes, ResultExists(p) \/ WriteError(p) \/ WriteFails(p)
  PROVE  IInv'
  <1>1. /\ at[p] \notin {"idle", "exit"} /\ todo[p] # <<>>
        /\ at' = [at EXCEPT ![p] = "next"]
        /\ FailStage(p)
        /\ UNCHANGED <<criteria, snapshot, result, judged, edits, starts>>
        /\ error' \in [Stages -> BOOLEAN]
    BY DEF IInv, TypeOK, ResultExists, WriteError, WriteFails, Move, files
  <1>2. /\ todo' \in [Processes -> Seq(Stages)]
        /\ failed' \in [Processes -> SUBSET Stages]
        /\ text' \in [Processes -> Texts \cup {NoText}]
        /\ used' \in [Processes -> Texts \cup {NoText}]
        /\ command' = command
        /\ \A q \in Processes \ {p} :
             /\ todo'[q] = todo[q] /\ failed'[q] = failed[q]
             /\ text'[q] = text[q] /\ used'[q] = used[q]
    BY <1>1, FailTypes
  <1>3. TypeOK'
    BY <1>1, <1>2 DEF IInv, TypeOK
  <1>4. /\ Owners' /\ Written' /\ Untouched' /\ JudgedOnce' /\ ResultNamesItsCriteria'
        /\ \A q \in Processes \ {p} : at'[q] # "idle" =>
             \A s \in Range(command'[q]) : s \in failed'[q] \/ s \in Range(todo'[q]) \/ Done(q, s)'
    <2>1. at'[p] = "next" /\ \A q \in Processes \ {p} : at'[q] = at[q] /\ command'[q] = command[q]
      BY <1>1, <1>2 DEF IInv, TypeOK
    <2> QED BY <1>1, <1>2, <1>3, <2>1, QuietStep
  <1>5. \A s \in Range(command'[p]) : s \in failed'[p] \/ s \in Range(todo'[p]) \/ Done(p, s)'
    BY <1>1, FailingAccounts
  <1> QED BY <1>3, <1>4, <1>5 DEF IInv, Accounted

\* The steps of p that only take it further, or end it.
LEMMA LocalStep ==
  ASSUME IInv, NEW p \in Processes,
         AllDone(p) \/ NoResultYet(p) \/ Load(p) \/ SnapshotExists(p) \/ Raises(p)
  PROVE  IInv'
  <1>1. /\ at[p] # "idle"
        /\ at'[p] \in {"exit", "load", "snapshot", "raise"}
        /\ at' = [at EXCEPT ![p] = at'[p]]
        /\ UNCHANGED <<files, judged, edits, starts, command, todo, failed, used>>
        /\ at'[p] = "exit" <=> todo[p] = <<>>
    BY DEF IInv, TypeOK, AllDone, NoResultYet, Load, SnapshotExists, Raises, Move, locals
  <1>2. /\ text' \in [Processes -> Texts \cup {NoText}]
        /\ \A q \in Processes \ {p} : text'[q] = text[q]
        /\ at'[p] = "snapshot" => text'[p] \in Texts
    <2>1. CASE Load(p)
      <3>1. criteria[Stage(p)] \in Texts
        BY <2>1, SeqFacts DEF IInv, TypeOK, Load, Move, Stage
      <3> QED BY <2>1, <3>1 DEF IInv, TypeOK, Load
    <2>2. CASE ~Load(p)
      <3>1. at'[p] # "snapshot" /\ text' = text
        BY <2>2 DEF IInv, TypeOK, AllDone, NoResultYet, SnapshotExists, Raises, Move, locals
      <3> QED BY <3>1 DEF IInv, TypeOK
    <2> QED BY <2>1, <2>2
  <1>3. \A q \in Processes \ {p} : at'[q] = at[q]
    BY <1>1 DEF IInv, TypeOK
  <1>4. TypeOK'
    BY <1>1, <1>2, <1>3 DEF IInv, TypeOK, files
  <1>5. /\ Owners' /\ Written' /\ Untouched' /\ JudgedOnce' /\ ResultNamesItsCriteria'
        /\ \A q \in Processes \ {p} : at'[q] # "idle" =>
             \A s \in Range(command'[q]) : s \in failed'[q] \/ s \in Range(todo'[q]) \/ Done(q, s)'
    BY <1>1, <1>2, <1>3, <1>4, QuietStep DEF files
  <1>6. \A s \in Range(command'[p]) : s \in failed'[p] \/ s \in Range(todo'[p]) \/ Done(p, s)'
    BY <1>1 DEF IInv, Accounted, Done, files
  <1> QED BY <1>4, <1>5, <1>6 DEF IInv, Accounted

LEMMA StartStep ==
  ASSUME IInv, NEW p \in Processes, NEW c \in Commands, Start(p, c)
  PROVE  IInv'
  <1>1. c \in Seq(Stages)
    BY CommandFacts
  <1>2. TypeOK'
    BY <1>1, StageAssumption DEF IInv, TypeOK, Start, files
  <1>3. /\ Owners' /\ Written' /\ Untouched' /\ JudgedOnce' /\ ResultNamesItsCriteria'
        /\ \A q \in Processes \ {p} : at'[q] # "idle" =>
             \A s \in Range(command'[q]) : s \in failed'[q] \/ s \in Range(todo'[q]) \/ Done(q, s)'
    <2>1. /\ at'[p] = "next" /\ UNCHANGED <<snapshot, result, judged>>
          /\ \A q \in Processes \ {p} :
               /\ at'[q] = at[q] /\ todo'[q] = todo[q] /\ text'[q] = text[q] /\ used'[q] = used[q]
               /\ command'[q] = command[q] /\ failed'[q] = failed[q]
      BY DEF IInv, TypeOK, Start, files
    <2> QED BY <1>2, <2>1, QuietStep
  <1>4. command'[p] = todo'[p]
    BY DEF IInv, TypeOK, Start
  <1> QED BY <1>2, <1>3, <1>4 DEF IInv, Accounted

LEMMA KillStep ==
  ASSUME IInv, NEW p \in Processes, Kill(p)
  PROVE  IInv'
  <1>1. TypeOK'
    BY DEF IInv, TypeOK, Kill, Forget, files
  <1>2. /\ Owners' /\ Written' /\ Untouched' /\ JudgedOnce' /\ ResultNamesItsCriteria'
        /\ \A q \in Processes \ {p} : at'[q] # "idle" =>
             \A s \in Range(command'[q]) : s \in failed'[q] \/ s \in Range(todo'[q]) \/ Done(q, s)'
    <2>1. /\ at'[p] = "idle" /\ UNCHANGED <<snapshot, result, judged>>
          /\ \A q \in Processes \ {p} :
               /\ at'[q] = at[q] /\ todo'[q] = todo[q] /\ text'[q] = text[q] /\ used'[q] = used[q]
               /\ command'[q] = command[q] /\ failed'[q] = failed[q]
      BY DEF IInv, TypeOK, Kill, Forget, files
    <2> QED BY <1>1, <2>1, QuietStep
  <1>3. at'[p] = "idle"
    BY DEF IInv, TypeOK, Kill
  <1> QED BY <1>1, <1>2, <1>3 DEF IInv, Accounted

\* Whoever edits the criteria changes nothing a process has read.
LEMMA EditStep ==
  ASSUME IInv, NEW s \in Stages, NEW t \in Texts, Edit(s, t)
  PROVE  IInv'
  <1>1. TypeOK'
    BY StageAssumption DEF IInv, TypeOK, Edit, locals
  <1>2. Owners' /\ Untouched' /\ JudgedOnce' /\ ResultNamesItsCriteria'
    BY DEF IInv, Owners, Owns, Stage, Untouched, JudgedOnce, ResultNamesItsCriteria, Edit, locals
  <1>3. Written'
    BY DEF IInv, Written, Progress, Stage, Edit, locals
  <1>4. Accounted'
    BY DEF IInv, Accounted, Done, Edit, locals
  <1> QED BY <1>1, <1>2, <1>3, <1>4 DEF IInv

-----------------------------------------------------------------------------
\* What the owner of a stage, or whoever becomes its owner, writes of it
\* disturbs nobody else.
LEMMA OwnerStep ==
  ASSUME IInv, TypeOK', NEW p \in Processes, NEW st \in Stages,
         todo[p] # <<>>, st = Stage(p), UNCHANGED <<todo, command, failed>>,
         Owns(p, st) \/ snapshot[st] = NoFile,
         \A s \in Stages \ {st} :
           snapshot'[s] = snapshot[s] /\ result'[s] = result[s] /\ judged'[s] = judged[s],
         \A q \in Processes \ {p} :
           at'[q] = at[q] /\ text'[q] = text[q] /\ used'[q] = used[q],
         at[p] # "idle", result[st] \notin Results,
         Progress(p)', snapshot'[st] # NoFile, judged'[st] <= 1, result'[st] \notin Results
  PROVE  IInv'
  <1>1. \A q \in Processes \ {p} : ~Owns(q, st)
    <2> SUFFICES ASSUME NEW q \in Processes \ {p}, Owns(q, st) PROVE FALSE
      OBVIOUS
    <2>1. ~Owns(p, st)
      BY DEF IInv, Owners
    <2>2. snapshot[st] = Partial \/ snapshot[st] \in Texts
      BY DEF IInv, Written, Progress, Owns
    <2> QED BY <2>1, <2>2, StageAssumption
  <1>2. \A q \in Processes, s \in Stages : q # p => (Owns(q, s)' <=> Owns(q, s))
    BY DEF Owns, Stage
  <1>3. \A s \in Stages : Owns(p, s)' => s = st
    BY DEF Owns, Stage
  <1>4. Owners'
    BY <1>1, <1>2, <1>3 DEF IInv, Owners
  <1>5. Written'
    <2> SUFFICES ASSUME NEW q \in Processes, q # p PROVE Progress(q)'
      BY DEF Written
    <2>1. CASE Stage(q) = st
      <3>1. at[q] \notin {"fill", "begin", "judge", "create", "write"}
        BY <1>1, <2>1 DEF Owns
      <3> QED BY <3>1 DEF IInv, Written, Progress
    <2>2. CASE at[q] \in {"fill", "begin", "judge", "create", "write"} /\ Stage(q) # st
      <3>1. Stage(q) \in Stages /\ Stage(q)' = Stage(q)
        BY <2>2, SeqFacts DEF IInv, TypeOK, Stage
      <3> QED BY <2>2, <3>1 DEF IInv, Written, Progress
    <2>3. CASE at[q] \notin {"fill", "begin", "judge", "create", "write"}
      BY <2>3 DEF IInv, Written, Progress
    <2> QED BY <2>1, <2>2, <2>3
  <1>6. Untouched' /\ JudgedOnce' /\ ResultNamesItsCriteria'
    BY DEF IInv, Untouched, JudgedOnce, ResultNamesItsCriteria
  <1>7. \A q \in Processes, s \in Stages : Done(q, s) => Done(q, s)'
    BY DEF Done
  <1>8. Accounted'
    <2> SUFFICES ASSUME NEW q \in Processes, at'[q] # "idle", NEW s \in Range(command'[q])
                 PROVE  s \in failed'[q] \/ s \in Range(todo'[q]) \/ Done(q, s)'
      BY DEF Accounted
    <2>1. s \in failed[q] \/ s \in Range(todo[q]) \/ Done(q, s)
      BY DEF IInv, Accounted
    <2>2. s \in Stages
      BY CommandStages DEF IInv
    <2>3. Done(q, s) => Done(q, s)'
      BY <2>2 DEF Done
    <2> QED BY <2>1, <2>3
  <1> QED BY <1>4, <1>5, <1>6, <1>8 DEF IInv

LEMMA StageOf ==
  ASSUME IInv, NEW p \in Processes, at[p] \notin {"idle", "next", "exit"}
  PROVE  todo[p] # <<>> /\ Stage(p) \in Stages
  BY SeqFacts DEF IInv, TypeOK, Stage

\* The exclusive creation: the stage was untouched, so it had no owner.
LEMMA OpenStep ==
  ASSUME IInv, NEW p \in Processes, OpenSnapshot(p)
  PROVE  IInv'
  <1>1. todo[p] # <<>> /\ Stage(p) \in Stages
    BY StageOf DEF OpenSnapshot, Move
  <1>2. TypeOK'
    BY <1>1 DEF IInv, TypeOK, OpenSnapshot, Move, locals
  <1>3. judged[Stage(p)] = 0 /\ result[Stage(p)] = NoFile /\ text[p] \in Texts /\ NoFile \notin Results
    BY <1>1, StageAssumption DEF IInv, Untouched, Written, Progress, OpenSnapshot, Move, MayOpen
  <1>4. Progress(p)'
    BY <1>1, <1>3 DEF IInv, TypeOK, Progress, Stage, OpenSnapshot, Move, locals
  <1>5. snapshot'[Stage(p)] # NoFile
    BY <1>1, StageAssumption DEF IInv, TypeOK, OpenSnapshot
  <1>6. at[p] # "idle"
    BY DEF OpenSnapshot, Move
  <1>7. /\ snapshot[Stage(p)] = NoFile
        /\ UNCHANGED <<result, judged, todo, command, failed, text, used>>
        /\ snapshot' = [snapshot EXCEPT ![Stage(p)] = Partial]
        /\ at' = [at EXCEPT ![p] = "fill"]
    BY DEF OpenSnapshot, Move, MayOpen, locals
  <1> QED BY <1>1, <1>2, <1>3, <1>4, <1>5, <1>6, <1>7, OwnerStep DEF IInv, TypeOK

LEMMA FillStep ==
  ASSUME IInv, NEW p \in Processes, FillSnapshot(p)
  PROVE  IInv'
  <1>1. todo[p] # <<>> /\ Stage(p) \in Stages
    BY StageOf DEF FillSnapshot, Move
  <1>2. /\ judged[Stage(p)] = 0 /\ result[Stage(p)] = NoFile
        /\ text[p] \in Texts /\ NoFile \notin Results /\ NoFile \notin Texts
    BY StageAssumption DEF IInv, Written, Progress, FillSnapshot, Move
  <1>3. TypeOK'
    BY <1>1, <1>2 DEF IInv, TypeOK, FillSnapshot, Move, Filled, locals
  <1>4. Progress(p)'
    BY <1>1, <1>2 DEF IInv, TypeOK, Progress, Stage, FillSnapshot, Move, Filled, locals
  <1>5. Owns(p, Stage(p)) /\ at[p] # "idle"
    BY DEF Owns, FillSnapshot, Move
  <1>6. /\ UNCHANGED <<result, judged, todo, command, failed, text, used>>
        /\ snapshot' = [snapshot EXCEPT ![Stage(p)] = text[p]]
        /\ at' = [at EXCEPT ![p] = "begin"]
    BY DEF FillSnapshot, Move, Filled, locals
  <1>7. snapshot'[Stage(p)] # NoFile
    BY <1>1, <1>2, <1>6 DEF IInv, TypeOK
  <1> QED BY <1>1, <1>2, <1>3, <1>4, <1>5, <1>6, <1>7, OwnerStep DEF IInv, TypeOK

\* The judge reads the snapshot, which says what the process has read.
LEMMA BeginStep ==
  ASSUME IInv, NEW p \in Processes, BeginEvaluation(p)
  PROVE  IInv'
  <1>1. todo[p] # <<>> /\ Stage(p) \in Stages
    BY StageOf DEF BeginEvaluation, Move
  <1>2. /\ judged[Stage(p)] = 0 /\ result[Stage(p)] = NoFile
        /\ snapshot[Stage(p)] = text[p]
        /\ text[p] \in Texts /\ NoFile \notin Results /\ NoFile \notin Texts
    BY StageAssumption DEF IInv, Written, Progress, BeginEvaluation, Move
  <1>3. /\ judged' = [judged EXCEPT ![Stage(p)] = judged[Stage(p)] + 1]
        /\ UNCHANGED <<snapshot, result, todo, text, command, failed>>
        /\ used' = [used EXCEPT ![p] = text[p]]
        /\ at' = [at EXCEPT ![p] = "judge"]
    BY <1>2 DEF BeginEvaluation, Move, ReadByJudge, files
  <1>4. TypeOK'
    BY <1>1, <1>2, <1>3 DEF IInv, TypeOK, BeginEvaluation, files
  <1>5. Progress(p)'
    BY <1>1, <1>2, <1>3 DEF IInv, TypeOK, Progress, Stage
  <1>6. Owns(p, Stage(p)) /\ at[p] # "idle"
    BY DEF Owns, BeginEvaluation, Move
  <1>7. judged'[Stage(p)] <= 1
    BY <1>1, <1>2, <1>3 DEF IInv, TypeOK
  <1> QED BY <1>1, <1>2, <1>3, <1>4, <1>5, <1>6, <1>7, OwnerStep DEF IInv, TypeOK

\* The evaluation returns, and its result is created: nothing was there.
LEMMA CreateStep ==
  ASSUME IInv, NEW p \in Processes, EvaluationReturns(p) \/ CreateResult(p)
  PROVE  IInv'
  <1>1. at[p] \in {"judge", "create"}
    BY DEF EvaluationReturns, CreateResult, Move
  <1>2. todo[p] # <<>> /\ Stage(p) \in Stages
    BY <1>1, StageOf
  <1>3. /\ result[Stage(p)] = NoFile /\ snapshot[Stage(p)] = text[p] /\ used[p] = text[p]
        /\ text[p] \in Texts /\ {NoFile, Partial} \cap (Texts \cup Results) = {}
    BY <1>1, StageAssumption DEF IInv, Written, Progress
  <1>4. /\ UNCHANGED <<criteria, snapshot, error, judged, edits, starts, todo, text, used, command, failed>>
        /\ \/ at' = [at EXCEPT ![p] = "create"] /\ result' = result
           \/ at' = [at EXCEPT ![p] = "write"] /\ result' = [result EXCEPT ![Stage(p)] = Partial]
    BY DEF EvaluationReturns, CreateResult, Move, files, locals
  <1>5. TypeOK'
    BY <1>2, <1>4 DEF IInv, TypeOK
  <1>6. Progress(p)'
    BY <1>2, <1>3, <1>4 DEF IInv, TypeOK, Progress, Stage
  <1>7. Owns(p, Stage(p)) /\ at[p] # "idle"
    BY <1>1 DEF Owns
  <1>8. judged'[Stage(p)] <= 1 /\ snapshot'[Stage(p)] # NoFile /\ result'[Stage(p)] \notin Results
    BY <1>2, <1>3, <1>4 DEF IInv, TypeOK, JudgedOnce
  <1> QED BY <1>2, <1>3, <1>4, <1>5, <1>6, <1>7, <1>8, OwnerStep DEF IInv, TypeOK

\* The result is written, and its stage is done with.
LEMMA WriteStep ==
  ASSUME IInv, NEW p \in Processes, WriteResult(p)
  PROVE  IInv'
  <1> DEFINE st == Stage(p)
             new == [by |-> p, used |-> used[p], digest |-> text[p]]
  <1>1. at[p] = "write" /\ todo[p] # <<>> /\ st \in Stages
    BY StageOf DEF WriteResult, Move
  <1>2. /\ result[st] = Partial /\ snapshot[st] = text[p] /\ used[p] = text[p]
        /\ text[p] \in Texts /\ {NoFile, Partial} \cap (Texts \cup Results) = {}
    BY <1>1, StageAssumption DEF IInv, Written, Progress
  <1>3. /\ UNCHANGED <<criteria, snapshot, error, judged, edits, starts, command, failed>>
        /\ at' = [at EXCEPT ![p] = "next"]
        /\ result' = [result EXCEPT ![st] = new]
        /\ todo' = [todo EXCEPT ![p] = Tail(todo[p])]
        /\ text' = [text EXCEPT ![p] = NoText] /\ used' = [used EXCEPT ![p] = NoText]
    BY DEF WriteResult, Move, Forget
  <1>4. new \in Results
    BY <1>2 DEF Results
  <1>5. Tail(todo[p]) \in Seq(Stages)
        /\ \A s \in Range(todo[p]) : s = st \/ s \in Range(Tail(todo[p]))
    BY <1>1, SeqFacts DEF IInv, TypeOK, Stage
  <1> HIDE DEF st, new
  <1>6. TypeOK'
    BY <1>1, <1>3, <1>4, <1>5 DEF IInv, TypeOK
  <1>7. Owns(p, st)
    BY <1>1 DEF Owns, st
  <1>8. \A q \in Processes, s \in Stages : Owns(q, s)' => q # p /\ Owns(q, s)
    BY <1>1, <1>3 DEF IInv, TypeOK, Owns, Stage
  <1>9. Owners'
    BY <1>8 DEF IInv, Owners
  <1>10. Written'
    <2> SUFFICES ASSUME NEW q \in Processes PROVE Progress(q)'
      BY DEF Written
    <2>1. CASE q = p
      BY <1>3, <2>1 DEF IInv, TypeOK, Progress
    <2>2. CASE q # p /\ at[q] \in {"fill", "begin", "judge", "create", "write"}
      <3>1. Stage(q) \in Stages /\ Stage(q)' = Stage(q) /\ Owns(q, Stage(q))
        BY <1>3, <2>2, StageOf DEF IInv, TypeOK, Stage, Owns
      <3>2. Stage(q) # st
        BY <1>7, <2>2, <3>1 DEF IInv, Owners
      <3> QED BY <1>3, <2>2, <3>1, <3>2 DEF IInv, TypeOK, Written, Progress
    <2>3. CASE q # p /\ at[q] \notin {"fill", "begin", "judge", "create", "write"}
      BY <1>3, <2>3 DEF IInv, TypeOK, Written, Progress
    <2> QED BY <2>1, <2>2, <2>3
  <1>11. Untouched' /\ JudgedOnce'
    BY <1>2, <1>3 DEF IInv, TypeOK, Untouched, JudgedOnce
  <1>12. ResultNamesItsCriteria'
    BY <1>1, <1>2, <1>3 DEF IInv, TypeOK, ResultNamesItsCriteria, new
  <1>13. Accounted'
    <2> SUFFICES ASSUME NEW q \in Processes, at'[q] # "idle", NEW s \in Range(command'[q])
                 PROVE  s \in failed'[q] \/ s \in Range(todo'[q]) \/ Done(q, s)'
      BY DEF Accounted
    <2>1. at[q] # "idle" /\ command' = command /\ failed' = failed
      BY <1>1, <1>3 DEF IInv, TypeOK
    <2>2. s \in failed[q] \/ s \in Range(todo[q]) \/ Done(q, s)
      BY <2>1 DEF IInv, Accounted
    <2>3. s \in Stages
      BY <2>1, CommandStages DEF IInv
    <2>4. Done(q, s) => Done(q, s)'
      BY <1>2, <1>3, <2>3 DEF IInv, TypeOK, Done
    <2>5. CASE q = p
      <3>1. todo'[p] = Tail(todo[p]) /\ result'[st] \in Results /\ result'[st].by = p
        BY <1>1, <1>3, <1>4 DEF IInv, TypeOK, new
      <3>2. s \in Range(todo[p]) => s = st \/ s \in Range(todo'[p])
        BY <1>5, <3>1
      <3> QED BY <2>1, <2>2, <2>4, <2>5, <3>1, <3>2 DEF Done
    <2>6. CASE q # p
      <3>1. todo'[q] = todo[q]
        BY <1>3, <2>6 DEF IInv, TypeOK
      <3> QED BY <2>1, <2>2, <2>4, <3>1
    <2> QED BY <2>5, <2>6
  <1> QED BY <1>6, <1>9, <1>10, <1>11, <1>12, <1>13 DEF IInv

-----------------------------------------------------------------------------
LEMMA StutterStep ==
  ASSUME IInv, UNCHANGED vars
  PROVE  IInv'
  <1>1. TypeOK' /\ Owners' /\ Untouched' /\ JudgedOnce' /\ ResultNamesItsCriteria'
    BY DEF IInv, TypeOK, Owners, Owns, Stage, Untouched, JudgedOnce, ResultNamesItsCriteria,
           vars, files, locals
  <1>2. Written' /\ Accounted'
    BY DEF IInv, Written, Progress, Stage, Accounted, Done, vars, files, locals
  <1> QED BY <1>1, <1>2 DEF IInv

LEMMA Inductive == IInv /\ [Next]_vars => IInv'
  <1> SUFFICES ASSUME IInv, [Next]_vars PROVE IInv'
    OBVIOUS
  <1>1. CASE \E s \in Stages, t \in Texts : Edit(s, t)
    BY <1>1, EditStep
  <1>2. ASSUME NEW p \in Processes, Step(p) PROVE IInv'
    <2>1. CASE AllDone(p) \/ NoResultYet(p) \/ Load(p) \/ SnapshotExists(p) \/ Raises(p)
      BY <2>1, LocalStep
    <2>2. CASE ResultExists(p) \/ WriteError(p) \/ WriteFails(p)
      BY <2>2, FailureStep
    <2>3. CASE OpenSnapshot(p)
      BY <2>3, OpenStep
    <2>4. CASE FillSnapshot(p)
      BY <2>4, FillStep
    <2>5. CASE BeginEvaluation(p)
      BY <2>5, BeginStep
    <2>6. CASE EvaluationReturns(p) \/ CreateResult(p)
      BY <2>6, CreateStep
    <2>7. CASE WriteResult(p)
      BY <2>7, WriteStep
    <2> QED BY <1>2, <2>1, <2>2, <2>3, <2>4, <2>5, <2>6, <2>7 DEF Step
  <1>3. CASE \E p \in Processes : Kill(p)
    BY <1>3, KillStep
  <1>4. CASE \E p \in Processes, c \in Commands : Start(p, c)
    BY <1>4, StartStep
  <1>5. CASE Terminated \/ UNCHANGED vars
    BY <1>5, StutterStep DEF Terminated
  <1> QED BY <1>1, <1>2, <1>3, <1>4, <1>5 DEF Next

\* The inductive invariant holds of every use of an output directory.
THEOREM Invariance == Spec => []IInv
  BY InitIInv, Inductive, PTL DEF Spec

\* TypeOK: the files and the processes stay well typed.
THEOREM TypeCorrect == Spec => []TypeOK
  <1>1. IInv => TypeOK
    BY DEF IInv
  <1> QED BY <1>1, Invariance, PTL

\* ResultStands: a result comes of the only evaluation of its stage.
THEOREM ResultsStand == Spec => []ResultStands
  <1>1. IInv => ResultStands
    BY DEF IInv, ResultStands
  <1> QED BY <1>1, Invariance, PTL

\* ExitCodeIsHonest: a command that exits answers for every stage.
THEOREM ExitCodesAreHonest == Spec => []ExitCodeIsHonest
  <1>1. ASSUME IInv, NEW p \in Processes, at[p] = "exit", NEW s \in Range(command[p]) \ failed[p]
        PROVE  result[s] \in Results /\ result[s].by = p
    <2>1. todo[p] = <<>>
      BY <1>1 DEF IInv, Written, Progress
    <2> QED BY <1>1, <2>1, EmptyRange DEF IInv, Accounted, Done
  <1>2. IInv => ExitCodeIsHonest
    BY <1>1 DEF ExitCodeIsHonest
  <1> QED BY <1>2, Invariance, PTL

-----------------------------------------------------------------------------
\* A step that changes what is known of a stage is one of its owner, or the
\* exclusive creation of its snapshot.
LEMMA OnlyOwners ==
  ASSUME IInv, [Next]_vars, NEW s \in Stages
  PROVE  /\ result'[s] # result[s] => result[s] \notin Results /\ \E p \in Processes : Owns(p, s)
         /\ snapshot[s] # NoFile => snapshot'[s] # NoFile
         /\ \A p \in Processes : Owns(p, s)' => Owns(p, s) \/ snapshot[s] = NoFile
  <1> DEFINE Goal ==
        /\ result'[s] # result[s] => result[s] \notin Results /\ \E p \in Processes : Owns(p, s)
        /\ snapshot[s] # NoFile => snapshot'[s] # NoFile
        /\ \A p \in Processes : Owns(p, s)' => Owns(p, s) \/ snapshot[s] = NoFile
  <1>1. ASSUME NEW p \in Processes,
               ResultExists(p) \/ WriteError(p) \/ WriteFails(p) \/ AllDone(p) \/ NoResultYet(p)
                 \/ Load(p) \/ SnapshotExists(p) \/ Raises(p) \/ Kill(p) \/ \E c \in Commands : Start(p, c)
        PROVE  Goal
    <2>1. /\ UNCHANGED <<snapshot, result>>
          /\ at'[p] \in {"idle", "next", "load", "snapshot", "raise", "exit"}
          /\ \A q \in Processes \ {p} : at'[q] = at[q] /\ todo'[q] = todo[q]
      BY <1>1 DEF IInv, TypeOK, ResultExists, WriteError, WriteFails, AllDone, NoResultYet, Load,
                  SnapshotExists, Raises, Kill, Start, FailStage, Move, files, locals
    <2> QED BY <2>1 DEF Owns, Stage
  <1>2. ASSUME NEW p \in Processes, OpenSnapshot(p) PROVE Goal
    <2>1. /\ UNCHANGED <<result, todo>>
          /\ snapshot[Stage(p)] = NoFile /\ snapshot' = [snapshot EXCEPT ![Stage(p)] = Partial]
          /\ \A q \in Processes \ {p} : at'[q] = at[q]
      BY <1>2 DEF IInv, TypeOK, OpenSnapshot, Move, MayOpen, locals
    <2> QED BY <2>1, StageAssumption DEF IInv, TypeOK, Owns, Stage
  <1>3. ASSUME NEW p \in Processes, FillSnapshot(p) PROVE Goal
    <2>1. /\ UNCHANGED <<result, todo>>
          /\ at[p] = "fill" /\ snapshot' = [snapshot EXCEPT ![Stage(p)] = text[p]]
          /\ \A q \in Processes \ {p} : at'[q] = at[q]
      BY <1>3 DEF IInv, TypeOK, FillSnapshot, Move, Filled, locals
    <2>2. text[p] \in Texts /\ text[p] # NoFile
      BY <2>1, StageAssumption DEF IInv, Written, Progress
    <2> QED BY <2>1, <2>2 DEF IInv, TypeOK, Owns, Stage
  <1>4. ASSUME NEW p \in Processes, BeginEvaluation(p) \/ EvaluationReturns(p) PROVE Goal
    <2>1. /\ UNCHANGED <<snapshot, result, todo>> /\ at[p] \in {"begin", "judge"}
          /\ \A q \in Processes \ {p} : at'[q] = at[q]
      BY <1>4 DEF IInv, TypeOK, BeginEvaluation, EvaluationReturns, Move, files, locals
    <2> QED BY <2>1 DEF Owns, Stage
  <1>5. ASSUME NEW p \in Processes, CreateResult(p) PROVE Goal
    <2>1. /\ UNCHANGED <<snapshot, todo>>
          /\ at[p] = "create" /\ result' = [result EXCEPT ![Stage(p)] = Partial]
          /\ \A q \in Processes \ {p} : at'[q] = at[q]
      BY <1>5 DEF IInv, TypeOK, CreateResult, Move, locals
    <2>2. result[Stage(p)] \notin Results
      BY <2>1, StageAssumption DEF IInv, Written, Progress
    <2> QED BY <2>1, <2>2 DEF IInv, TypeOK, Owns, Stage
  <1>6. ASSUME NEW p \in Processes, WriteResult(p) PROVE Goal
    <2>1. /\ UNCHANGED snapshot
          /\ at[p] = "write" /\ at'[p] = "next"
          /\ \A t \in Stages \ {Stage(p)} : result'[t] = result[t]
          /\ \A q \in Processes \ {p} : at'[q] = at[q] /\ todo'[q] = todo[q]
      BY <1>6 DEF IInv, TypeOK, WriteResult, Move
    <2>2. result[Stage(p)] \notin Results
      BY <2>1, StageAssumption DEF IInv, Written, Progress
    <2> QED BY <2>1, <2>2 DEF Owns, Stage
  <1>7. ASSUME NEW t \in Stages, NEW x \in Texts, Edit(t, x) PROVE Goal
    BY <1>7 DEF Edit, locals, Owns, Stage
  <1>8. ASSUME Terminated \/ UNCHANGED vars PROVE Goal
    <2>1. UNCHANGED <<snapshot, result, at, todo>>
      BY <1>8 DEF Terminated, vars, files
    <2> QED BY <2>1 DEF Owns, Stage
  <1> HIDE DEF Goal
  <1>9. ASSUME NEW p \in Processes, Step(p) PROVE Goal
    BY <1>9, <1>1, <1>2, <1>3, <1>4, <1>5, <1>6 DEF Step
  <1>10. ASSUME NEW p \in Processes, Kill(p) \/ \E c \in Commands : Start(p, c) PROVE Goal
    BY <1>1, <1>10
  <1>11. ASSUME Next PROVE Goal
    BY <1>7, <1>8, <1>9, <1>10, <1>11 DEF Next
  <1>12. Goal
    BY <1>8, <1>11
  <1> QED BY <1>12 DEF Goal

\* OutcomeIsFinal: neither a result nor a failure is ever undone.
THEOREM OutcomesAreFinal == Spec => OutcomeIsFinal
  <1>1. IInv /\ [Next]_vars => \A s \in Stages : result[s] \in Results => result'[s] = result[s]
    BY OnlyOwners
  <1>2. IInv /\ [Next]_vars => \A s \in Stages : Abandoned(s) => Abandoned(s)'
    <2> SUFFICES ASSUME IInv, [Next]_vars, NEW s \in Stages, Abandoned(s) PROVE Abandoned(s)'
      OBVIOUS
    <2>1. snapshot[s] # NoFile /\ result[s] \notin Results /\ \A p \in Processes : ~Owns(p, s)
      BY DEF Abandoned
    <2>2. /\ snapshot'[s] # NoFile /\ result'[s] = result[s]
          /\ \A p \in Processes : ~Owns(p, s)'
      BY <2>1, OnlyOwners
    <2> QED BY <2>1, <2>2 DEF Abandoned
  <1>3. Spec => ResultIsFinal
    <2>1. IInv /\ [Next]_vars => [\A s \in Stages : result[s] \in Results => result'[s] = result[s]]_vars
      BY <1>1
    <2> QED BY <2>1, Invariance, PTL DEF Spec, ResultIsFinal
  <1>4. Spec => FailedForGood
    <2>1. IInv /\ [Next]_vars => [\A s \in Stages : Abandoned(s) => Abandoned(s)']_vars
      BY <1>2
    <2> QED BY <2>1, Invariance, PTL DEF Spec, FailedForGood
  <1> QED BY <1>3, <1>4 DEF OutcomeIsFinal
=============================================================================
