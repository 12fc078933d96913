------------------------ MODULE MachineService_proofs ------------------------
(***************************************************************************)
(* What the service guarantees for every number of threads, calls and      *)
(* failed writes: who holds which mutex at which step, that no threads     *)
(* wait for each other, that a job's resources live as long as it does,    *)
(* that a cutting job and a test fire exclude each other, that every job   *)
(* has a thread that drives it, and that a job is never started after the  *)
(* stop or on a connection that came since it was asked for.               *)
(***************************************************************************)
EXTENDS MachineService, SequenceTheorems, TLAPS

-----------------------------------------------------------------------------
(* The steps of an operation.                                              *)

\* The steps a thread of each kind takes.
StepsOf(t) ==
  IF t \in Loop THEN {"tick_job", "tick", "drop", "cleanup", "vacate", "recheck", "spawn"}
  ELSE IF t \in Deadman THEN {"watch", "mark", "m5", "take"}
  ELSE Step \ {"watch", "vacate", "recheck"}

\* What may come after each step of a program; "return" is the end of it.
Follows(t) ==
  [start_job |-> {"start_fire", "frame_send"}, start_fire |-> {"start_plan"},
   start_plan |-> {"start_send"}, start_send |-> {"return"}, frame_send |-> {"return"},
   tick_job |-> {"tick"},
   tick |-> IF t \in Loop THEN {"return"} ELSE {"refresh"},
   drop |-> IF t \in Loop THEN {"cleanup", "vacate"} ELSE {"cleanup", "refresh", "return"},
   cleanup |-> IF t \in Loop THEN {"vacate"} ELSE {"refresh"},
   recheck |-> {"return"}, refresh |-> {"moving"},
   cancel_job |-> {"cancel"}, cancel |-> {"return"},
   disc_gate |-> {"mark"}, disc_job |-> {"disc_session"},
   disc_session |-> {"disc_fire"}, disc_fire |-> {"return"},
   conn_gate |-> {"conn_check"}, conn_check |-> {"conn_open"}, conn_open |-> {"return"},
   stop |-> {"stop_job"}, stop_job |-> {"return"},
   fire_job |-> {"fire_arm"}, fire_arm |-> {"fire_send"}, fire_send |-> {"return"},
   release |-> {"return"}, watch |-> {"return"},
   mark |-> {"start_job", "disc_job", "stop", "return"},
   m5 |-> {"take"},
   take |-> {"start_job", "disc_job", "stop", "return"},
   home_job |-> {"move_fire"}, move_fire |-> {"move"}, move |-> {"return"},
   bump |-> {"mark"}, spawn |-> {"return"}, vacate |-> {"recheck"}, moving |-> {"return"}]

\* The step a sequence of steps begins with.
NextStep(q) == IF q = <<>> THEN "return" ELSE Head(q)

\* A sequence of steps that a thread can have ahead of it.
Shaped(t, q) ==
  /\ q \in Seq(StepsOf(t))
  /\ \A i \in DOMAIN q :
       (IF i = Len(q) THEN "return" ELSE q[i + 1]) \in Follows(t)[q[i]]

\* Every thread is somewhere in one of the service's programs.
InProgram == \A t \in Thread : Shaped(t, todo[t])

Now(t) == NextStep(todo[t])

\* The steps of each kind of thread are steps.
LEMMA StepsAreSteps == \A t : StepsOf(t) \subseteq Step /\ "return" \notin Step
  BY DEF StepsOf, Step, Wants

\* What is left of a program after a step follows that step.
LEMMA ShapedTail ==
  ASSUME NEW t, NEW q, Shaped(t, q), q # <<>>
  PROVE  /\ Shaped(t, Tail(q))
         /\ NextStep(Tail(q)) \in Follows(t)[Head(q)]
         /\ Head(q) \in StepsOf(t)
<1> DEFINE S == StepsOf(t)
<1>0. q \in Seq(S) /\ q # <<>>
  BY DEF Shaped
<1> HIDE DEF S
<1>1. /\ Tail(q) \in Seq(S) /\ Head(q) \in S /\ Head(q) = q[1]
      /\ Len(q) \in Nat \ {0} /\ Len(Tail(q)) = Len(q) - 1
      /\ \A i \in 1..(Len(q) - 1) : Tail(q)[i] = q[i + 1]
      /\ DOMAIN Tail(q) = 1..(Len(q) - 1) /\ DOMAIN q = 1..Len(q)
  BY <1>0
<1>2. \A i \in DOMAIN Tail(q) :
        (IF i = Len(Tail(q)) THEN "return" ELSE Tail(q)[i + 1]) \in Follows(t)[Tail(q)[i]]
  <2> SUFFICES ASSUME NEW i \in 1..(Len(q) - 1)
               PROVE  (IF i = Len(Tail(q)) THEN "return" ELSE Tail(q)[i + 1])
                        \in Follows(t)[Tail(q)[i]]
    BY <1>1
  <2>1. i + 1 \in DOMAIN q /\ Tail(q)[i] = q[i + 1]
    BY <1>1
  <2>2. (IF i + 1 = Len(q) THEN "return" ELSE q[i + 1 + 1]) \in Follows(t)[q[i + 1]]
    BY <2>1 DEF Shaped
  <2>3. CASE i = Len(Tail(q))
    BY <1>1, <2>1, <2>2, <2>3
  <2>4. CASE i # Len(Tail(q))
    <3>1. PICK n \in Nat : n = Len(q)
      BY <1>1
    <3>2. Len(Tail(q)) = n - 1 /\ i \in 1..(n - 1) /\ i # n - 1
      BY <1>1, <2>4, <3>1
    <3>3. i + 1 \in 1..(n - 1) /\ i + 1 # n
      BY <3>2
    <3>4. Tail(q)[i + 1] = q[i + 1 + 1]
      BY <1>1, <3>1, <3>3
    <3> QED
      BY <2>1, <2>2, <2>4, <3>1, <3>3, <3>4
  <2> QED
    BY <2>3, <2>4
<1>3. NextStep(Tail(q)) \in Follows(t)[Head(q)]
  <2>1. (IF 1 = Len(q) THEN "return" ELSE q[1 + 1]) \in Follows(t)[q[1]]
    BY <1>1 DEF Shaped
  <2>2. CASE Len(q) = 1
    <3>1. Tail(q) = <<>>
      BY <1>0, <1>1, <2>2
    <3> QED
      BY <1>1, <2>1, <2>2, <3>1 DEF NextStep
  <2>3. CASE Len(q) # 1
    <3>0. PICK n \in Nat : n = Len(q) /\ n # 0 /\ n # 1
      BY <1>1, <2>3
    <3>a. Tail(q) \in Seq(S) /\ Len(Tail(q)) = n - 1 /\ n - 1 # 0 /\ 1 \in 1..(n - 1)
      BY <1>1, <3>0
    <3>b. Tail(q)[1] = q[1 + 1]
      BY <1>1, <3>0, <3>a
    <3>1. Tail(q) # <<>> /\ Head(Tail(q)) = q[1 + 1]
      <4> DEFINE r == Tail(q)
      <4> r \in Seq(S) /\ Len(r) = n - 1 /\ n - 1 # 0 /\ r[1] = q[1 + 1]
        BY <3>a, <3>b
      <4> HIDE DEF r
      <4>1. r # <<>>
        OBVIOUS
      <4>2. Head(r) = r[1]
        BY <4>1
      <4> QED
        BY <4>1, <4>2 DEF r
    <3> QED
      BY <1>1, <2>1, <2>3, <3>1 DEF NextStep
  <2> QED
    BY <2>2, <2>3
<1> QED
  BY <1>1, <1>2, <1>3 DEF Shaped, S

\* A step that may be followed by the first one of a program can be put before it.
LEMMA ShapedCons ==
  ASSUME NEW t, NEW s \in StepsOf(t), NEW q, Shaped(t, q), NextStep(q) \in Follows(t)[s]
  PROVE  Shaped(t, <<s>> \o q) /\ NextStep(<<s>> \o q) = s /\ Tail(<<s>> \o q) = q
<1> DEFINE S == StepsOf(t)
<1>0. q \in Seq(S) /\ s \in S
  BY DEF Shaped
<1> HIDE DEF S
<1> DEFINE r == <<s>> \o q
<1>1. /\ r \in Seq(S) /\ Len(r) = Len(q) + 1 /\ Len(q) \in Nat
      /\ DOMAIN r = 1..(Len(q) + 1) /\ DOMAIN q = 1..Len(q)
      /\ r[1] = s
      /\ \A i \in 1..Len(q) : r[i + 1] = q[i]
      /\ r # <<>> /\ Head(r) = s /\ Tail(r) = q
  BY <1>0
<1>4. q # <<>> => Head(q) = q[1] /\ Len(q) # 0
  BY <1>0
<1>5. q = <<>> => Len(q) = 0
  BY <1>0
<1> HIDE DEF r
<1>2. \A i \in DOMAIN r : (IF i = Len(r) THEN "return" ELSE r[i + 1]) \in Follows(t)[r[i]]
  <2> SUFFICES ASSUME NEW i \in 1..(Len(q) + 1)
               PROVE  (IF i = Len(r) THEN "return" ELSE r[i + 1]) \in Follows(t)[r[i]]
    BY <1>1
  <2>1. CASE i = 1
    BY <1>1, <1>4, <1>5, <2>1 DEF NextStep
  <2>2. CASE i # 1
    <3> DEFINE j == i - 1
    <3>1. j \in 1..Len(q) /\ i = j + 1 /\ r[i] = q[j]
      BY <1>1, <2>2
    <3>2. (IF j = Len(q) THEN "return" ELSE q[j + 1]) \in Follows(t)[q[j]]
      BY <1>1, <3>1 DEF Shaped
    <3> HIDE DEF j
    <3>3. CASE j = Len(q)
      <4>1. i = Len(r)
        BY <1>1, <3>1, <3>3
      <4> QED
        BY <3>1, <3>2, <3>3, <4>1
    <3>4. CASE j # Len(q)
      <4>1. i # Len(r)
        BY <1>1, <3>1, <3>4
      <4>2. i \in 1..Len(q)
        <5>1. PICK n \in Nat : n = Len(q)
          BY <1>1
        <5>2. j \in 1..n /\ j # n /\ i = j + 1
          BY <3>1, <3>4, <5>1
        <5>3. i \in 1..n
          BY <5>2
        <5> QED
          BY <5>1, <5>3
      <4>3. r[i + 1] = q[i] /\ i = j + 1
        BY <1>1, <3>1, <4>2
      <4> QED
        BY <3>1, <3>2, <3>4, <4>1, <4>3
    <3> QED
      BY <3>3, <3>4
  <2> QED
    BY <2>1, <2>2
<1> QED
  BY <1>1, <1>2 DEF Shaped, S, NextStep, r

\* A program with nothing left, and programs of one step.
LEMMA ShapedShort ==
  ASSUME NEW t
  PROVE  /\ Shaped(t, <<>>)
         /\ \A s \in StepsOf(t) : "return" \in Follows(t)[s] => Shaped(t, <<s>>)
         /\ \A s \in StepsOf(t), r \in StepsOf(t) :
              r \in Follows(t)[s] /\ "return" \in Follows(t)[r] => Shaped(t, <<s, r>>)
<1> DEFINE S == StepsOf(t)
           F == Follows(t)
<1> HIDE DEF S, F
<1>1. <<>> \in Seq(S) /\ DOMAIN <<>> = {}
  OBVIOUS
<1>2. \A s \in S : <<s>> \in Seq(S) /\ Len(<<s>>) = 1 /\ <<s>>[1] = s /\ DOMAIN <<s>> = {1}
  OBVIOUS
<1>3. ASSUME NEW s \in S, NEW r \in S
      PROVE  LET q == <<s, r>> IN
             /\ q \in Seq(S) /\ Len(q) = 2 /\ q[1] = s /\ q[2] = r /\ DOMAIN q = {1, 2}
  OBVIOUS
<1>4. ASSUME NEW s \in S, NEW r \in S, r \in F[s], "return" \in F[r]
      PROVE  \A i \in DOMAIN <<s, r>> :
               (IF i = Len(<<s, r>>) THEN "return" ELSE <<s, r>>[i + 1]) \in F[<<s, r>>[i]]
  BY <1>3, <1>4
<1>5. \A s \in S : "return" \in F[s] =>
        \A i \in DOMAIN <<s>> :
          (IF i = Len(<<s>>) THEN "return" ELSE <<s>>[i + 1]) \in F[<<s>>[i]]
  BY <1>2
<1> QED
  BY <1>1, <1>2, <1>3, <1>4, <1>5 DEF Shaped, S, F

\* Two steps put before a program are put there one by one.
LEMMA TwoBefore ==
  ASSUME NEW S, NEW q \in Seq(S), NEW a \in S, NEW b \in S
  PROVE  /\ <<a, b>> \o q = <<a>> \o (<<b>> \o q)
         /\ <<>> \o q = q
<1>1. <<a>> \in Seq(S) /\ <<b>> \in Seq(S)
  OBVIOUS
<1>3. <<a, b>> = <<a>> \o <<b>>
  <2> DEFINE r == <<a>> \o <<b>>
  <2>1. /\ r \in Seq(S) /\ Len(r) = 2 /\ r[1] = a /\ r[2] = b
    BY <1>1, ConcatProperties
  <2>2. /\ <<a, b>> \in Seq(S) /\ Len(<<a, b>>) = 2 /\ <<a, b>>[1] = a /\ <<a, b>>[2] = b
    OBVIOUS
  <2> HIDE DEF r
  <2>3. \A i \in 1..Len(r) : <<a, b>>[i] = r[i]
    BY <2>1, <2>2
  <2>4. <<a, b>> = r
    BY <2>1, <2>2, <2>3, SeqEqual
  <2> QED
    BY <2>4 DEF r
<1>4. <<>> \o q = q
  BY ConcatEmptySeq
<1>2. (<<a>> \o <<b>>) \o q = <<a>> \o (<<b>> \o q)
  BY <1>1, ConcatAssociative
<1> QED
  BY <1>2, <1>3, <1>4

ShapeInv == todo \in [Thread -> Seq(Step)] /\ InProgram

\* The other threads: one that rests may be given the fire to watch, or the tick
\* loop.
Elsewhere(t) ==
  \A u \in Thread \ {t} :
    \/ todo'[u] = todo[u]
    \/ u \in Deadman /\ todo[u] = <<>> /\ todo'[u] = <<"watch">>
    \/ u \in Loop /\ todo[u] = <<>> /\ todo'[u] = <<"tick_job", "tick">>

\* A thread goes on with a program.
LEMMA Goes1 ==
  ASSUME NEW t \in Thread, NEW q, ShapeInv, Shaped(t, q), Goto(t, q)
  PROVE  ShapeInv' /\ Elsewhere(t) /\ todo'[t] = q /\ Now(t)' = NextStep(q)
<1>1. q \in Seq(Step)
  BY StepsAreSteps DEF Shaped
<1>2. /\ todo' \in [Thread -> Seq(Step)]
      /\ todo'[t] = q
      /\ \A u \in Thread \ {t} : todo'[u] = todo[u]
  BY <1>1 DEF Goto, ShapeInv
<1>3. \A u \in Thread : Shaped(u, todo'[u])
  BY <1>2 DEF ShapeInv, InProgram
<1> QED
  BY <1>2, <1>3 DEF ShapeInv, InProgram, Elsewhere, Now

\* A thread goes on with the rest of its program.
LEMMA Proceeds ==
  ASSUME NEW t \in Thread, ShapeInv, todo[t] # <<>>, Proceed(t)
  PROVE  /\ ShapeInv' /\ Elsewhere(t) /\ todo'[t] = Rest(t)
         /\ Now(t)' = NextStep(Rest(t)) /\ Now(t)' \in Follows(t)[Now(t)]
         /\ Now(t) \in StepsOf(t)
<1>1. /\ Shaped(t, Rest(t)) /\ NextStep(Rest(t)) \in Follows(t)[Now(t)]
      /\ Now(t) \in StepsOf(t)
  BY ShapedTail DEF ShapeInv, InProgram, Rest, Now, NextStep
<1> QED
  BY <1>1, Goes1 DEF Proceed

\* The programs users call are programs of theirs.
LEMMA ProgramsShaped ==
  ASSUME NEW t \in User, NEW op \in DOMAIN Program
  PROVE  /\ Shaped(t, Program[op])
         /\ Program[op] # <<>>
         /\ Program["home"] = <<"home_job", "move_fire", "move">>
         /\ NextStep(Program[op]) \in
              {"mark", "tick_job", "cancel_job", "conn_gate", "disc_gate", "bump",
               "fire_job", "release", "home_job", "move_fire"}
         /\ NextStep(Program[op]) = "move_fire" => op = "jog"
         /\ NextStep(Program[op]) = "disc_gate"
              => NextStep(Tail(Tail(Program[op]))) = "disc_job"
<1>1. /\ DOMAIN Program = {"start", "frame", "status", "cancel", "connect", "disconnect",
                           "estop", "fire", "release", "home", "jog"}
      /\ t \notin Loop /\ t \notin Deadman
  BY ThreadAssumption DEF Program
<1> USE DEF Shaped, Follows, StepsOf, Step, Wants, NextStep
<1>2. CASE op = "start"
  <2>1. Program[op] = <<"mark", "start_job", "start_fire", "start_plan", "start_send">>
    BY <1>2 DEF Program
  <2> QED
    BY <1>1, <2>1, <1>2 DEF Program
<1>3. CASE op = "frame"
  <2>1. Program[op] = <<"mark", "start_job", "frame_send">>
    BY <1>3 DEF Program
  <2> QED
    BY <1>1, <2>1, <1>3 DEF Program
<1>4. CASE op = "status"
  <2>1. Program[op] = <<"tick_job", "tick", "refresh", "moving">>
    BY <1>4 DEF Program
  <2> QED
    BY <1>1, <2>1, <1>4 DEF Program
<1>5. CASE op = "cancel"
  <2>1. Program[op] = <<"cancel_job", "cancel">>
    BY <1>5 DEF Program
  <2> QED
    BY <1>1, <2>1, <1>5 DEF Program
<1>6. CASE op = "connect"
  <2>1. Program[op] = <<"conn_gate", "conn_check", "conn_open">>
    BY <1>6 DEF Program
  <2> QED
    BY <1>1, <2>1, <1>6 DEF Program
<1>7. CASE op = "disconnect"
  <2>1. Program[op] = <<"disc_gate", "mark", "disc_job", "disc_session", "disc_fire">>
    BY <1>7 DEF Program
  <2> QED
    BY <1>1, <2>1, <1>7 DEF Program
<1>8. CASE op = "estop"
  <2>1. Program[op] = <<"bump", "mark", "stop", "stop_job">>
    BY <1>8 DEF Program
  <2> QED
    BY <1>1, <2>1, <1>8 DEF Program
<1>9. CASE op = "fire"
  <2>1. Program[op] = <<"fire_job", "fire_arm", "fire_send">>
    BY <1>9 DEF Program
  <2> QED
    BY <1>1, <2>1, <1>9 DEF Program
<1>10. CASE op = "release"
  <2>1. Program[op] = <<"release">>
    BY <1>10 DEF Program
  <2> QED
    BY <1>1, <2>1, <1>10 DEF Program
<1>11. CASE op = "home"
  <2>1. Program[op] = <<"home_job", "move_fire", "move">>
    BY <1>11 DEF Program
  <2> QED
    BY <1>1, <2>1, <1>11 DEF Program
<1>12. CASE op = "jog"
  <2>1. Program[op] = <<"move_fire", "move">>
    BY <1>12 DEF Program
  <2> QED
    BY <1>1, <2>1, <1>12 DEF Program
<1> QED
  BY <1>1, <1>2, <1>3, <1>4, <1>5, <1>6, <1>7, <1>8, <1>9, <1>10, <1>11, <1>12

-----------------------------------------------------------------------------
(* What a step does with the mutexes.                                      *)

\* The mutex a step acquires and keeps.
Keeps ==
  [start_job |-> "job", tick_job |-> "job", cancel_job |-> "job",
   conn_gate |-> "gate", disc_gate |-> "gate", disc_job |-> "job",
   disc_session |-> "session", fire_job |-> "job", fire_arm |-> "fire",
   home_job |-> "job", move_fire |-> "fire"]

\* The steps that release every mutex of the thread and do not end its program.
Lets == {"start_send", "frame_send", "tick"}

\* Where the steps lead that leave the owners of the mutexes as they are.
Goes ==
  [mark |-> {"m5", "start_job", "disc_job", "stop", "return"},
   m5 |-> {"take", "watch", "disc_job", "stop", "return"},
   take |-> {"start_job", "disc_job", "stop", "return"},
   start_fire |-> {"start_plan"}, start_plan |-> {"start_send"},
   drop |-> {"cleanup", "vacate", "refresh", "return"},
   cleanup |-> {"vacate", "refresh"}, recheck |-> {"spawn", "return"},
   refresh |-> {"drop", "moving", "return"},
   conn_check |-> {"conn_open"}, conn_open |-> {"home_job"},
   stop |-> {"stop_job", "return"}, stop_job |-> {"return"},
   release |-> {"mark", "return"}, watch |-> {"mark", "return"},
   bump |-> {"mark"}, spawn |-> {"tick_job", "return"},
   vacate |-> {"recheck"}, moving |-> {"mark", "return"}]

Called(t) ==
  /\ t \in User /\ todo[t] = <<>> /\ owner' = owner
  /\ \E op \in Ops : todo'[t] = Program[op]

Effect(t) ==
  \/ Called(t)
  \/ todo[t] # <<>> /\ Now(t)' = "return" /\ ReleaseAll(t)
  \/ /\ Now(t) \in DOMAIN Keeps /\ Hold(t, Keeps[Now(t)])
     /\ Now(t)' \in Follows(t)[Now(t)]
  \/ /\ Now(t) \in Lets /\ ReleaseAll(t)
     /\ Now(t)' \in {"spawn", "drop", "refresh", "moving", "tick_job", "vacate"}
  \/ Now(t) \in DOMAIN Goes /\ owner' = owner /\ Now(t)' \in Goes[Now(t)]

\* What a step leaves of the disconnect after it, which stops a test fire first.
Stops(t) ==
  /\ Now(t)' = "disc_gate" => (NextStep(Tail(Rest(t))) = "disc_job")'
  /\ Now(t) = "disc_gate" => NextStep(Rest(t))' = NextStep(Tail(Rest(t)))
  /\ Now(t) = "mark" =>
       \/ Now(t)' = "m5" /\ NextStep(Tail(Rest(t)))' = NextStep(Rest(t))
       \/ Now(t)' = NextStep(Rest(t))
  /\ Now(t) = "m5" =>
       \/ Now(t)' = "take" /\ NextStep(Rest(t))' = NextStep(Tail(Rest(t)))
       \/ NextStep(Tail(Rest(t))) = "disc_job" => Now(t)' = "disc_job"
  /\ Now(t) = "take" => Now(t)' = NextStep(Rest(t))

Moved(t) == ShapeInv' /\ Elsewhere(t) /\ Effect(t) /\ Stops(t)

\* The step a thread is at.
LEMMA AtNow ==
  ASSUME NEW t, NEW s \in Step
  PROVE  At(t, s) <=> todo[t] # <<>> /\ Now(t) = s
  BY StepsAreSteps DEF At, Now, NextStep

StopSteps == {"disc_gate", "mark", "m5", "take"}

\* A step that ends an operation.
LEMMA MovedReturn ==
  ASSUME NEW t \in Thread, ShapeInv, todo[t] # <<>>, Now(t) \notin StopSteps, Return(t)
  PROVE  Moved(t) /\ Now(t)' = "return"
<1>1. ShapeInv' /\ Elsewhere(t) /\ Now(t)' = "return"
  BY ShapedShort, Goes1 DEF Return, NextStep
<1> QED
  BY <1>1 DEF Moved, Effect, Return, Stops, StopSteps

\* A step that keeps the mutex it begins by acquiring.
LEMMA MovedKeep ==
  ASSUME NEW t \in Thread, ShapeInv, todo[t] # <<>>, Proceed(t),
         Now(t) \in DOMAIN Keeps, Hold(t, Keeps[Now(t)])
  PROVE  Moved(t)
<1>1. /\ ShapeInv' /\ Elsewhere(t) /\ todo'[t] = Rest(t)
      /\ Now(t)' \in Follows(t)[Now(t)]
  BY Proceeds
<1>2. Now(t)' # "disc_gate"
  BY <1>1 DEF Keeps, Follows
<1>3. Now(t) = "disc_gate" => NextStep(Rest(t))' = NextStep(Tail(Rest(t)))
  BY <1>1 DEF Rest
<1>4. Now(t) \notin {"mark", "m5", "take"}
  BY DEF Keeps
<1> QED
  BY <1>1, <1>2, <1>3, <1>4 DEF Moved, Effect, Stops

\* A step that leaves the owners of the mutexes as they are.
LEMMA MovedTo ==
  ASSUME NEW t \in Thread, ShapeInv, todo[t] # <<>>, Now(t) \notin StopSteps,
         UNCHANGED owner, NEW q, Goto(t, q), Shaped(t, q),
         Now(t) \in DOMAIN Goes, NextStep(q) \in Goes[Now(t)]
  PROVE  Moved(t) /\ Now(t)' = NextStep(q)
<1>1. ShapeInv' /\ Elsewhere(t) /\ Now(t)' = NextStep(q)
  BY Goes1
<1>2. Now(t)' # "disc_gate"
  BY <1>1 DEF Goes
<1> QED
  BY <1>1, <1>2 DEF Moved, Effect, Stops, StopSteps

\* A step after which the thread goes on with its program, mutexes as they are.
LEMMA MovedOn ==
  ASSUME NEW t \in Thread, ShapeInv, todo[t] # <<>>, Now(t) \notin StopSteps,
         UNCHANGED owner, Proceed(t), Now(t) \in DOMAIN Goes, Now(t) # "conn_open"
  PROVE  Moved(t) /\ Now(t)' \in Follows(t)[Now(t)]
<1>1. /\ Shaped(t, Rest(t)) /\ NextStep(Rest(t)) \in Follows(t)[Now(t)]
      /\ Now(t) \in StepsOf(t)
  BY ShapedTail DEF ShapeInv, InProgram, Rest, Now, NextStep
<1>2. NextStep(Rest(t)) \in Goes[Now(t)]
  BY <1>1 DEF Goes, Follows, StepsOf, StopSteps
<1> QED
  BY <1>1, <1>2, MovedTo DEF Proceed

\* A step that releases every mutex and goes on.
LEMMA MovedLet ==
  ASSUME NEW t \in Thread, ShapeInv, todo[t] # <<>>, Now(t) \in Lets,
         ReleaseAll(t), NEW q, Goto(t, q), Shaped(t, q),
         NextStep(q) \in {"spawn", "drop", "refresh", "moving", "tick_job", "vacate", "return"}
  PROVE  Moved(t) /\ Now(t)' = NextStep(q)
<1>1. ShapeInv' /\ Elsewhere(t) /\ Now(t)' = NextStep(q)
  BY Goes1
<1> QED
  BY <1>1 DEF Moved, Effect, Stops, Lets

\* The steps of starting and cancelling a job.
LEMMA JobMoves ==
  ASSUME NEW t \in User, ShapeInv, JobStep(t)
  PROVE  Moved(t)
<1> t \in Thread /\ t \notin Loop /\ t \notin Deadman
  BY ThreadAssumption
<1> USE DEF StopSteps, Keeps, Goes, Lets
<1>0. \A s : At(t, s) => todo[t] # <<>> /\ Now(t) = s
  BY DEF At, Now, NextStep
<1>1. CASE StartJob(t)
  BY <1>0, <1>1, MovedReturn, MovedKeep DEF StartJob
<1>2. CASE StartFire(t)
  BY <1>0, <1>2, MovedReturn, MovedOn DEF StartFire
<1>3. CASE StartPlan(t)
  BY <1>0, <1>3, MovedReturn, MovedOn DEF StartPlan
<1>4. CASE StartRefused(t)
  BY <1>0, <1>4, MovedReturn DEF StartRefused, Sending
<1>p. /\ {"spawn", "drop"} \subseteq StepsOf(t)
      /\ "return" \in Follows(t)["spawn"] /\ "return" \in Follows(t)["drop"]
  BY DEF StepsOf, Follows, Step, Wants
<1>q. /\ Shaped(t, <<"spawn">>) /\ NextStep(<<"spawn">>) = "spawn"
      /\ Shaped(t, <<"drop">>) /\ NextStep(<<"drop">>) = "drop"
  BY <1>p, ShapedShort DEF NextStep
<1>5. CASE StartSend(t)
  <2>1. Goto(t, <<"spawn">>) /\ ReleaseAll(t) /\ (At(t, "start_send") \/ At(t, "frame_send"))
    BY <1>5 DEF StartSend, Sending
  <2> QED
    BY <1>0, <1>q, <2>1, MovedLet
<1>6. CASE StartFails(t)
  <2>1. Goto(t, <<"drop">>) /\ ReleaseAll(t) /\ (At(t, "start_send") \/ At(t, "frame_send"))
    BY <1>6 DEF StartFails, Sending
  <2> QED
    BY <1>0, <1>q, <2>1, MovedLet
<1>7. CASE CancelJob(t)
  BY <1>0, <1>7, MovedKeep DEF CancelJob
<1>8. CASE CancelSession(t)
  BY <1>0, <1>8, MovedReturn DEF CancelSession
<1> QED
  BY <1>1, <1>2, <1>3, <1>4, <1>5, <1>6, <1>7, <1>8 DEF JobStep

\* What follows a tick is a program.
LEMMA AfterTickShaped ==
  ASSUME NEW t \in User \cup Loop, ShapeInv, At(t, "tick")
  PROVE  /\ \A active \in BOOLEAN :
              /\ Shaped(t, AfterTick(t, active))
              /\ NextStep(AfterTick(t, active)) \in {"refresh", "moving", "tick_job", "vacate"}
         /\ Shaped(t, <<"drop">> \o AfterTick(t, FALSE))
         /\ NextStep(<<"drop">> \o AfterTick(t, FALSE)) = "drop"
         /\ Shaped(t, <<>> \o AfterTick(t, FALSE))
         /\ NextStep(<<>> \o AfterTick(t, FALSE)) \in {"refresh", "vacate"}
         /\ Shaped(t, <<"drop", "cleanup">> \o AfterTick(t, FALSE))
         /\ NextStep(<<"drop", "cleanup">> \o AfterTick(t, FALSE)) = "drop"
<1> DEFINE rest == AfterTick(t, FALSE)
<1>0. /\ t \in Thread /\ todo[t] # <<>> /\ Now(t) = "tick" /\ t \notin Deadman
      /\ t \notin Loop => t \in User
  BY ThreadAssumption DEF At, Now, NextStep
<1>1. /\ Shaped(t, Rest(t)) /\ NextStep(Rest(t)) \in Follows(t)["tick"]
  BY <1>0, ShapedTail DEF ShapeInv, InProgram, Rest, Now, NextStep
<1>2. /\ \A active \in BOOLEAN :
           /\ Shaped(t, AfterTick(t, active))
           /\ NextStep(AfterTick(t, active)) \in {"refresh", "moving", "tick_job", "vacate"}
      /\ NextStep(rest) = (IF t \in Loop THEN "vacate" ELSE "refresh")
  <2>1. CASE t \in Loop
    <3>1. /\ {"tick_job", "tick", "vacate", "recheck"} \subseteq StepsOf(t)
          /\ "tick" \in Follows(t)["tick_job"] /\ "return" \in Follows(t)["tick"]
          /\ "recheck" \in Follows(t)["vacate"] /\ "return" \in Follows(t)["recheck"]
      BY <2>1 DEF StepsOf, Follows
    <3>2. Shaped(t, <<"tick_job", "tick">>) /\ Shaped(t, <<"vacate", "recheck">>)
      BY <3>1, ShapedShort
    <3> QED
      BY <2>1, <3>2 DEF AfterTick, NextStep
  <2>2. CASE t \notin Loop
    <3>1. NextStep(Rest(t)) = "refresh"
      BY <1>1, <2>2 DEF Follows
    <3>2. Rest(t) # <<>> /\ Head(Rest(t)) = "refresh"
      BY <3>1 DEF NextStep
    <3>3. /\ Shaped(t, Tail(Rest(t))) /\ NextStep(Tail(Rest(t))) \in Follows(t)["refresh"]
      BY <1>1, <3>2, ShapedTail
    <3>4. NextStep(Tail(Rest(t))) = "moving"
      BY <3>3 DEF Follows
    <3> QED
      BY <1>1, <2>2, <3>1, <3>3, <3>4 DEF AfterTick
  <2> QED
    BY <2>1, <2>2
<1>3. Shaped(t, rest)
  BY <1>2
<1> HIDE DEF rest
<1>4. /\ {"drop", "cleanup"} \subseteq StepsOf(t)
      /\ NextStep(rest) \in Follows(t)["drop"] /\ NextStep(rest) \in Follows(t)["cleanup"]
      /\ "cleanup" \in Follows(t)["drop"]
  BY <1>0, <1>2 DEF StepsOf, Follows, Step, Wants
<1>5. /\ Shaped(t, <<"drop">> \o rest) /\ NextStep(<<"drop">> \o rest) = "drop"
      /\ Shaped(t, <<"cleanup">> \o rest) /\ NextStep(<<"cleanup">> \o rest) = "cleanup"
  BY <1>3, <1>4, ShapedCons
<1>6. /\ Shaped(t, <<"drop">> \o (<<"cleanup">> \o rest))
      /\ NextStep(<<"drop">> \o (<<"cleanup">> \o rest)) = "drop"
  BY <1>4, <1>5, ShapedCons
<1>7. /\ <<"drop", "cleanup">> \o rest = <<"drop">> \o (<<"cleanup">> \o rest)
      /\ <<>> \o rest = rest
  BY <1>3, <1>4, TwoBefore DEF Shaped
<1> QED
  BY <1>2, <1>3, <1>5, <1>6, <1>7 DEF rest

\* The steps of ticking a job and of the tick loop.
LEMMA TickMoves ==
  ASSUME NEW t \in User \cup Loop, ShapeInv, TickStep(t)
  PROVE  Moved(t)
<1> t \in Thread /\ t \notin Deadman
  BY ThreadAssumption
<1> USE DEF StopSteps, Keeps, Goes, Lets
<1>0. \A s : At(t, s) => todo[t] # <<>> /\ Now(t) = s
  BY DEF At, Now, NextStep
<1>1. CASE TickJob(t)
  BY <1>0, <1>1, MovedKeep DEF TickJob
<1>2. CASE TickNothing(t) \/ TickOn(t) \/ TickCompletes(t) \/ TickRepeats(t)
  <2>1. /\ At(t, "tick") /\ ReleaseAll(t)
        /\ \E active \in BOOLEAN : Goto(t, AfterTick(t, active))
    BY <1>2 DEF TickNothing, TickOn, TickCompletes, TickRepeats, Ticking
  <2> QED
    BY <1>0, <2>1, AfterTickShaped, MovedLet
<1>3. CASE TickFails(t) \/ TickFatal(t)
  <2>1. /\ At(t, "tick") /\ ReleaseAll(t)
        /\ \/ Goto(t, <<"drop">> \o AfterTick(t, FALSE))
           \/ Goto(t, <<>> \o AfterTick(t, FALSE))
           \/ Goto(t, <<"drop", "cleanup">> \o AfterTick(t, FALSE))
    BY <1>3 DEF TickFails, TickFatal, Ticking
  <2> QED
    BY <1>0, <2>1, AfterTickShaped, MovedLet
<1>4. CASE Drop(t) \/ Cleanup(t) \/ Vacate(t)
  BY <1>0, <1>4, MovedOn DEF Drop, Cleanup, Vacate, Brief
<1>5. CASE Spawn(t)
  <2>0. /\ todo[t] # <<>> /\ Now(t) = "spawn" /\ UNCHANGED owner
    BY <1>0, <1>5 DEF Spawn
  <2>1. CASE job_tick_loop_running
    BY <1>5, <2>0, <2>1, MovedOn DEF Spawn
  <2>2. CASE ~job_tick_loop_running
    <3>1. PICK l \in Loop :
            /\ IF t \in Loop THEN l = t ELSE Resting(l)
            /\ todo' = [[todo EXCEPT ![t] = Rest(t)] EXCEPT ![l] = <<"tick_job", "tick">>]
      BY <1>5, <2>2 DEF Spawn
    <3>2. /\ l \in Thread /\ l \notin Deadman
          /\ {"tick_job", "tick"} \subseteq StepsOf(l)
          /\ "tick" \in Follows(l)["tick_job"] /\ "return" \in Follows(l)["tick"]
      BY ThreadAssumption DEF StepsOf, Follows
    <3>3. Shaped(l, <<"tick_job", "tick">>)
      BY <3>2, ShapedShort
    <3>4. Shaped(t, Rest(t)) /\ NextStep(Rest(t)) \in Follows(t)["spawn"]
      BY <2>0, ShapedTail DEF ShapeInv, InProgram, Rest, Now, NextStep
    <3>5. NextStep(Rest(t)) = "return"
      BY <3>4 DEF Follows
    <3>6. CASE l = t
      <4>1. Goto(t, <<"tick_job", "tick">>)
        BY <3>1, <3>6 DEF Goto, ShapeInv
      <4>2. NextStep(<<"tick_job", "tick">>) = "tick_job"
        BY DEF NextStep
      <4> QED
        BY <2>0, <3>3, <3>6, <4>1, <4>2, MovedTo
    <3>7. CASE l # t
      <4>1. /\ todo' \in [Thread -> Seq(Step)] /\ todo'[t] = Rest(t)
            /\ todo'[l] = <<"tick_job", "tick">> /\ todo[l] = <<>>
            /\ \A u \in Thread : u # t /\ u # l => todo'[u] = todo[u]
        <5>1. Rest(t) \in Seq(Step) /\ <<"tick_job", "tick">> \in Seq(Step)
          BY <3>3, <3>4, StepsAreSteps DEF Shaped
        <5>2. t \notin Loop /\ todo[l] = <<>>
          BY <3>1, <3>7 DEF Resting
        <5> QED
          BY <3>1, <3>2, <3>7, <5>1, <5>2 DEF ShapeInv
      <4>2. \A u \in Thread : Shaped(u, todo'[u])
        BY <3>3, <3>4, <4>1 DEF ShapeInv, InProgram
      <4>3. ShapeInv' /\ Elsewhere(t) /\ Now(t)' = "return"
        BY <3>5, <4>1, <4>2 DEF ShapeInv, InProgram, Elsewhere, Now
      <4> QED
        BY <2>0, <4>3 DEF Moved, Effect, Stops
    <3> QED
      BY <3>6, <3>7
  <2> QED
    BY <2>1, <2>2
<1>6. CASE Recheck(t)
  <2>1. /\ At(t, "recheck") /\ UNCHANGED owner
        /\ Goto(t, <<"spawn">>) \/ Goto(t, <<>>)
    BY <1>6 DEF Recheck, Brief
  <2>2. /\ "spawn" \in StepsOf(t) /\ "return" \in Follows(t)["spawn"]
    BY DEF StepsOf, Follows, Step, Wants
  <2>3. /\ Shaped(t, <<"spawn">>) /\ NextStep(<<"spawn">>) = "spawn"
        /\ Shaped(t, <<>>) /\ NextStep(<<>>) = "return"
    BY <2>2, ShapedShort DEF NextStep
  <2> QED
    BY <1>0, <2>1, <2>3, MovedTo
<1> QED
  BY <1>1, <1>2, <1>3, <1>4, <1>5, <1>6 DEF TickStep

\* The steps of status, connect, disconnect, Emergency Stop, home and jog.
LEMMA SessionMoves ==
  ASSUME NEW t \in User, ShapeInv, SessionStep(t)
  PROVE  Moved(t)
<1> t \in Thread /\ t \notin Loop /\ t \notin Deadman
  BY ThreadAssumption
<1> USE DEF StopSteps, Keeps, Goes, Lets
<1>0. \A s : At(t, s) => todo[t] # <<>> /\ Now(t) = s
  BY DEF At, Now, NextStep
<1>p. /\ {"mark", "drop"} \subseteq StepsOf(t)
      /\ "return" \in Follows(t)["mark"] /\ "return" \in Follows(t)["drop"]
  BY DEF StepsOf, Follows, Step, Wants
<1>q. /\ Shaped(t, <<"mark">>) /\ NextStep(<<"mark">>) = "mark"
      /\ Shaped(t, <<"drop">>) /\ NextStep(<<"drop">>) = "drop"
      /\ Shaped(t, <<>>) /\ NextStep(<<>>) = "return"
  BY <1>p, ShapedShort DEF NextStep
<1>1. CASE Refresh(t)
  <2>1. /\ At(t, "refresh") /\ UNCHANGED owner
        /\ Goto(t, <<"drop">>) \/ Goto(t, <<>>) \/ Proceed(t)
    BY <1>1 DEF Refresh, Brief, Proceed
  <2> QED
    BY <1>0, <1>q, <2>1, MovedTo, MovedOn
<1>2. CASE Moving(t)
  <2>1. At(t, "moving") /\ UNCHANGED owner /\ (Goto(t, <<>>) \/ Goto(t, <<"mark">>))
    BY <1>2 DEF Moving
  <2> QED
    BY <1>0, <1>q, <2>1, MovedTo
<1>3. CASE Gate(t) \/ DisconnectJob(t) \/ DisconnectSession(t)
  BY <1>0, <1>3, MovedKeep DEF Gate, DisconnectJob, DisconnectSession
<1>4. CASE ConnectCheck(t)
  BY <1>0, <1>4, MovedReturn, MovedOn DEF ConnectCheck
<1>5. CASE ConnectOpen(t)
  <2>1. /\ At(t, "conn_open")
        /\ Return(t) \/ (UNCHANGED owner /\ Goto(t, Program["home"]))
    BY <1>5 DEF ConnectOpen
  <2>2. "home" \in DOMAIN Program
    BY DEF Program
  <2>3. /\ Shaped(t, Program["home"])
        /\ Program["home"] = <<"home_job", "move_fire", "move">>
    BY <2>2, ProgramsShaped
  <2>4. NextStep(Program["home"]) = "home_job"
    BY <2>3 DEF NextStep
  <2> QED
    BY <1>0, <2>1, <2>3, <2>4, MovedReturn, MovedTo
<1>6. CASE DisconnectFire(t) \/ Move(t)
  BY <1>0, <1>6, MovedReturn DEF DisconnectFire, Move
<1>7. CASE Bump(t) \/ StopJob(t)
  BY <1>0, <1>7, MovedOn DEF Bump, StopJob, Brief
<1>8. CASE Stop(t)
  <2>1. At(t, "stop") /\ UNCHANGED owner /\ (Goto(t, <<>>) \/ Proceed(t))
    BY <1>8 DEF Stop, Brief
  <2> QED
    BY <1>0, <1>q, <2>1, MovedTo, MovedOn
<1>9. CASE HomeJob(t) \/ MoveFire(t)
  BY <1>0, <1>9, MovedReturn, MovedKeep DEF HomeJob, MoveFire
<1> QED
  BY <1>1, <1>2, <1>3, <1>4, <1>5, <1>6, <1>7, <1>8, <1>9 DEF SessionStep

\* Marking the armed fire.
LEMMA MarkMoves ==
  ASSUME NEW t \in User \cup Deadman, ShapeInv, Mark(t)
  PROVE  Moved(t)
<1> t \in Thread /\ t \notin Loop
  BY ThreadAssumption
<1>1. /\ todo[t] # <<>> /\ Now(t) = "mark" /\ UNCHANGED owner
      /\ Proceed(t) \/ Goto(t, <<"m5", "take">> \o Rest(t))
  BY DEF Mark, At, Now, NextStep, Brief
<1>2. /\ Shaped(t, Rest(t)) /\ NextStep(Rest(t)) \in Follows(t)["mark"]
  BY <1>1, ShapedTail DEF ShapeInv, InProgram, Rest, Now, NextStep
<1>3. /\ {"m5", "take"} \subseteq StepsOf(t)
      /\ NextStep(Rest(t)) \in Follows(t)["take"] /\ "take" \in Follows(t)["m5"]
      /\ NextStep(Rest(t)) \in Goes["mark"] /\ "m5" \in Goes["mark"]
      /\ NextStep(Rest(t)) # "disc_gate"
      /\ "mark" \in DOMAIN Goes
  BY <1>2 DEF StepsOf, Follows, Step, Wants, Goes
<1> DEFINE a == <<"take">> \o Rest(t)
           b == <<"m5">> \o a
<1>4. Shaped(t, a) /\ NextStep(a) = "take" /\ Tail(a) = Rest(t)
  BY <1>2, <1>3, ShapedCons
<1>5. Shaped(t, b) /\ NextStep(b) = "m5" /\ Tail(b) = a
  <2> HIDE DEF a
  <2> QED
    BY <1>3, <1>4, ShapedCons
<1>6. <<"m5", "take">> \o Rest(t) = b
  BY <1>2, <1>3, TwoBefore DEF Shaped
<1> HIDE DEF a, b
<1>7. CASE Proceed(t)
  <2>1. ShapeInv' /\ Elsewhere(t) /\ Now(t)' = NextStep(Rest(t))
    BY <1>1, <1>7, Proceeds
  <2> QED
    BY <1>1, <1>3, <2>1 DEF Moved, Effect, Stops
<1>8. CASE Goto(t, b)
  <2>1. ShapeInv' /\ Elsewhere(t) /\ todo'[t] = b /\ Now(t)' = "m5"
    BY <1>5, <1>8, Goes1
  <2>2. NextStep(Tail(Rest(t)))' = NextStep(Rest(t))
    BY <1>4, <1>5, <2>1 DEF Rest
  <2> QED
    BY <1>1, <1>3, <2>1, <2>2 DEF Moved, Effect, Stops
<1> QED
  BY <1>1, <1>6, <1>7, <1>8

\* Sending the M5 of a stop, and what follows a failure.
LEMMA M5Moves ==
  ASSUME NEW t \in User \cup Deadman, ShapeInv, M5(t)
  PROVE  Moved(t)
<1> t \in Thread /\ t \notin Loop /\ (t \in User => t \notin Deadman)
  BY ThreadAssumption
<1>1. /\ todo[t] # <<>> /\ Now(t) = "m5" /\ UNCHANGED owner
      /\ Proceed(t) \/ Goto(t, AfterFailedM5(t))
  BY DEF M5, At, Now, NextStep, Brief
<1>2. /\ Shaped(t, Rest(t)) /\ NextStep(Rest(t)) = "take"
  <2>1. /\ Shaped(t, Rest(t)) /\ NextStep(Rest(t)) \in Follows(t)["m5"]
    BY <1>1, ShapedTail DEF ShapeInv, InProgram, Rest, Now, NextStep
  <2> QED
    BY <2>1 DEF Follows
<1> DEFINE rest == Tail(Rest(t))
<1>3. Rest(t) # <<>> /\ Head(Rest(t)) = "take"
  BY <1>2 DEF NextStep
<1>4. Shaped(t, rest) /\ NextStep(rest) \in Follows(t)["take"]
  BY <1>2, <1>3, ShapedTail
<1>5. NextStep(rest) \in {"start_job", "disc_job", "stop", "return"}
  BY <1>4 DEF Follows
<1> HIDE DEF rest
<1>m. /\ "m5" \in DOMAIN Goes /\ Goes["m5"] = {"take", "watch", "disc_job", "stop", "return"}
      /\ "m5" \notin DOMAIN Keeps /\ "m5" \notin Lets
  BY DEF Goes, Keeps, Lets
<1>6. CASE Proceed(t)
  <2>1. ShapeInv' /\ Elsewhere(t) /\ todo'[t] = Rest(t) /\ Now(t)' = "take"
    BY <1>1, <1>2, <1>6, Proceeds
  <2>2. NextStep(Rest(t))' = NextStep(Tail(Rest(t)))
    BY <2>1 DEF Rest
  <2> QED
    BY <1>1, <1>m, <2>1, <2>2 DEF Moved, Effect, Stops
<1>7. ASSUME NEW q, Goto(t, q), Shaped(t, q), NextStep(q) \in {"watch", "disc_job", "stop", "return"},
             NextStep(rest) = "disc_job" => NextStep(q) = "disc_job"
      PROVE  Moved(t)
  <2>1. ShapeInv' /\ Elsewhere(t) /\ Now(t)' = NextStep(q)
    BY <1>7, Goes1
  <2> QED
    BY <1>1, <1>m, <1>7, <2>1 DEF Moved, Effect, Stops, rest
<1>8. CASE Goto(t, AfterFailedM5(t))
  <2>1. CASE t \in Deadman
    <3>1. "watch" \in StepsOf(t) /\ "return" \in Follows(t)["watch"] /\ "disc_job" \notin StepsOf(t)
      BY <2>1 DEF StepsOf, Follows
    <3>2. Shaped(t, <<"watch">>) /\ NextStep(<<"watch">>) = "watch"
      BY <3>1, ShapedShort DEF NextStep
    <3>3. NextStep(rest) # "disc_job"
      <4>1. rest # <<>> => Head(rest) \in StepsOf(t)
        BY <1>4, ShapedTail
      <4> QED
        BY <3>1, <4>1 DEF NextStep
    <3>4. Goto(t, <<"watch">>)
      BY <1>8, <2>1 DEF AfterFailedM5
    <3> QED
      BY <1>7, <3>2, <3>3, <3>4
  <2>2. CASE t \notin Deadman /\ NextStep(rest) = "start_job"
    <3>1. Goto(t, <<>>)
      BY <1>8, <2>2 DEF AfterFailedM5, NextStep, rest
    <3>2. Shaped(t, <<>>) /\ NextStep(<<>>) = "return"
      BY ShapedShort DEF NextStep
    <3> QED
      BY <1>7, <2>2, <3>1, <3>2
  <2>3. CASE t \notin Deadman /\ NextStep(rest) # "start_job"
    <3>1. Goto(t, rest)
      BY <1>8, <2>3 DEF AfterFailedM5, NextStep, rest
    <3> QED
      BY <1>4, <1>5, <1>7, <2>3, <3>1
  <2> QED
    BY <2>1, <2>2, <2>3
<1> QED
  BY <1>1, <1>6, <1>8

\* Arming a test fire gives its token to a deadman that rests.
LEMMA DeadmanMoves ==
  ASSUME NEW t \in User, ShapeInv, todo[t] # <<>>, Now(t) \notin StopSteps,
         SpawnDeadman(t), ReleaseAll(t)
  PROVE  Moved(t)
<1> t \in Thread /\ t \notin Loop /\ t \notin Deadman
  BY ThreadAssumption
<1>1. PICK d \in Deadman :
        /\ todo[d] = <<>>
        /\ todo' = [todo EXCEPT ![t] = <<>>, ![d] = <<"watch">>]
  BY DEF SpawnDeadman, Resting
<1>2. /\ d \in Thread /\ d \notin Loop
      /\ "watch" \in StepsOf(d) /\ "return" \in Follows(d)["watch"]
  BY ThreadAssumption DEF StepsOf, Follows
<1>3. Shaped(d, <<"watch">>) /\ Shaped(t, <<>>)
  BY <1>2, ShapedShort
<1>4. <<"watch">> \in Seq(Step) /\ <<>> \in Seq(Step)
  BY <1>3, StepsAreSteps DEF Shaped
<1>5. /\ todo' \in [Thread -> Seq(Step)] /\ todo'[t] = <<>> /\ todo'[d] = <<"watch">>
      /\ \A u \in Thread : u # t /\ u # d => todo'[u] = todo[u]
  BY <1>1, <1>2, <1>4 DEF ShapeInv
<1>6. \A u \in Thread : Shaped(u, todo'[u])
  BY <1>3, <1>5 DEF ShapeInv, InProgram
<1>7. ShapeInv' /\ Elsewhere(t) /\ Now(t)' = "return"
  BY <1>1, <1>5, <1>6 DEF ShapeInv, InProgram, Elsewhere, Now, NextStep
<1> QED
  BY <1>7 DEF Moved, Effect, Stops, StopSteps

\* The steps of test fires, and of stopping them.
LEMMA FireMoves ==
  ASSUME NEW t \in User \cup Deadman, ShapeInv, FireStep(t)
  PROVE  Moved(t)
<1> t \in Thread /\ t \notin Loop
  BY ThreadAssumption
<1> USE DEF StopSteps, Keeps, Goes, Lets
<1>0. \A s : At(t, s) => todo[t] # <<>> /\ Now(t) = s
  BY DEF At, Now, NextStep
<1>1. CASE Mark(t)
  BY <1>1, MarkMoves
<1>2. CASE M5(t)
  BY <1>2, M5Moves
<1>3. CASE Take(t)
  <2>1. todo[t] # <<>> /\ Now(t) = "take" /\ UNCHANGED owner /\ Proceed(t)
    BY <1>0, <1>3 DEF Take, Brief
  <2>2. /\ ShapeInv' /\ Elsewhere(t) /\ Now(t)' = NextStep(Rest(t))
        /\ Now(t)' \in Follows(t)["take"]
    BY <2>1, Proceeds
  <2>3. Now(t)' \in Goes["take"] /\ Now(t)' # "disc_gate"
    BY <2>2 DEF Follows
  <2> QED
    BY <2>1, <2>2, <2>3 DEF Moved, Effect, Stops
<1>u. At(t, "fire_send") => t \in User
  <2>1. Shaped(t, todo[t])
    BY DEF ShapeInv, InProgram
  <2>2. todo[t] # <<>> => Head(todo[t]) \in StepsOf(t)
    BY <2>1, ShapedTail
  <2> QED
    BY <2>2 DEF At, StepsOf
<1>4. CASE FireJob(t) \/ FireArm(t)
  BY <1>0, <1>4, MovedReturn, MovedKeep DEF FireJob, FireArm
<1>5. CASE FireRefused(t)
  BY <1>0, <1>5, MovedReturn DEF FireRefused
<1>6. CASE FireOn(t) \/ FireOnFails(t)
  <2>1. At(t, "fire_send") /\ (Return(t) \/ (SpawnDeadman(t) /\ ReleaseAll(t)))
    BY <1>6 DEF FireOn, FireOnFails
  <2> QED
    BY <1>0, <1>u, <2>1, MovedReturn, DeadmanMoves
<1>7. CASE Release(t)
  <2>1. At(t, "release") /\ UNCHANGED owner /\ (Goto(t, <<>>) \/ Goto(t, <<"mark">>))
    BY <1>7 DEF Release, Brief
  <2>2. t \in User
    <3>1. Shaped(t, todo[t])
      BY DEF ShapeInv, InProgram
    <3>2. Head(todo[t]) \in StepsOf(t)
      BY <1>0, <2>1, <3>1, ShapedTail
    <3> QED
      BY <2>1, <3>2 DEF At, StepsOf
  <2>3. "mark" \in StepsOf(t) /\ "return" \in Follows(t)["mark"]
    BY <2>2, ThreadAssumption DEF StepsOf, Follows, Step, Wants
  <2>4. /\ Shaped(t, <<"mark">>) /\ NextStep(<<"mark">>) = "mark"
        /\ Shaped(t, <<>>) /\ NextStep(<<>>) = "return"
    BY <2>3, ShapedShort DEF NextStep
  <2> QED
    BY <1>0, <2>1, <2>4, MovedTo
<1> QED
  BY <1>1, <1>2, <1>3, <1>4, <1>5, <1>6, <1>7 DEF FireStep

\* A round of the deadman.
LEMMA WatchMoves ==
  ASSUME NEW d \in Deadman, ShapeInv, Watch(d)
  PROVE  Moved(d)
<1> d \in Thread /\ d \notin Loop
  BY ThreadAssumption
<1>1. /\ todo[d] # <<>> /\ Now(d) = "watch" /\ UNCHANGED owner
      /\ Goto(d, <<"mark">>) \/ Goto(d, <<>>)
  BY DEF Watch, Brief, At, Now, NextStep
<1>2. "mark" \in StepsOf(d) /\ "return" \in Follows(d)["mark"]
  BY DEF StepsOf, Follows
<1>3. /\ Shaped(d, <<"mark">>) /\ NextStep(<<"mark">>) = "mark"
      /\ Shaped(d, <<>>) /\ NextStep(<<>>) = "return"
  BY <1>2, ShapedShort DEF NextStep
<1> QED
  BY <1>1, <1>3, MovedTo DEF Goes, StopSteps

\* A call begins one of the programs.
LEMMA CallMoves ==
  ASSUME NEW t \in User, NEW op \in Ops, ShapeInv, Call(t, op)
  PROVE  Moved(t)
<1> t \in Thread
  BY ThreadAssumption
<1>1. /\ op \in DOMAIN Program /\ todo[t] = <<>> /\ UNCHANGED owner /\ Goto(t, Program[op])
  BY OpsAssumption DEF Call, Resting
<1>2. /\ Shaped(t, Program[op])
      /\ NextStep(Program[op]) = "disc_gate" => NextStep(Tail(Tail(Program[op]))) = "disc_job"
  BY <1>1, ProgramsShaped
<1>3. /\ ShapeInv' /\ Elsewhere(t) /\ todo'[t] = Program[op]
      /\ Now(t)' = NextStep(Program[op])
  BY <1>1, <1>2, Goes1
<1> QED
  BY <1>1, <1>2, <1>3 DEF Moved, Effect, Called, Stops, Rest, Now, NextStep

-----------------------------------------------------------------------------
(* Who holds which mutex.                                                  *)

\* The steps a thread may be at that holds a mutex.
MayHold ==
  [gate |-> {"conn_check", "conn_open", "home_job", "move_fire", "move", "mark", "m5",
             "take", "disc_job", "disc_session", "disc_fire"},
   job |-> {"start_fire", "start_plan", "start_send", "frame_send", "tick", "cancel",
            "disc_session", "disc_fire", "fire_arm", "fire_send", "move_fire", "move"},
   fire |-> {"fire_send", "move"},
   session |-> {"disc_fire"}]

\* The steps a thread is only at when it holds a mutex.  A jog moves the machine
\* without the job mutex.
MustHold ==
  [gate |-> {},
   job |-> {"start_fire", "start_plan", "start_send", "frame_send", "tick", "cancel",
            "disc_session", "disc_fire", "fire_arm", "fire_send"}
             \cup (IF "jog" \in Ops THEN {} ELSE {"move_fire", "move"}),
   fire |-> {"fire_send", "move"},
   session |-> {"disc_fire"}]

LockInv ==
  \A t \in Thread, l \in Lock :
    /\ owner[l] = t => Now(t) \in MayHold[l]
    /\ Now(t) \in MustHold[l] => owner[l] = t

\* A disconnect stops a test fire with the gate held, and goes on to the job.
GateInv ==
  \A t \in Thread :
    /\ Now(t) = "disc_gate" => NextStep(Tail(Rest(t))) = "disc_job"
    /\ owner["gate"] = t =>
         /\ Now(t) \in {"mark", "take"} => NextStep(Rest(t)) = "disc_job"
         /\ Now(t) = "m5" => NextStep(Tail(Rest(t))) = "disc_job"

LocksInv == ShapeInv /\ owner \in [Lock -> Thread \cup {NoThread}] /\ LockInv /\ GateInv

\* Nobody holds a mutex and nothing is under way when the service starts.
LEMMA LocksInvInit == Init => LocksInv
<1> SUFFICES ASSUME Init PROVE LocksInv
  OBVIOUS
<1>1. /\ todo = [t \in Thread |-> <<>>] /\ owner = [l \in Lock |-> NoThread]
      /\ <<>> \in Seq(Step)
  BY DEF Init, LocksInit
<1>2. \A t \in Thread : Now(t) = "return" /\ Shaped(t, todo[t])
  BY <1>1, ShapedShort DEF Now, NextStep
<1>3. \A l \in Lock : "return" \notin MustHold[l]
  BY DEF Lock, MustHold
<1> QED
  BY <1>1, <1>2, <1>3, ThreadAssumption DEF LocksInv, ShapeInv, InProgram, LockInv, GateInv, Lock

\* The tables agree with each step that moves on.
LEMMA TablesAgree ==
  /\ \A l \in Lock : {"return", "watch", "tick_job", "spawn", "drop", "refresh", "moving",
                      "vacate"} \cap (MayHold[l] \cup MustHold[l]) = {}
  /\ \A t : \A s \in DOMAIN Keeps : \A l \in Lock : \A n \in Follows(t)[s] :
       /\ s \in MayHold[l] \/ l = Keeps[s] => n \in MayHold[l]
       /\ n \in MustHold[l] => s \in MustHold[l] \/ l = Keeps[s]
  /\ \A s \in DOMAIN Goes : \A l \in Lock : \A n \in Goes[s] :
       /\ s \in MayHold[l] => n \in MayHold[l] \/ (l = "gate" /\ s \in {"mark", "m5", "take"})
       /\ n \in MustHold[l] => s \in MustHold[l]
  /\ DOMAIN Keeps \cap (DOMAIN Goes \cup Lets) = {} /\ DOMAIN Goes \cap Lets = {}
  /\ \A s \in DOMAIN Keeps : Keeps[s] \in Lock
<1> USE DEF MayHold, MustHold, Lock, Keeps, Goes, Lets
<1>1. \A l \in Lock : {"return", "watch", "tick_job", "spawn", "drop", "refresh", "moving",
                      "vacate"} \cap (MayHold[l] \cup MustHold[l]) = {}
  OBVIOUS
<1>2. ASSUME NEW t, NEW s \in DOMAIN Keeps, NEW l \in Lock, NEW n \in Follows(t)[s]
      PROVE  /\ s \in MayHold[l] \/ l = Keeps[s] => n \in MayHold[l]
             /\ n \in MustHold[l] => s \in MustHold[l] \/ l = Keeps[s]
  BY DEF Follows
<1>3. ASSUME NEW s \in DOMAIN Goes, NEW l \in Lock, NEW n \in Goes[s]
      PROVE  /\ s \in MayHold[l] => n \in MayHold[l] \/ (l = "gate" /\ s \in {"mark", "m5", "take"})
             /\ n \in MustHold[l] => s \in MustHold[l]
  OBVIOUS
<1>4. /\ DOMAIN Keeps \cap (DOMAIN Goes \cup Lets) = {} /\ DOMAIN Goes \cap Lets = {}
      /\ \A s \in DOMAIN Keeps : Keeps[s] \in Lock
  OBVIOUS
<1> HIDE DEF MayHold, MustHold, Lock, Keeps, Goes, Lets
<1> QED
  BY <1>1, <1>2, <1>3, <1>4

\* A thread elsewhere owns what it owned.
LEMMA OwnersElsewhere ==
  ASSUME LocksInv, NEW t \in Thread, Moved(t), NEW u \in Thread \ {t}, NEW l \in Lock
  PROVE  owner'[l] = u <=> owner[l] = u
<1>0. owner \in [Lock -> Thread \cup {NoThread}] /\ NoThread \notin Thread
  BY ThreadAssumption DEF LocksInv
<1>1. \/ owner' = owner
      \/ ReleaseAll(t)
      \/ \E k \in Lock : Hold(t, k)
  BY TablesAgree DEF Moved, Effect, Called
<1> QED
  BY <1>0, <1>1 DEF ReleaseAll, Hold, Free

\* The mutexes of the thread that moves.
LEMMA LockInvMover ==
  ASSUME LocksInv, NEW t \in Thread, Moved(t), NEW l \in Lock
  PROVE  /\ owner'[l] = t => Now(t)' \in MayHold[l]
         /\ Now(t)' \in MustHold[l] => owner'[l] = t
<1>0. /\ owner \in [Lock -> Thread \cup {NoThread}] /\ NoThread \notin Thread
      /\ owner[l] = t => Now(t) \in MayHold[l]
      /\ Now(t) \in MustHold[l] => owner[l] = t
  BY ThreadAssumption DEF LocksInv, LockInv
<1>1. CASE Called(t)
  <2>1. Now(t) = "return" /\ owner' = owner
    BY <1>1 DEF Called, Now, NextStep
  <2>2. owner'[l] # t
    BY <1>0, <2>1, TablesAgree
  <2>3. PICK op \in Ops : todo'[t] = Program[op]
    BY <1>1 DEF Called
  <2>4. /\ t \in User /\ op \in DOMAIN Program
        /\ Now(t)' = NextStep(Program[op])
    BY <1>1, <2>3, OpsAssumption DEF Called, Now
  <2>5. /\ NextStep(Program[op]) \in
              {"mark", "tick_job", "cancel_job", "conn_gate", "disc_gate", "bump",
               "fire_job", "release", "home_job", "move_fire"}
        /\ NextStep(Program[op]) = "move_fire" => "jog" \in Ops
    BY <2>4, ProgramsShaped
  <2>6. Now(t)' \notin MustHold[l]
    BY <2>4, <2>5 DEF MustHold, Lock
  <2> QED
    BY <2>2, <2>6
<1>2. CASE todo[t] # <<>> /\ Now(t)' = "return" /\ ReleaseAll(t)
  BY <1>0, <1>2, TablesAgree DEF ReleaseAll
<1>3. CASE /\ Now(t) \in DOMAIN Keeps /\ Hold(t, Keeps[Now(t)])
           /\ Now(t)' \in Follows(t)[Now(t)]
  <2>1. /\ Now(t) \in MayHold[l] \/ l = Keeps[Now(t)] => Now(t)' \in MayHold[l]
        /\ Now(t)' \in MustHold[l] => Now(t) \in MustHold[l] \/ l = Keeps[Now(t)]
        /\ Keeps[Now(t)] \in Lock
    BY <1>3, TablesAgree
  <2>2. owner' = [owner EXCEPT ![Keeps[Now(t)]] = t]
    BY <1>3 DEF Hold
  <2> QED
    BY <1>0, <2>1, <2>2
<1>4. CASE /\ Now(t) \in Lets /\ ReleaseAll(t)
           /\ Now(t)' \in {"spawn", "drop", "refresh", "moving", "tick_job", "vacate"}
  BY <1>0, <1>4, TablesAgree DEF ReleaseAll
<1>5. CASE Now(t) \in DOMAIN Goes /\ owner' = owner /\ Now(t)' \in Goes[Now(t)]
  <2>1. /\ Now(t) \in MayHold[l] => Now(t)' \in MayHold[l] \/ (l = "gate" /\ Now(t) \in {"mark", "m5", "take"})
        /\ Now(t)' \in MustHold[l] => Now(t) \in MustHold[l]
    BY <1>5, TablesAgree
  <2>2. ASSUME l = "gate", owner["gate"] = t, Now(t) \in {"mark", "m5", "take"}
        PROVE  Now(t)' \in MayHold["gate"]
    <3>1. /\ Now(t) \in {"mark", "take"} => NextStep(Rest(t)) = "disc_job"
          /\ Now(t) = "m5" => NextStep(Tail(Rest(t))) = "disc_job"
      BY <2>2 DEF LocksInv, GateInv
    <3>2. Now(t)' \in {"m5", "take", "disc_job"}
      BY <2>2, <3>1 DEF Moved, Stops
    <3> QED
      BY <3>2 DEF MayHold
  <2> QED
    BY <1>0, <1>5, <2>1, <2>2
<1> QED
  BY <1>1, <1>2, <1>3, <1>4, <1>5 DEF Moved, Effect

\* Every step keeps the mutexes where they belong.
LEMMA LocksInvMoved ==
  ASSUME LocksInv, NEW t \in Thread, Moved(t)
  PROVE  LocksInv'
<1>0. /\ "gate" \in Lock /\ ShapeInv' /\ Elsewhere(t) /\ Effect(t) /\ Stops(t)
      /\ owner \in [Lock -> Thread \cup {NoThread}] /\ NoThread \notin Thread
  BY ThreadAssumption DEF Moved, Lock, LocksInv
<1>1. owner' \in [Lock -> Thread \cup {NoThread}]
  <2>1. \/ owner' = owner
        \/ ReleaseAll(t)
        \/ \E k \in Lock : Hold(t, k)
    BY <1>0, TablesAgree DEF Effect, Called
  <2> QED
    BY <1>0, <2>1 DEF ReleaseAll, Hold
<1>e. ASSUME NEW u \in Thread \ {t}
      PROVE  \/ Now(u)' = Now(u) /\ todo'[u] = todo[u]
             \/ Now(u) = "return" /\ Now(u)' \in {"watch", "tick_job"}
  BY <1>0, <1>e DEF Elsewhere, Now, NextStep
<1>2. LockInv'
  <2> SUFFICES ASSUME NEW u \in Thread, NEW l \in Lock
               PROVE  /\ owner'[l] = u => Now(u)' \in MayHold[l]
                      /\ Now(u)' \in MustHold[l] => owner'[l] = u
    BY DEF LockInv, Now
  <2>1. CASE u = t
    BY <2>1, LockInvMover
  <2>2. CASE u # t
    <3>1. /\ owner[l] = u => Now(u) \in MayHold[l]
          /\ Now(u) \in MustHold[l] => owner[l] = u
          /\ owner'[l] = u <=> owner[l] = u
      BY <2>2, OwnersElsewhere DEF LocksInv, LockInv
    <3> QED
      BY <1>e, <2>2, <3>1, TablesAgree
  <2> QED
    BY <2>1, <2>2
<1>3. GateInv'
  <2> SUFFICES ASSUME NEW u \in Thread
               PROVE  /\ Now(u)' = "disc_gate" => (NextStep(Tail(Rest(u))) = "disc_job")'
                      /\ (owner["gate"] = u)' =>
                           /\ Now(u)' \in {"mark", "take"} => (NextStep(Rest(u)) = "disc_job")'
                           /\ Now(u)' = "m5" => (NextStep(Tail(Rest(u))) = "disc_job")'
    BY DEF GateInv, Now
  <2>g. /\ Now(u) = "disc_gate" => NextStep(Tail(Rest(u))) = "disc_job"
        /\ owner["gate"] = u =>
             /\ Now(u) \in {"mark", "take"} => NextStep(Rest(u)) = "disc_job"
             /\ Now(u) = "m5" => NextStep(Tail(Rest(u))) = "disc_job"
        /\ owner["gate"] = u => Now(u) \in MayHold["gate"]
    BY <1>0 DEF LocksInv, LockInv, GateInv
  <2>1. CASE u # t
    <3>1. (owner["gate"] = u)' <=> owner["gate"] = u
      BY <1>0, <2>1, OwnersElsewhere
    <3> QED
      BY <1>e, <2>1, <2>g, <3>1 DEF Rest
  <2>2. CASE u = t
    <3>1. Now(t)' = "disc_gate" => (NextStep(Tail(Rest(t))) = "disc_job")'
      BY <1>0 DEF Stops
    <3>2. ASSUME (owner["gate"] = t)', Now(t)' \in {"mark", "take", "m5"}
          PROVE  /\ Now(t)' \in {"mark", "take"} => (NextStep(Rest(t)) = "disc_job")'
                 /\ Now(t)' = "m5" => (NextStep(Tail(Rest(t))) = "disc_job")'
      <4>1. CASE Called(t)
        <5>1. Now(t) = "return" /\ owner' = owner
          BY <4>1 DEF Called, Now, NextStep
        <5> QED
          BY <2>2, <2>g, <3>2, <5>1, <1>0, TablesAgree
      <4>2. CASE ReleaseAll(t)
        BY <1>0, <3>2, <4>2 DEF ReleaseAll
      <4>3. CASE /\ Now(t) \in DOMAIN Keeps
                 /\ Now(t)' \in Follows(t)[Now(t)]
        <5>1. Now(t) = "disc_gate" /\ Now(t)' = "mark"
          BY <3>2, <4>3 DEF Keeps, Follows
        <5>2. (NextStep(Rest(t)) = "disc_job")'
          BY <1>0, <2>2, <2>g, <5>1 DEF Stops
        <5> QED
          BY <5>1, <5>2
      <4>4. CASE Now(t) \in DOMAIN Goes /\ owner' = owner /\ Now(t)' \in Goes[Now(t)]
        <5>1. owner["gate"] = t /\ Now(t) \in MayHold["gate"]
          BY <2>2, <2>g, <3>2, <4>4
        <5>2. \/ Now(t) = "mark" /\ Now(t)' = "m5"
              \/ Now(t) = "m5" /\ Now(t)' = "take"
          BY <3>2, <4>4, <5>1 DEF MayHold, Goes
        <5> QED
          BY <1>0, <2>2, <2>g, <5>1, <5>2 DEF Stops
      <4> QED
        BY <1>0, <4>1, <4>2, <4>3, <4>4 DEF Effect
    <3> QED
      BY <2>2, <3>1, <3>2
  <2> QED
    BY <2>1, <2>2
<1> QED
  BY <1>0, <1>1, <1>2, <1>3 DEF LocksInv

\* Without a jog, which moves the machine without the job mutex, nobody waits for
\* a mutex whose holder waits for one that comes earlier.
LEMMA NoCycle == LocksInv /\ "jog" \notin Ops => NoCircularWait
<1> SUFFICES ASSUME LocksInv, "jog" \notin Ops,
                    NEW S \in SUBSET Thread, S # {},
                    \A t \in S : \E l \in Lock : BlockedOn(t, l) /\ owner[l] \in S
             PROVE  FALSE
  BY DEF NoCircularWait
<1>1. ASSUME NEW t \in S
      PROVE  /\ Now(t) \in DOMAIN Wants
             /\ owner[Wants[Now(t)]] \in S
  BY DEF BlockedOn, Now, NextStep
<1>2. ASSUME NEW t \in S, NEW l \in Lock, Wants[Now(t)] = l
      PROVE  /\ owner[l] \in S /\ owner[l] \in Thread
             /\ Now(owner[l]) \in MayHold[l]
  BY <1>1, <1>2 DEF LocksInv, LockInv
<1>3. {"gate", "job", "fire", "session"} = Lock
  BY DEF Lock
<1>4. ASSUME NEW t \in S PROVE Wants[Now(t)] # "session"
  <2> SUFFICES ASSUME Wants[Now(t)] = "session" PROVE FALSE
    OBVIOUS
  <2> DEFINE o == owner["session"]
             p == owner["fire"]
  <2>1. o \in S /\ o \in Thread /\ Now(o) = "disc_fire"
    BY <1>2, <1>3 DEF MayHold
  <2>2. p \in S /\ p \in Thread /\ Now(p) \in {"fire_send", "move"}
    <3>1. Wants[Now(o)] = "fire"
      BY <2>1 DEF Wants
    <3> QED
      BY <1>2, <1>3, <2>1, <3>1 DEF MayHold
  <2>3. owner["job"] = o /\ owner["job"] = p
    <3>1. Now(o) \in MustHold["job"] /\ Now(p) \in MustHold["job"]
      BY <2>1, <2>2 DEF MustHold
    <3> QED
      BY <1>3, <2>1, <2>2, <3>1 DEF LocksInv, LockInv
  <2> QED
    BY <2>1, <2>2, <2>3
<1>5. ASSUME NEW t \in S PROVE Wants[Now(t)] # "fire"
  <2> SUFFICES ASSUME Wants[Now(t)] = "fire" PROVE FALSE
    OBVIOUS
  <2>1. owner["fire"] \in S /\ Now(owner["fire"]) \in {"fire_send", "move"}
    BY <1>2, <1>3 DEF MayHold
  <2>2. Wants[Now(owner["fire"])] = "session"
    BY <2>1 DEF Wants
  <2> QED
    BY <1>4, <2>1, <2>2
<1>6. ASSUME NEW t \in S PROVE Wants[Now(t)] # "job"
  <2> SUFFICES ASSUME Wants[Now(t)] = "job" PROVE FALSE
    OBVIOUS
  <2>1. owner["job"] \in S /\ Now(owner["job"]) \in MayHold["job"]
    BY <1>2, <1>3
  <2>2. Wants[Now(owner["job"])] \in {"fire", "session"}
    BY <2>1 DEF Wants, MayHold
  <2> QED
    BY <1>4, <1>5, <2>1, <2>2
<1>7. ASSUME NEW t \in S PROVE Wants[Now(t)] # "gate"
  <2> SUFFICES ASSUME Wants[Now(t)] = "gate" PROVE FALSE
    OBVIOUS
  <2>1. owner["gate"] \in S /\ Now(owner["gate"]) \in MayHold["gate"]
    BY <1>2, <1>3
  <2>2. Wants[Now(owner["gate"])] \in {"job", "fire", "session"}
    BY <2>1 DEF Wants, MayHold
  <2> QED
    BY <1>4, <1>5, <1>6, <2>1, <2>2
<1>8. ASSUME NEW t \in S PROVE Wants[Now(t)] \in Lock
  BY <1>1 DEF Wants, Lock
<1> QED
  BY <1>3, <1>4, <1>5, <1>6, <1>7, <1>8

-----------------------------------------------------------------------------
(* Types.                                                                  *)

DataTypeOK ==
  /\ session \in {"none", "Validating", "Ready", "Running"}
  /\ job \in {"none", "cut", "frame"}
  /\ resources \in [estop_generation : Nat, is_frame : BOOLEAN,
                    repeat : BOOLEAN, held : BOOLEAN]
  /\ fires \in Nat
  /\ fire \in 0..fires
  /\ beam \in 0..fires
  /\ token \in [Deadman -> 0..fires]
  /\ session_epoch \in Nat
  /\ emergency_stop_generation \in Nat
  /\ delivered \in 0..emergency_stop_generation
  /\ job_tick_loop_running \in BOOLEAN
  /\ streaming \in BOOLEAN
  /\ saved \in [User -> [generation : Nat, epoch : Nat, fire_stop_failed : BOOLEAN]]
  /\ begun \in Nat
  /\ calls \in 0..MaxCalls
  /\ faults \in 0..MaxFaults

\* What the threads share has its type when the service starts.
LEMMA DataTypeInit == Init => DataTypeOK
<1> SUFFICES ASSUME Init PROVE DataTypeOK
  OBVIOUS
<1>1. resources \in [estop_generation : Nat, is_frame : BOOLEAN,
                    repeat : BOOLEAN, held : BOOLEAN]
  BY DEF Init, NoResources
<1>2. saved \in [User -> [generation : Nat, epoch : Nat, fire_stop_failed : BOOLEAN]]
  BY DEF Init, NothingSaved
<1>3. /\ fires \in Nat /\ fire \in 0..fires /\ beam \in 0..fires
      /\ session_epoch \in Nat /\ emergency_stop_generation \in Nat
      /\ delivered \in 0..emergency_stop_generation
      /\ calls \in 0..MaxCalls /\ faults \in 0..MaxFaults
      /\ begun \in Nat
  BY ThreadAssumption DEF Init
<1>4. token \in [Deadman -> 0..fires]
  BY <1>3 DEF Init
<1> QED
  BY <1>1, <1>2, <1>3, <1>4 DEF Init, DataTypeOK

\* Every step keeps the types of what the threads share.
LEMMA DataTypeStep == DataTypeOK /\ [Next]_vars => DataTypeOK'
<1> SUFFICES ASSUME DataTypeOK, [Next]_vars PROVE DataTypeOK'
  OBVIOUS
<1> USE ThreadAssumption DEF DataTypeOK
<1>c. UNCHANGED contextVars => DataTypeOK'
  BY DEF contextVars, jobVars, fireVars, sessionVars, stopVars, budgetVars
<1>j. ClearJob => /\ job' \in {"none", "cut", "frame"}
                  /\ resources' \in [estop_generation : Nat, is_frame : BOOLEAN,
                                     repeat : BOOLEAN, held : BOOLEAN]
  BY DEF ClearJob, NoResources
<1>z. 0 \in 0..fires
  OBVIOUS
<1>b. Reset => beam' \in 0..fires /\ streaming' \in BOOLEAN
  BY <1>z DEF Reset
<1>w. \A ok : Write(ok) => faults' \in 0..MaxFaults
  BY DEF Write
<1>f. faults < MaxFaults => faults + 1 \in 0..MaxFaults
  OBVIOUS
<1> USE DEF jobVars, fireVars, sessionVars, stopVars, budgetVars
<1>1. ASSUME NEW t \in User, NEW op \in Ops, Call(t, op) PROVE DataTypeOK'
  <2>1. saved' \in [User -> [generation : Nat, epoch : Nat, fire_stop_failed : BOOLEAN]]
    <3> DEFINE g == IF op \in {"start", "frame"} THEN emergency_stop_generation ELSE 0
               r == [NothingSaved EXCEPT !.generation = g]
    <3>1. g \in Nat
      OBVIOUS
    <3> HIDE DEF g
    <3>2. r \in [generation : Nat, epoch : Nat, fire_stop_failed : BOOLEAN]
      BY <3>1 DEF NothingSaved
    <3> HIDE DEF r
    <3>3. saved' = [saved EXCEPT ![t] = r]
      BY <1>1 DEF Call, r, g
    <3> QED
      BY <3>2, <3>3
  <2> QED
    BY <1>1, <2>1 DEF Call
<1>2. ASSUME NEW t \in User, JobStep(t) PROVE DataTypeOK'
  <2>1. CASE StartJob(t) \/ StartFire(t) \/ StartRefused(t)
    BY <1>c, <2>1 DEF StartJob, StartFire, StartRefused
  <2>2. CASE StartPlan(t)
    BY <2>2 DEF StartPlan
  <2>3. CASE StartSend(t)
    <3>1. PICK again \in BOOLEAN :
             resources' = [estop_generation |-> saved[t].generation, held |-> TRUE,
                     is_frame |-> At(t, "frame_send"), repeat |-> again]
      BY <2>3 DEF StartSend
    <3>2. saved[t].generation \in Nat /\ At(t, "frame_send") \in BOOLEAN
      BY DEF At
    <3>3. resources' \in [estop_generation : Nat, is_frame : BOOLEAN,
                          repeat : BOOLEAN, held : BOOLEAN]
      BY <3>1, <3>2
    <3> QED
      BY <2>3, <3>3 DEF StartSend
  <2>4. CASE StartFails(t)
    BY <2>4 DEF StartFails, Write
  <2>5. CASE CancelJob(t)
    BY <2>5 DEF CancelJob
  <2>6. CASE CancelSession(t)
    BY <1>j, <1>b, <1>w, <2>6 DEF CancelSession
  <2> QED
    BY <1>2, <2>1, <2>2, <2>3, <2>4, <2>5, <2>6 DEF JobStep
<1>3. ASSUME NEW t \in User \cup Loop, TickStep(t) PROVE DataTypeOK'
  <2>1. CASE TickJob(t) \/ TickNothing(t) \/ Recheck(t)
    BY <1>c, <2>1 DEF TickJob, TickNothing, Recheck
  <2>2. CASE TickOn(t)
    <3>1. /\ job' \in {"none", "cut", "frame"}
          /\ resources' \in [estop_generation : Nat, is_frame : BOOLEAN,
                             repeat : BOOLEAN, held : BOOLEAN]
      BY <1>j, <2>2 DEF TickOn
    <3> QED
      BY <2>2, <3>1 DEF TickOn
  <2>9. CASE TickRepeats(t)
    BY <2>9 DEF TickRepeats
  <2>3. CASE TickCompletes(t)
    BY <1>j, <1>w, <2>3 DEF TickCompletes
  <2>4. CASE TickFails(t)
    BY <2>4 DEF TickFails, ClearJob, NoResources
  <2>5. CASE TickFatal(t)
    <3>1. /\ resources' \in [estop_generation : Nat, is_frame : BOOLEAN,
                             repeat : BOOLEAN, held : BOOLEAN]
          /\ session' \in {"none", "Validating", "Ready", "Running"}
          /\ streaming' \in BOOLEAN
      BY <2>5 DEF TickFatal
    <3>2. faults' \in 0..MaxFaults
      BY <1>f, <2>5 DEF TickFatal
    <3> QED
      BY <2>5, <3>1, <3>2 DEF TickFatal
  <2>6. CASE Drop(t)
    <3>1. /\ beam' \in 0..fires /\ streaming' \in BOOLEAN /\ faults' \in 0..MaxFaults
      BY <1>b, <1>w, <2>6 DEF Drop
    <3> QED
      BY <2>6, <3>1 DEF Drop
  <2>7. CASE Cleanup(t)
    BY <2>7 DEF Cleanup, ClearJob, NoResources
  <2>8. CASE Spawn(t) \/ Vacate(t)
    BY <2>8 DEF Spawn, Vacate
  <2> QED
    BY <1>3, <2>1, <2>2, <2>3, <2>4, <2>5, <2>6, <2>7, <2>8, <2>9 DEF TickStep
<1>4. ASSUME NEW t \in User, SessionStep(t) PROVE DataTypeOK'
  <2>1. CASE \/ Moving(t) \/ Gate(t) \/ ConnectCheck(t) \/ DisconnectJob(t)
             \/ HomeJob(t) \/ MoveFire(t) \/ Move(t)
    BY <1>c, <2>1 DEF Moving, Gate, ConnectCheck, DisconnectJob, HomeJob, MoveFire, Move
  <2>2. CASE Refresh(t)
    BY <2>2 DEF Refresh, Write
  <2>3. CASE ConnectOpen(t)
    BY <2>3 DEF ConnectOpen
  <2>4. CASE DisconnectSession(t)
    <3>1. /\ beam' \in 0..fires /\ streaming' \in BOOLEAN /\ faults' \in 0..MaxFaults
      BY <1>b, <1>w, <2>4 DEF DisconnectSession
    <3> QED
      BY <2>4, <3>1 DEF DisconnectSession
  <2>5. CASE DisconnectFire(t)
    BY <2>5 DEF DisconnectFire, ClearJob, NoResources
  <2>6. CASE Bump(t)
    BY <2>6 DEF Bump
  <2>7. CASE Stop(t)
    <3>0. /\ emergency_stop_generation \in 0..emergency_stop_generation
          /\ UNCHANGED <<fires, emergency_stop_generation>>
      BY <2>7 DEF Stop
    <3>1. /\ beam' \in 0..fires /\ streaming' \in BOOLEAN /\ faults' \in 0..MaxFaults
          /\ delivered' \in 0..emergency_stop_generation
          /\ session' \in {"none", "Validating", "Ready", "Running"}
      BY <1>b, <1>w, <2>7, <3>0 DEF Stop
    <3> QED
      BY <2>7, <3>1 DEF Stop
  <2>8. CASE StopJob(t)
    BY <2>8 DEF StopJob, ClearJob, NoResources
  <2> QED
    BY <1>4, <2>1, <2>2, <2>3, <2>4, <2>5, <2>6, <2>7, <2>8 DEF SessionStep
<1>5. ASSUME NEW t \in User \cup Deadman, FireStep(t) PROVE DataTypeOK'
  <2>1. CASE Mark(t) \/ FireJob(t) \/ FireArm(t) \/ FireRefused(t) \/ Release(t)
    BY <1>c, <2>1 DEF Mark, FireJob, FireArm, FireRefused, Release
  <2>2. CASE M5(t)
    <3>1. /\ beam' \in 0..fires /\ faults' \in 0..MaxFaults
      BY <1>w, <2>2 DEF M5
    <3>2. saved' \in [User -> [generation : Nat, epoch : Nat, fire_stop_failed : BOOLEAN]]
      <4>1. CASE UNCHANGED saved
        BY <4>1
      <4>2. CASE ~UNCHANGED saved
        <5>1. PICK ok \in BOOLEAN : /\ t \in User
                                    /\ saved' = [saved EXCEPT ![t].fire_stop_failed = ~ok]
          BY <2>2, <4>2 DEF M5
        <5>2. PICK no \in BOOLEAN : saved' = [saved EXCEPT ![t].fire_stop_failed = no]
          BY <5>1, Zenon
        <5> QED
          BY <5>1, <5>2
      <4> QED
        BY <4>1, <4>2
    <3> QED
      BY <2>2, <3>1, <3>2 DEF M5, UNCHANGEDButFire
  <2>3. CASE Take(t)
    BY <2>3 DEF Take, UNCHANGEDButFire
  <2>4. CASE FireOn(t)
    BY <2>4 DEF FireOn, SpawnDeadman, UNCHANGEDButFire
  <2>5. CASE FireOnFails(t)
    <3>1. CASE UNCHANGED <<fire, token, fires>>
      <4>1. beam' = 0 \/ fires' = fires + 1
        BY <2>5 DEF FireOnFails
      <4>2. faults' = faults + 1
        BY <2>5, <3>1, <4>1 DEF FireOnFails
      <4> QED
        BY <1>f, <2>5, <3>1, <4>1, <4>2 DEF FireOnFails, UNCHANGEDButFire
    <3>2. CASE SpawnDeadman(t) /\ fires' = fires + 1 /\ faults + 2 <= MaxFaults
      BY <2>5, <3>2 DEF FireOnFails, SpawnDeadman, UNCHANGEDButFire
    <3> QED
      BY <2>5, <3>1, <3>2 DEF FireOnFails
  <2> QED
    BY <1>5, <2>1, <2>2, <2>3, <2>4, <2>5 DEF FireStep
<1>6. ASSUME NEW d \in Deadman, Watch(d) PROVE DataTypeOK'
  BY <1>6, <1>c DEF Watch
<1>7. CASE UNCHANGED vars
  BY <1>7, <1>c DEF vars
<1> QED
  BY <1>1, <1>2, <1>3, <1>4, <1>5, <1>6, <1>7
    DEF Next, Calls, Jobs, Ticks, Sessions, Fires, Watches, Quiescent

-----------------------------------------------------------------------------
(* What a step does to the job, the test fire and the tick loop.           *)

\* The job stays (its repeat may be switched off), is dropped with what belongs
\* to it, or is stored by the step that sent its first lines.
JobEffect(t) ==
  \/ /\ job' = job
     /\ resources' = resources \/ resources' = [resources EXCEPT !.repeat = FALSE]
  \/ job' = "none" /\ resources' = NoResources
  \/ /\ Now(t) \in {"start_send", "frame_send"} /\ Now(t)' = "spawn"
     /\ job' = IF Now(t) = "start_send" THEN "cut" ELSE "frame"
     /\ resources'.held = TRUE
     /\ resources'.is_frame <=> Now(t) = "frame_send"

\* A fire is armed only by the step that sends its M3, after the job was looked
\* for; a start looks for a fire before it plans.
FireEffect(t) ==
  /\ fire' \in {fire, 0} \/ Now(t) = "fire_send"
  /\ Now(t)' = "fire_arm" => job' = "none"
  /\ Now(t)' = "start_plan" => fire' = 0

\* The tick loop is entered by a spawn and left by the thread that looks for
\* another job after.
LoopEffect(t) ==
  /\ \/ job_tick_loop_running' = job_tick_loop_running
     \/ job_tick_loop_running'
     \/ t \in Loop /\ Now(t) = "vacate" /\ Now(t)' = "recheck"
  /\ Now(t) = "spawn" => job_tick_loop_running'
  /\ Now(t) = "recheck" => job' = job /\ (job = "none" \/ Now(t)' = "spawn")

\* First lines are sent for the stop generation there is; those of a cutting job
\* on the connection it was planned for.
BeginEffect(t) ==
  \/ begun' = begun
  \/ /\ resources'.estop_generation = emergency_stop_generation
     /\ job' = job
  \/ /\ resources'.estop_generation = emergency_stop_generation
     /\ Now(t) = "start_send" => session_epoch = saved[t].epoch
     /\ \A u \in Thread \ {t} : todo'[u] = todo[u]

DataEffect(t) == JobEffect(t) /\ FireEffect(t) /\ LoopEffect(t) /\ BeginEffect(t)

\* Only the steps that look for a job lead to arming a fire, and only the one that
\* looks for a fire leads to planning a job.
LEMMA WhereFrom ==
  ASSUME NEW t \in Thread, Moved(t), todo[t] # <<>>, Now(t) \notin {"fire_job", "start_fire"}
  PROVE  Now(t)' # "fire_arm" /\ Now(t)' # "start_plan"
<1>1. CASE Now(t) \in DOMAIN Keeps /\ Now(t)' \in Follows(t)[Now(t)]
  BY <1>1 DEF Keeps, Follows
<1>2. CASE Now(t) \in DOMAIN Goes /\ Now(t)' \in Goes[Now(t)]
  BY <1>2 DEF Goes
<1> QED
  BY <1>1, <1>2 DEF Moved, Effect, Called

\* A step that changes neither the job nor the loop, and at most drops the fire.
LEMMA NoDataEffect ==
  ASSUME NEW t \in Thread, Moved(t), todo[t] # <<>>,
         UNCHANGED <<job, resources, job_tick_loop_running, begun>>,
         fire' \in {fire, 0},
         Now(t) \notin {"fire_job", "start_fire", "spawn", "recheck"}
  PROVE  DataEffect(t)
  BY WhereFrom DEF DataEffect, JobEffect, FireEffect, LoopEffect, BeginEffect

\* A step that drops the job, or may.
LEMMA ClearEffect ==
  ASSUME NEW t \in Thread, Moved(t), todo[t] # <<>>,
         ClearJob \/ UNCHANGED <<job, resources>>,
         UNCHANGED <<job_tick_loop_running, begun>>, fire' \in {fire, 0},
         Now(t) \notin {"fire_job", "start_fire", "spawn", "recheck"}
  PROVE  DataEffect(t)
  BY WhereFrom DEF DataEffect, JobEffect, FireEffect, LoopEffect, BeginEffect, ClearJob

\* The effects of the steps of starting and cancelling a job.
LEMMA JobEffects ==
  ASSUME NEW t \in User, ShapeInv, JobStep(t)
  PROVE  DataEffect(t)
<1> t \in Thread
  BY ThreadAssumption
<1> Moved(t)
  BY JobMoves
<1> USE DEF fireVars, jobVars, sessionVars, stopVars, budgetVars, contextVars
<1>0. \A s : At(t, s) => todo[t] # <<>> /\ Now(t) = s
  BY DEF At, Now, NextStep
<1>1. CASE StartJob(t)
  BY <1>0, <1>1, NoDataEffect DEF StartJob
<1>2. CASE StartFire(t)
  <2>1. /\ Now(t) = "start_fire" /\ todo[t] # <<>>
        /\ UNCHANGED <<job, resources, job_tick_loop_running, begun, fire>>
        /\ fire # 0 => Now(t)' = "return"
    BY <1>0, <1>2, MovedReturn DEF StartFire, StopSteps
  <2>2. Now(t)' # "fire_arm"
    <3>1. CASE Proceed(t)
      <4>1. Now(t)' \in Follows(t)["start_fire"]
        BY <2>1, <3>1, Proceeds
      <4> QED
        BY <4>1 DEF Follows
    <3> QED
      BY <1>2, <2>1, <3>1 DEF StartFire
  <2> QED
    BY <2>1, <2>2 DEF DataEffect, JobEffect, FireEffect, LoopEffect, BeginEffect
<1>3. CASE StartPlan(t) \/ StartRefused(t) \/ StartFails(t)
  BY <1>0, <1>3, NoDataEffect DEF StartPlan, StartRefused, StartFails, Sending
<1>4. CASE StartSend(t)
  <2>1. /\ todo[t] # <<>> /\ Now(t) \in {"start_send", "frame_send"}
        /\ At(t, "start_send") <=> Now(t) = "start_send"
        /\ At(t, "frame_send") <=> Now(t) = "frame_send"
        /\ todo' = [todo EXCEPT ![t] = <<"spawn">>]
        /\ ~MustNotSend(t)
        /\ job' = IF At(t, "start_send") THEN "cut" ELSE "frame"
        /\ UNCHANGED <<fire, job_tick_loop_running>>
    BY <1>0, <1>4 DEF StartSend, Sending, Goto
  <2>2. PICK again \in BOOLEAN :
          resources' = [estop_generation |-> saved[t].generation, held |-> TRUE,
                        is_frame |-> At(t, "frame_send"), repeat |-> again]
    BY <1>4 DEF StartSend
  <2>3. /\ resources'.estop_generation = saved[t].generation
        /\ resources'.held = TRUE
        /\ resources'.is_frame <=> At(t, "frame_send")
    BY <2>2
  <2>4. Now(t)' = "spawn" /\ \A u \in Thread \ {t} : todo'[u] = todo[u]
    BY <2>1 DEF Now, NextStep, ShapeInv
  <2>5. emergency_stop_generation = saved[t].generation
        /\ (Now(t) = "start_send" => session_epoch = saved[t].epoch)
    BY <2>1 DEF MustNotSend, StopPressed
  <2>6. JobEffect(t)
    BY <2>1, <2>3, <2>4 DEF JobEffect
  <2> QED
    BY <2>1, <2>3, <2>4, <2>5, <2>6 DEF DataEffect, FireEffect, LoopEffect, BeginEffect
<1>5. CASE CancelJob(t)
  <2>1. /\ Now(t) = "cancel_job" /\ todo[t] # <<>>
        /\ UNCHANGED <<job, job_tick_loop_running, begun, fire>>
        /\ resources' = [resources EXCEPT !.repeat = FALSE]
    BY <1>0, <1>5 DEF CancelJob
  <2> QED
    BY <2>1, WhereFrom DEF DataEffect, JobEffect, FireEffect, LoopEffect, BeginEffect
<1>6. CASE CancelSession(t)
  BY <1>0, <1>6, ClearEffect DEF CancelSession
<1> QED
  BY <1>1, <1>2, <1>3, <1>4, <1>5, <1>6 DEF JobStep

\* The effects of the steps of ticking a job and of the tick loop.
LEMMA TickEffects ==
  ASSUME NEW t \in User \cup Loop, ShapeInv, TickStep(t)
  PROVE  DataEffect(t)
<1> t \in Thread /\ t \notin Deadman
  BY ThreadAssumption
<1> Moved(t)
  BY TickMoves
<1> USE DEF fireVars, jobVars, sessionVars, stopVars, budgetVars, contextVars
<1>0. \A s : At(t, s) => todo[t] # <<>> /\ Now(t) = s
  BY DEF At, Now, NextStep
<1>1. CASE TickJob(t) \/ TickNothing(t) \/ Drop(t)
  <2>1. /\ Now(t) \in {"tick_job", "tick", "drop"} /\ todo[t] # <<>>
        /\ UNCHANGED <<job, resources, job_tick_loop_running, begun, fire>>
    BY <1>0, <1>1 DEF TickJob, TickNothing, Ticking, Drop
  <2> QED
    BY <2>1, NoDataEffect
<1>2. CASE TickOn(t) \/ TickCompletes(t) \/ TickFails(t) \/ Cleanup(t)
  <2>1. /\ Now(t) \in {"tick", "cleanup"} /\ todo[t] # <<>>
        /\ ClearJob \/ UNCHANGED <<job, resources>>
        /\ UNCHANGED <<job_tick_loop_running, begun, fire>>
    BY <1>0, <1>2 DEF TickOn, TickCompletes, TickFails, Cleanup, Ticking
  <2> QED
    BY <2>1, ClearEffect
<1>3. CASE TickRepeats(t)
  <2>1. /\ Now(t) = "tick" /\ todo[t] # <<>>
        /\ UNCHANGED <<job, resources, job_tick_loop_running, fire>>
        /\ emergency_stop_generation = resources.estop_generation
    BY <1>0, <1>3 DEF TickRepeats, Ticking, Repeats
  <2> QED
    BY <2>1, WhereFrom DEF DataEffect, JobEffect, FireEffect, LoopEffect, BeginEffect
<1>4. CASE TickFatal(t)
  <2>1. /\ Now(t) = "tick" /\ todo[t] # <<>>
        /\ UNCHANGED <<job, job_tick_loop_running, begun, fire>>
        /\ resources' = resources \/ resources' = [resources EXCEPT !.repeat = FALSE]
    BY <1>0, <1>4 DEF TickFatal, Ticking
  <2> QED
    BY <2>1, WhereFrom DEF DataEffect, JobEffect, FireEffect, LoopEffect, BeginEffect
<1>5. CASE Spawn(t)
  <2>1. /\ Now(t) = "spawn" /\ todo[t] # <<>>
        /\ UNCHANGED <<job, resources, begun, fire>> /\ job_tick_loop_running'
    BY <1>0, <1>5 DEF Spawn
  <2> QED
    BY <2>1, WhereFrom DEF DataEffect, JobEffect, FireEffect, LoopEffect, BeginEffect
<1>6. CASE Vacate(t)
  <2>1. /\ Now(t) = "vacate" /\ todo[t] # <<>>
        /\ UNCHANGED <<job, resources, begun, fire>>
    BY <1>0, <1>6 DEF Vacate
  <2>2. t \in Loop /\ Now(t)' = "recheck"
    <3>1. Now(t) \in StepsOf(t) /\ Now(t)' \in Follows(t)[Now(t)]
      BY <1>6, <2>1, Proceeds DEF Vacate
    <3> QED
      BY <2>1, <3>1 DEF StepsOf, Follows
  <2> QED
    BY <2>1, <2>2, WhereFrom DEF DataEffect, JobEffect, FireEffect, LoopEffect, BeginEffect
<1>7. CASE Recheck(t)
  <2>1. /\ Now(t) = "recheck" /\ todo[t] # <<>>
        /\ UNCHANGED <<job, resources, job_tick_loop_running, begun, fire>>
        /\ job # "none" => Goto(t, <<"spawn">>)
    BY <1>0, <1>7 DEF Recheck
  <2>2. job # "none" => Now(t)' = "spawn"
    <3> SUFFICES ASSUME job # "none" PROVE Now(t)' = "spawn"
      OBVIOUS
    <3>1. todo'[t] = <<"spawn">>
      BY <2>1 DEF Goto, ShapeInv
    <3> QED
      BY <3>1 DEF Now, NextStep
  <2> QED
    BY <2>1, <2>2, WhereFrom DEF DataEffect, JobEffect, FireEffect, LoopEffect, BeginEffect
<1> QED
  BY <1>1, <1>2, <1>3, <1>4, <1>5, <1>6, <1>7 DEF TickStep

\* The effects of the steps of status, connect, disconnect, Emergency Stop, home
\* and jog.
LEMMA SessionEffects ==
  ASSUME NEW t \in User, ShapeInv, SessionStep(t)
  PROVE  DataEffect(t)
<1> t \in Thread
  BY ThreadAssumption
<1> Moved(t)
  BY SessionMoves
<1> USE DEF fireVars, jobVars, sessionVars, stopVars, budgetVars, contextVars
<1>0. \A s : At(t, s) => todo[t] # <<>> /\ Now(t) = s
  BY DEF At, Now, NextStep
<1>1. CASE \/ Refresh(t) \/ Moving(t) \/ Gate(t) \/ ConnectCheck(t) \/ ConnectOpen(t)
           \/ DisconnectJob(t) \/ DisconnectSession(t)
  BY <1>0, <1>1, NoDataEffect
    DEF Refresh, Moving, Gate, ConnectCheck, ConnectOpen, DisconnectJob, DisconnectSession
<1>2. CASE Bump(t) \/ Stop(t) \/ HomeJob(t) \/ MoveFire(t) \/ Move(t)
  BY <1>0, <1>2, NoDataEffect DEF Bump, Stop, HomeJob, MoveFire, Move
<1>3. CASE DisconnectFire(t) \/ StopJob(t)
  BY <1>0, <1>3, ClearEffect DEF DisconnectFire, StopJob
<1> QED
  BY <1>1, <1>2, <1>3 DEF SessionStep

\* The effects of the steps of test fires.
LEMMA FireEffects ==
  ASSUME NEW t \in User \cup Deadman, ShapeInv, FireStep(t)
  PROVE  DataEffect(t)
<1> t \in Thread
  BY ThreadAssumption
<1> Moved(t)
  BY FireMoves
<1> USE DEF fireVars, jobVars, sessionVars, stopVars, budgetVars, contextVars, UNCHANGEDButFire
<1>0. \A s : At(t, s) => todo[t] # <<>> /\ Now(t) = s
  BY DEF At, Now, NextStep
<1>1. CASE Mark(t) \/ M5(t) \/ Take(t)
  BY <1>0, <1>1, NoDataEffect DEF Mark, M5, Take
<1>2. CASE FireJob(t)
  <2>1. /\ Now(t) = "fire_job" /\ todo[t] # <<>>
        /\ UNCHANGED <<job, resources, job_tick_loop_running, begun, fire>>
        /\ job # "none" => Now(t)' = "return"
    BY <1>0, <1>2, MovedReturn DEF FireJob, StopSteps
  <2>2. Now(t)' # "start_plan"
    <3>1. CASE Proceed(t)
      <4>1. Now(t)' \in Follows(t)["fire_job"]
        BY <2>1, <3>1, Proceeds
      <4> QED
        BY <4>1 DEF Follows
    <3> QED
      BY <1>2, <2>1, <3>1 DEF FireJob
  <2> QED
    BY <2>1, <2>2 DEF DataEffect, JobEffect, FireEffect, LoopEffect, BeginEffect
<1>3. CASE FireArm(t) \/ FireRefused(t) \/ Release(t)
  BY <1>0, <1>3, NoDataEffect DEF FireArm, FireRefused, Release
<1>4. CASE FireOn(t) \/ FireOnFails(t)
  <2>1. /\ Now(t) = "fire_send" /\ todo[t] # <<>>
        /\ UNCHANGED <<job, resources, job_tick_loop_running, begun>>
    BY <1>0, <1>4 DEF FireOn, FireOnFails
  <2> QED
    BY <2>1, WhereFrom DEF DataEffect, JobEffect, FireEffect, LoopEffect, BeginEffect
<1> QED
  BY <1>1, <1>2, <1>3, <1>4 DEF FireStep

\* The effects of a call.
LEMMA CallEffects ==
  ASSUME NEW t \in User, NEW op \in Ops, ShapeInv, Call(t, op)
  PROVE  DataEffect(t)
<1>1. /\ op \in DOMAIN Program /\ todo[t] = <<>> /\ Goto(t, Program[op]) /\ t \in Thread
      /\ UNCHANGED <<job, resources, job_tick_loop_running, begun, fire>>
  BY OpsAssumption, ThreadAssumption DEF Call, Resting, fireVars, jobVars
<1>2. Now(t)' = NextStep(Program[op]) /\ Now(t) = "return"
  BY <1>1 DEF Goto, Now, ShapeInv, NextStep
<1>3. Now(t)' # "fire_arm" /\ Now(t)' # "start_plan"
  BY <1>1, <1>2, ProgramsShaped
<1> QED
  BY <1>1, <1>2, <1>3 DEF DataEffect, JobEffect, FireEffect, LoopEffect, BeginEffect

\* The effects of a round of the deadman.
LEMMA WatchEffects ==
  ASSUME NEW d \in Deadman, ShapeInv, Watch(d)
  PROVE  DataEffect(d)
<1>1. d \in Thread /\ Moved(d) /\ todo[d] # <<>> /\ Now(d) = "watch"
  BY WatchMoves, ThreadAssumption DEF Watch, At, Now, NextStep
<1> QED
  BY <1>1, NoDataEffect DEF Watch, contextVars, fireVars, jobVars

\* Every step is one of a thread that moves, with these effects.
LEMMA StepEffects ==
  ASSUME ShapeInv, [Next]_vars
  PROVE  UNCHANGED vars \/ \E t \in Thread : Moved(t) /\ DataEffect(t)
<1>1. User \cup Loop \cup Deadman = Thread
  BY ThreadAssumption
<1>2. CASE Calls
  BY <1>1, <1>2, CallMoves, CallEffects DEF Calls
<1>3. CASE Jobs
  BY <1>1, <1>3, JobMoves, JobEffects DEF Jobs
<1>4. CASE Ticks
  BY <1>1, <1>4, TickMoves, TickEffects DEF Ticks
<1>5. CASE Sessions
  BY <1>1, <1>5, SessionMoves, SessionEffects DEF Sessions
<1>6. CASE Fires
  BY <1>1, <1>6, FireMoves, FireEffects DEF Fires
<1>7. CASE Watches
  BY <1>1, <1>7, WatchMoves, WatchEffects DEF Watches
<1>8. CASE Quiescent \/ UNCHANGED vars
  BY <1>8 DEF Quiescent
<1> QED
  BY <1>2, <1>3, <1>4, <1>5, <1>6, <1>7, <1>8 DEF Next

\* Every step keeps the mutexes with the threads that may hold them.
LEMMA LocksInvStep == LocksInv /\ [Next]_vars => LocksInv'
<1> SUFFICES ASSUME LocksInv, [Next]_vars PROVE LocksInv'
  OBVIOUS
<1>1. ASSUME UNCHANGED vars PROVE LocksInv'
  BY <1>1 DEF LocksInv, ShapeInv, InProgram, LockInv, GateInv, Now, Rest, lockVars, vars
<1> QED
  BY <1>1, LocksInvMoved, StepEffects DEF LocksInv

-----------------------------------------------------------------------------
(* The job, its resources, the test fire and the tick loop.                *)

ResourcesInv ==
  /\ resources.held <=> job # "none"
  /\ resources.is_frame <=> job = "frame"

\* A thread about to arm a fire found no job, and one about to plan or start a
\* job found no fire; both hold the job mutex until they have acted on it.
ExclusionInv ==
  /\ JobExcludesFire
  /\ \A t \in Thread :
       /\ Now(t) \in {"fire_arm", "fire_send"} => job = "none"
       /\ Now(t) \in {"start_plan", "start_send"} => fire = 0

ServiceInv == LocksInv /\ DataTypeOK /\ ResourcesInv /\ ExclusionInv /\ JobIsDriven

\* The service starts without a job, a fire or a loop.
LEMMA ServiceInvInit == Init => ServiceInv
<1> SUFFICES ASSUME Init PROVE ServiceInv
  OBVIOUS
<1>1. LocksInv /\ DataTypeOK
  BY LocksInvInit, DataTypeInit
<1>2. ResourcesInv /\ JobIsDriven /\ JobExcludesFire
  BY DEF Init, ResourcesInv, JobIsDriven, JobExcludesFire, NoResources
<1>3. ExclusionInv
  BY <1>2 DEF ExclusionInv, Init
<1> QED
  BY <1>1, <1>2, <1>3 DEF ServiceInv

\* The resources follow the job through every step.
LEMMA ResourcesStep ==
  ASSUME DataTypeOK, ResourcesInv, NEW t \in Thread, JobEffect(t)
  PROVE  ResourcesInv'
<1>1. CASE job' = job /\ (resources' = resources \/ resources' = [resources EXCEPT !.repeat = FALSE])
  <2>1. resources'.held = resources.held /\ resources'.is_frame = resources.is_frame
    BY <1>1 DEF DataTypeOK
  <2> QED
    BY <1>1, <2>1 DEF ResourcesInv
<1>2. CASE job' = "none" /\ resources' = NoResources
  BY <1>2 DEF ResourcesInv, NoResources
<1>3. CASE /\ job' = IF Now(t) = "start_send" THEN "cut" ELSE "frame"
           /\ Now(t) \in {"start_send", "frame_send"}
           /\ resources'.held = TRUE
           /\ resources'.is_frame <=> Now(t) = "frame_send"
  BY <1>3 DEF ResourcesInv
<1> QED
  BY <1>1, <1>2, <1>3 DEF JobEffect

\* What the threads elsewhere are at.
LEMMA NowElsewhere ==
  ASSUME NEW t \in Thread, Moved(t), NEW u \in Thread \ {t}
  PROVE  \/ Now(u)' = Now(u) /\ todo'[u] = todo[u]
         \/ Now(u) = "return" /\ todo[u] = <<>> /\ Now(u)' \in {"watch", "tick_job"}
  BY DEF Moved, Elsewhere, Now, NextStep

\* Sending an M3 follows arming the fire, and starting a job follows planning it.
LEMMA WhereTo ==
  ASSUME NEW t \in Thread, Moved(t)
  PROVE  /\ Now(t)' = "fire_send" => Now(t) = "fire_arm"
         /\ Now(t)' = "start_send" => Now(t) = "start_plan"
<1>1. CASE Now(t) \in DOMAIN Keeps /\ Now(t)' \in Follows(t)[Now(t)]
  BY <1>1 DEF Keeps, Follows
<1>2. CASE Now(t) \in DOMAIN Goes /\ Now(t)' \in Goes[Now(t)]
  BY <1>2 DEF Goes
<1>3. CASE Called(t)
  <2>1. PICK op \in DOMAIN Program : todo'[t] = Program[op] /\ t \in User /\ todo[t] = <<>>
    BY <1>3, OpsAssumption DEF Called
  <2>2. Now(t)' = NextStep(Program[op]) /\ Now(t) = "return"
    BY <2>1 DEF Now, NextStep
  <2> QED
    BY <2>1, <2>2, ProgramsShaped
<1>4. CASE Now(t) \in Lets /\ Now(t)' \in {"spawn", "drop", "refresh", "moving", "tick_job", "vacate"}
  BY <1>4 DEF Lets
<1> QED
  BY <1>1, <1>2, <1>3, <1>4 DEF Moved, Effect

\* What a thread found under the job mutex stays true until it has acted on it.
LEMMA ExclusionStep ==
  ASSUME LocksInv, ExclusionInv, NEW t \in Thread, Moved(t), JobEffect(t), FireEffect(t)
  PROVE  ExclusionInv'
<1>j. /\ "job" \in Lock
      /\ {"fire_arm", "fire_send", "start_plan", "start_send", "frame_send"} \subseteq MustHold["job"]
  BY DEF MustHold, Lock
<1>o. ASSUME NEW u \in Thread, Now(u) \in MustHold["job"], Now(t) \in MustHold["job"]
      PROVE  u = t
  BY <1>j, <1>o DEF LocksInv, LockInv
<1>e. ASSUME NEW u \in Thread
      PROVE  /\ Now(u) \in {"fire_arm", "fire_send"} => job = "none"
             /\ Now(u) \in {"start_plan", "start_send"} => fire = 0
  BY DEF ExclusionInv
<1>g. /\ job' = job \/ job' = "none" \/ Now(t) \in {"start_send", "frame_send"}
      /\ job' = "cut" => job = "cut" \/ Now(t) = "start_send"
      /\ fire' \in {fire, 0} \/ Now(t) = "fire_send"
  BY DEF JobEffect, FireEffect
<1>1. JobExcludesFire'
  BY <1>e, <1>g DEF ExclusionInv, JobExcludesFire
<1>2. ASSUME NEW u \in Thread
      PROVE  /\ Now(u)' \in {"fire_arm", "fire_send"} => job' = "none"
             /\ Now(u)' \in {"start_plan", "start_send"} => fire' = 0
  <2>1. CASE u = t
    <3>1. /\ Now(t)' = "fire_arm" => job' = "none"
          /\ Now(t)' = "start_plan" => fire' = 0
      BY DEF FireEffect
    <3>2. /\ Now(t)' = "fire_send" => Now(t) = "fire_arm"
          /\ Now(t)' = "start_send" => Now(t) = "start_plan"
      BY WhereTo
    <3> QED
      BY <1>e, <1>g, <2>1, <3>1, <3>2
  <2>2. CASE u # t
    <3>1. Now(u)' = Now(u) \/ Now(u)' \in {"watch", "tick_job"}
      BY <2>2, NowElsewhere
    <3> QED
      BY <1>e, <1>g, <1>j, <1>o, <2>2, <3>1
  <2> QED
    BY <2>1, <2>2
<1> QED
  BY <1>1, <1>2 DEF ExclusionInv, Now

\* A thread at a step.
LEMMA AtIsNow == \A t : \A s \in Step : Now(t) = s <=> At(t, s)
  BY StepsAreSteps DEF At, Now, NextStep

\* A job is driven after every step, by the thread that moved or another.
LEMMA DrivenStep ==
  ASSUME JobIsDriven, NEW t \in Thread, Moved(t), JobEffect(t), LoopEffect(t)
  PROVE  JobIsDriven'
<1> SUFFICES ASSUME job' # "none"
             PROVE  \/ job_tick_loop_running'
                    \/ \E u \in Thread : At(u, "spawn")'
                    \/ \E u \in Loop : At(u, "recheck")'
  BY DEF JobIsDriven
<1>s. {"spawn", "recheck", "vacate"} \subseteq Step /\ Loop \subseteq Thread
  BY ThreadAssumption DEF Step, Wants
<1>n. \A u : /\ Now(u)' = "spawn" => At(u, "spawn")'
             /\ Now(u)' = "recheck" => At(u, "recheck")'
  BY DEF At, Now, NextStep
<1>u. ASSUME NEW u \in Thread, u # t, NEW s \in {"spawn", "recheck"}, At(u, s)
      PROVE  At(u, s)'
  <2>1. todo'[u] = todo[u]
    BY <1>u, NowElsewhere DEF At
  <2> QED
    BY <1>u, <2>1 DEF At
<1>1. CASE Now(t) \in {"start_send", "frame_send"} /\ Now(t)' = "spawn"
  BY <1>1, <1>n
<1>2. CASE job' = job
  <2>0. /\ job # "none"
        /\ \/ job_tick_loop_running
           \/ \E u \in Thread : At(u, "spawn")
           \/ \E u \in Loop : At(u, "recheck")
    BY <1>2 DEF JobIsDriven
  <2>1. CASE job_tick_loop_running
    <3>1. CASE t \in Loop /\ Now(t)' = "recheck"
      BY <1>n, <3>1
    <3> QED
      BY <2>1, <3>1 DEF LoopEffect
  <2>2. CASE \E u \in Thread : At(u, "spawn")
    <3>1. PICK u \in Thread : At(u, "spawn")
      BY <2>2
    <3>2. CASE u = t
      BY <3>1, <3>2 DEF LoopEffect, At, Now, NextStep
    <3> QED
      BY <1>u, <3>1, <3>2
  <2>3. CASE \E u \in Loop : At(u, "recheck")
    <3>1. PICK u \in Loop : At(u, "recheck")
      BY <2>3
    <3>2. CASE u = t
      <4>1. Now(t) = "recheck"
        BY <3>1, <3>2 DEF At, Now, NextStep
      <4>2. Now(t)' = "spawn"
        BY <2>0, <4>1 DEF LoopEffect
      <4> QED
        BY <1>n, <4>2
    <3> QED
      BY <1>s, <1>u, <3>1, <3>2
  <2> QED
    BY <2>0, <2>1, <2>2, <2>3
<1> QED
  BY <1>1, <1>2 DEF JobEffect

\* Every step keeps the invariant.
LEMMA ServiceInvStep == ServiceInv /\ [Next]_vars => ServiceInv'
<1> SUFFICES ASSUME ServiceInv, [Next]_vars PROVE ServiceInv'
  OBVIOUS
<1>1. LocksInv' /\ DataTypeOK'
  BY LocksInvStep, DataTypeStep DEF ServiceInv
<1>2. CASE UNCHANGED vars
  <2>1. UNCHANGED <<todo, job, resources, fire, job_tick_loop_running>>
    BY <1>2 DEF vars, lockVars, contextVars, fireVars, jobVars
  <2> QED
    BY <1>1, <2>1 DEF ServiceInv, ResourcesInv, ExclusionInv, JobIsDriven, JobExcludesFire,
                      Now, At
<1>3. ASSUME NEW t \in Thread, Moved(t), DataEffect(t) PROVE ServiceInv'
  BY <1>1, <1>3, ResourcesStep, ExclusionStep, DrivenStep DEF ServiceInv, DataEffect
<1> QED
  BY <1>2, <1>3, StepEffects DEF ServiceInv, LocksInv

\* The inductive invariant holds throughout.
LEMMA ServiceInvariant == Spec => []ServiceInv
  BY ServiceInvInit, ServiceInvStep, PTL DEF Spec

-----------------------------------------------------------------------------
(* What the service guarantees.                                            *)

\* Every variable of the service keeps its type.
THEOREM ServiceTypeCorrect == Spec => []TypeOK
<1>1. ServiceInv => TypeOK
  BY DEF ServiceInv, LocksInv, ShapeInv, DataTypeOK, TypeOK, LocksTypeOK
<1> QED
  BY <1>1, ServiceInvariant, PTL

\* However many users, tick loops and deadmen there are, they never all wait for
\* each other's mutexes: the controller gate, the job, the armed fire and the
\* session are acquired in this order, but for a disconnect that holds the session
\* while it takes the fire, and the job with it.  A jog, which takes the fire and
\* the session without the job, is excluded: with it there is a cycle.
THEOREM ServiceNeverDeadlocks ==
  ASSUME "jog" \notin Ops
  PROVE  Spec => []NoCircularWait
<1>1. ServiceInv => NoCircularWait
  BY NoCycle DEF ServiceInv
<1> QED
  BY <1>1, ServiceInvariant, PTL

\* The sleep protection, repeat and stop generation of a job are there as long as
\* the job, whichever of its ends it meets.
THEOREM ResourcesAlwaysFollowJob == Spec => []ResourcesFollowJob
<1>1. ServiceInv => ResourcesFollowJob
  BY DEF ServiceInv, ResourcesInv, ResourcesFollowJob
<1> QED
  BY <1>1, ServiceInvariant, PTL

\* A cutting job is never started over an armed test fire, and no fire is armed
\* over a job: each looks for the other before it has sent anything, with the job
\* mutex held until it has.
THEOREM JobAlwaysExcludesFire == Spec => []JobExcludesFire
<1>1. ServiceInv => JobExcludesFire
  BY DEF ServiceInv, ExclusionInv
<1> QED
  BY <1>1, ServiceInvariant, PTL

\* No job is left that nothing ticks: the thread that stored it starts the loop,
\* and a loop that ends looks for another job after it has given up its place.
THEOREM JobIsAlwaysDriven == Spec => []JobIsDriven
<1>1. ServiceInv => JobIsDriven
  BY DEF ServiceInv
<1> QED
  BY <1>1, ServiceInvariant, PTL

\* The first lines of a job or of a pass are sent only if no Emergency Stop was
\* delivered since it was asked for, and those of a cutting job only on the
\* connection it was compiled for.
THEOREM PreparedJobsAreCurrent == Spec => PreparedJobIsCurrent
<1> DEFINE A == begun' # begun =>
       /\ delivered <= resources'.estop_generation
       /\ \A t \in User :
            At(t, "start_send") /\ job # job' /\ todo'[t] # todo[t]
              => session_epoch = saved[t].epoch
<1>1. ServiceInv /\ [Next]_vars => [A]_vars
  <2> SUFFICES ASSUME ServiceInv, [Next]_vars, begun' # begun PROVE A
    BY DEF vars
  <2>1. PICK t \in Thread : DataEffect(t)
    BY StepEffects DEF ServiceInv, LocksInv, vars, contextVars, jobVars
  <2>2. delivered <= emergency_stop_generation
    BY DEF ServiceInv, DataTypeOK
  <2>3. CASE job' = job
    BY <2>1, <2>2, <2>3 DEF DataEffect, BeginEffect
  <2>4. CASE job' # job
    <3>1. /\ resources'.estop_generation = emergency_stop_generation
          /\ Now(t) = "start_send" => session_epoch = saved[t].epoch
          /\ \A u \in Thread \ {t} : todo'[u] = todo[u]
      BY <2>1, <2>4 DEF DataEffect, BeginEffect
    <3>2. ASSUME NEW u \in User, At(u, "start_send"), todo'[u] # todo[u]
          PROVE  session_epoch = saved[u].epoch
      <4>1. u = t
        BY <3>1, <3>2, ThreadAssumption
      <4> QED
        BY <3>1, <3>2, <4>1 DEF At, Now, NextStep
    <3> QED
      BY <2>2, <3>1, <3>2
  <2> QED
    BY <2>3, <2>4
<1>2. Spec => [][A]_vars
  BY <1>1, ServiceInvariant, PTL DEF Spec
<1> QED
  BY <1>2 DEF PreparedJobIsCurrent
=============================================================================
