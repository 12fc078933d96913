------------------------ MODULE RuidaRuntime_proofs ------------------------
(***************************************************************************)
(* What a Ruida session guarantees for any number of files, uploads,       *)
(* datagrams, presses, moves and faults, over a line on which an answer    *)
(* comes at once or never: that output of ours is always reported, that a  *)
(* phase in which the job is over is one without it, and that no command   *)
(* is swallowed as file data; that a file is selected and deleted by its   *)
(* own index unless one is removed at the panel after it was looked up;    *)
(* and if nobody removes or starts files there, that a job reported        *)
(* Completed ran whole and to its end.                                     *)
(***************************************************************************)
EXTENDS RuidaRuntime, SequenceTheorems, FiniteSetTheorems, TLAPS

\* Datagrams and answers may be lost or garbled, the controller may be reset and its
\* panel used at any time; but no answer comes late, twice or before another.
Lockstep == Faults \cap {"late", "twice", "swapped"} = {}

(***************************************************************************)
(* The invariant.                                                          *)
(***************************************************************************)

\* The controller has a job that this session started.
OwnedRun == JobOnMachine /\ running.owned
\* Answers that are not replies; phases of a session without a job on the controller;
\* phases besides the owning ones in which the receipt names a file.
Bare == {Ack, Nak, Err}
Over == {"Disconnected", "Completed", "Stopped", "Ready", "Uploading", "Uploaded", "Queued"}
Receipted == {"Uploaded", "Queued", "Completed", "Stopped"}

Cursors == [name : Names \cup {NoName}, stage : {"AnnounceFile", "Chunks", "Verify"},
            acked : Nat]
Runtimes == [phase : Phase, receipt : Names \cup {NoName}, cursor : Cursors,
             observed_active : BOOLEAN, observed_part_end : BOOLEAN,
             owned_output_unresolved : BOOLEAN, ambiguous : BOOLEAN]
Operations == [part : Parts, await : {"none", "send", "ack", "reply"},
               attempt : Nat, tries : Nat, total : Nat, listed : Seq(AnyName),
               stale : BOOLEAN]

\* The types of what the proofs take apart.
TypeInv ==
  /\ files \in Seq(File)
  /\ pending = NoUpload \/ pending \in [name : Names, next : Nat, whole : BOOLEAN]
  /\ exec \in Exec
  /\ rt \in Runtimes
  /\ io \in Operations
  /\ conn \in BOOLEAN

\* What a reply that is not read yet tells is still so.
Told(reply) ==
  /\ ExpectsReply
  /\ pending = NoUpload
  /\ reply[1] \in {"card", "status", "count", "name"}
  /\ reply[1] = "count" => reply[2] \in Nat
  /\ reply[1] = "name" => reply[3] \in AnyName
  /\ reply = <<"status", "Idle">> => ~OwnedRun

\* On the line is what answers the last datagram, and nothing when none is out.
WireInv ==
  \/ replies = <<>>
  \/ /\ replies = <<Head(replies)>>
     /\ io.await \in {"ack", "reply"}
     /\ Head(replies) \in Bare => io.await = "ack"
     /\ Head(replies) \notin Bare => Told(Head(replies))
  \/ /\ replies = <<Ack, replies[2]>>
     /\ io.await = "ack"
     /\ replies[2] \notin Bare
     /\ Told(replies[2])

\* What the exchange an operation is at says about the runtime.
PartInv ==
  /\ io.part = "none" <=> io.await = "none"
  /\ io.part = "none" <=> cmd = "none"
  /\ io.part \in {"enq", "card", "connected"} => rt = Fresh
  /\ io.part \in {"begin", "speed"} => rt.phase = "Ready"
  /\ io.part = "begin" => conn
  /\ io.part = "announce" =>
       rt.phase = "Uploading" /\ rt.cursor.stage = "AnnounceFile" /\ job # "none"
  /\ io.part = "chunk" =>
       rt.phase = "Uploading" /\ rt.cursor.stage = "Chunks" /\ job # "none"
  /\ io.part = "verify" =>
       rt.phase = "Uploading" /\ rt.cursor.stage = "Verify" /\ job # "none"
  /\ io.part \in {"inspect", "select", "selected"} => rt.phase = "Uploaded"
  /\ io.part = "process" =>
       /\ rt.phase \in {"Starting", "Pausing", "Resuming", "Stopping"}
       /\ rt.phase = "Starting" => rt.owned_output_unresolved
  /\ io.part = "eof" => rt.phase = "Uploading" /\ rt.cursor.stage = "Chunks"
  /\ io.part = "find" => rt.phase = "Uploading"
  /\ io.part = "scoped" => rt.phase \in Receipted
  /\ io.part \in {"delete", "gone"} => rt.phase \in Receipted \cup {"Uploading"}
  /\ io.part \in {"home", "move"} => rt.phase = "ManualMotion"
  /\ io.part \in {"confirm", "status"} => rt.phase # "Uploading"
  /\ cmd = "disconnect" =>
       io.part \in {"process", "confirm", "eof", "find", "scoped", "delete", "gone"}
  /\ job # "none" \/ cmd \in {"tick", "pause", "resume", "poll"} => conn
  /\ rt.ambiguous => rt.phase = "RecoveryRequired" /\ cmd = "none"
  /\ conn /\ cmd = "none" /\ rt.phase = "Uploading" => job # "none"
  /\ rt.phase = "Uploading" => rt.cursor.name \in Names

\* An upload is pending only while the host is sending that file's chunks, or has
\* given the connection up.
PendInv ==
  conn /\ pending # NoUpload =>
    \/ rt.ambiguous
    \/ /\ rt.phase = "Uploading" /\ rt.cursor.stage = "Chunks"
       /\ io.part \in {"none", "chunk", "eof"}
       /\ io.part = "chunk" /\ rt.cursor.acked + 1 = Chunks => replies # <<Ack>>
       /\ io.part = "eof" => replies # <<Ack>>
    \/ /\ rt.phase = "Uploading" /\ io.part = "announce"
       /\ io.await = "ack" /\ replies # <<Nak>>

\* Output of ours is known, and the session is in none of the phases without a job.
SafeInv ==
  conn /\ OwnedRun => rt.owned_output_unresolved /\ rt.phase \notin Over

SessionInv == TypeInv /\ WireInv /\ PartInv /\ PendInv /\ SafeInv

-----------------------------------------------------------------------------
LEMMA Tuples ==
  ASSUME NEW a, NEW b
  PROVE  /\ Head(<<a>>) = a /\ Tail(<<a>>) = <<>> /\ <<a>> # <<>>
         /\ Head(<<a, b>>) = a /\ Tail(<<a, b>>) = <<b>> /\ <<a, b>> # <<>>
         /\ <<a, b>>[2] = b
  OBVIOUS

LEMMA OnQuietLine ==
  ASSUME NEW a, NEW b
  PROVE  <<>> \o <<a>> = <<a>> /\ <<>> \o <<a, b>> = <<a, b>>
<1>1. <<a>> \in Seq({a, b}) /\ <<a, b>> \in Seq({a, b})
  OBVIOUS
<1> QED
  BY <1>1, ConcatEmptySeq

LEMMA LosesOne ==
  ASSUME NEW a, NEW b, NEW i \in DOMAIN <<a, b>>
  PROVE  SubSeq(<<a, b>>, 1, i - 1) \o SubSeq(<<a, b>>, i + 1, Len(<<a, b>>))
           \in {<<a>>, <<b>>}
<1> DEFINE s == <<a, b>>
<1>1. s \in Seq({a, b}) /\ <<a>> \in Seq({a, b}) /\ Len(s) = 2 /\ s # <<>>
      /\ <<b>> \in Seq({a, b}) /\ s[1] = a /\ Tail(s) = <<b>>
  OBVIOUS
<1>2. i = 1 \/ i = 2
  OBVIOUS
<1> SUFFICES SubSeq(s, 1, i - 1) \o SubSeq(s, i + 1, Len(s)) \in {<<a>>, <<b>>}
  OBVIOUS
<1> HIDE DEF s
<1>3. SubSeq(s, 1, 0) = <<>> /\ SubSeq(s, 3, 2) = <<>>
  BY <1>1, SubSeqEmpty
<1>4. SubSeq(s, 2, 2) = <<b>>
  BY <1>1, TailIsSubSeq
<1>5. /\ <<>> \o <<a>> = <<a>> /\ <<>> \o <<b>> = <<b>>
      /\ <<a>> \o <<>> = <<a>>
  BY <1>1, ConcatEmptySeq
<1>6. SubSeq(s, 1, 1) = <<a>>
  <2>1. SubSeq(s, 1, 1) = SubSeq(s, 1, 1 - 1) \o <<s[1]>>
    BY <1>1, SubSeqRecursiveSecond
  <2>2. 1 - 1 = 0
    OBVIOUS
  <2> QED
    BY <1>1, <1>3, <1>5, <2>1, <2>2, Zenon
<1>7. CASE i = 1
  <2>1. i - 1 = 0 /\ i + 1 = 2
    BY <1>7
  <2> QED
    BY <1>1, <1>3, <1>4, <1>5, <2>1, Zenon
<1>8. CASE i = 2
  <2>1. i - 1 = 1 /\ i + 1 = 3
    BY <1>8
  <2> QED
    BY <1>1, <1>3, <1>5, <1>6, <2>1, Zenon
<1> QED
  BY <1>2, <1>7, <1>8

(***************************************************************************)
(* Exchanges.                                                              *)
(***************************************************************************)

\* Nothing is on the line and the controller is as it was.
HostOnly == UNCHANGED ctlVars /\ replies' = <<>>

LEMMA DoneEnds ==
  ASSUME WireInv, NEW p, Done(p)
  PROVE  HostOnly /\ io.part = p /\ replies = <<Ack>> /\ faults' = faults
<1>1. io.part = p /\ ~ExpectsReply /\ UNCHANGED ctlVars /\ faults' = faults
  BY DEF Done
<1>2. replies # <<>> /\ Ack = Head(replies) /\ replies' = Tail(replies)
  BY DEF Done, Reads
<1>3. replies = <<Ack>>
  BY <1>1, <1>2 DEF WireInv, Told
<1> QED
  BY <1>1, <1>2, <1>3, Tuples DEF HostOnly

LEMMA GivesEnds ==
  ASSUME WireInv, NEW p, NEW reply, Gives(p, reply)
  PROVE  HostOnly /\ io.part = p /\ Told(reply) /\ pending = NoUpload
         /\ faults' = faults /\ reply = Head(replies)
<1>1. io.part = p /\ UNCHANGED ctlVars /\ faults' = faults
  BY DEF Gives
<1>2. replies # <<>> /\ reply = Head(replies) /\ replies' = Tail(replies)
  BY DEF Gives, Reads
<1>3. replies = <<reply>> /\ reply \notin Bare
  <2>1. reply \in Bare => io.await # "ack"
    BY DEF Gives, Bare
  <2>2. reply # Ack \/ io.await # "ack"
    BY <2>1 DEF Bare
  <2> QED
    BY <1>2, <2>1, <2>2, Tuples DEF WireInv
<1>4. Told(reply)
  BY <1>2, <1>3 DEF WireInv, Ack, Bare
<1> QED
  BY <1>1, <1>2, <1>3, <1>4, Tuples DEF HostOnly, Told

LEMMA BreaksEnds ==
  ASSUME Lockstep, WireInv, NEW p, Breaks(p)
  PROVE  HostOnly /\ io.part = p
<1>1. io.part = p /\ UNCHANGED ctlVars
  BY DEF Breaks
<1>2. CASE TimesOut
  BY <1>1, <1>2 DEF TimesOut, Fault, Lockstep, HostOnly
<1>3. CASE /\ Awaits /\ replies # <<>>
           /\ Unfit(Head(replies)) /\ Reads(Head(replies))
  <2>1. replies' = Tail(replies)
    BY <1>3 DEF Reads
  <2>2. ~(io.await = "ack" /\ Head(replies) = Ack)
    BY <1>3 DEF Unfit
  <2>3. replies = <<Head(replies)>>
    BY <1>3, <2>2, Tuples DEF WireInv
  <2> QED
    BY <1>1, <2>1, <2>3, Tuples DEF HostOnly
<1> QED
  BY <1>2, <1>3 DEF Breaks

LEMMA ListsEnds ==
  ASSUME WireInv, NEW p, Lists(p)
  PROVE  HostOnly /\ io.part = p /\ Told(Head(replies)) /\ pending = NoUpload
<1>1. Gives(p, Head(replies))
  BY DEF Lists
<1> QED
  BY <1>1, GivesEnds

(***************************************************************************)
(* What the controller does with a datagram.                               *)
(***************************************************************************)
Asks == {"card", "status", "count", "name"}
Plain(d) == d[1] \in {"enq", "card", "status", "count"} => d = <<d[1]>>

\* Only what asks for a reply is answered with one.
LEMMA RequestAsks ==
  ASSUME io.part \in Parts, Request[1] \in Asks
  PROVE  ExpectsReply
  BY DEF Request, ExpectsReply, Asks, Parts, Listings, Statuses, ProcessAction

LEMMA RequestOf ==
  ASSUME io.part \in Parts
  PROVE  /\ io.part = "announce" => Request = <<"announce", rt.cursor.name>>
         /\ io.part = "chunk" => Request = <<"chunk", rt.cursor.acked + 1>>
         /\ io.part = "eof" => Request = <<"eof">>
         /\ io.part = "process" => Request = <<ProcessAction>>
         /\ Request[1] = "announce" => io.part = "announce"
         /\ Request = <<"Start">> => io.part = "process" /\ rt.phase = "Starting"
         /\ Plain(Request)
<1>1. CASE io.part \in Statuses \cup Listings
  BY <1>1 DEF Request, Listings, Statuses, Plain
<1>2. CASE io.part \notin Statuses \cup Listings
  BY <1>2 DEF Request, Parts, ProcessAction, Listings, Statuses, Plain
<1> QED
  BY <1>1, <1>2

\* The answer to a datagram that found the line quiet.
LEMMA Answered ==
  ASSUME TypeInv, replies = <<>>, NEW d, Receives(d), Plain(d)
  PROVE  \/ replies' = <<Ack>>
         \/ replies' = <<Err>>
         \/ \E r : /\ replies' = <<Ack, r>> /\ r \notin Bare
                   /\ UNCHANGED ctlVars /\ pending = NoUpload
                   /\ d[1] \in Asks /\ r[1] = d[1]
                   /\ r[1] = "count" => r = <<"count", Len(files)>>
                   /\ r[1] = "name" => d[2] \in DOMAIN files
                                         /\ r = <<"name", d[2], NameAt(d[2])>>
                   /\ r[1] = "status" => r = <<"status", exec>>
<1> USE DEF Answers
<1>1. CASE pending # NoUpload
  BY <1>1, OnQuietLine DEF Receives, TakesAsData
<1>2. CASE pending = NoUpload /\ Reports(d)
  <2>1. UNCHANGED ctlVars
    BY <1>2 DEF Reports
  <2>2. CASE d = <<"enq">>
    BY <1>2, <2>2, OnQuietLine DEF Reports
  <2>3. CASE d = <<"card">>
    <3>1. replies' = <<Ack, <<"card">> >>
      BY <1>2, <2>3, OnQuietLine DEF Reports
    <3>2. <<"card">> \notin Bare
      BY DEF Bare, Ack, Nak, Err
    <3> QED
      BY <1>2, <2>1, <2>3, <3>1, <3>2 DEF Asks
  <2>4. CASE d = <<"status">>
    <3>1. replies' = <<Ack, <<"status", exec>> >>
      BY <1>2, <2>4, OnQuietLine DEF Reports
    <3>2. <<"status", exec>> \notin Bare
      BY DEF Bare, Ack, Nak, Err
    <3> QED
      BY <1>2, <2>1, <2>4, <3>1, <3>2 DEF Asks
  <2>5. CASE d = <<"count">>
    <3>1. replies' = <<Ack, <<"count", Len(files)>> >>
      BY <1>2, <2>5, OnQuietLine DEF Reports
    <3>2. <<"count", Len(files)>> \notin Bare
      BY DEF Bare, Ack, Nak, Err
    <3> QED
      BY <1>2, <2>1, <2>5, <3>1, <3>2 DEF Asks
  <2>6. CASE d \notin {<<"enq">>, <<"card">>, <<"status">>, <<"count">>}
    <3>1. Answers(IF d[2] \in DOMAIN files
                  THEN <<Ack, <<"name", d[2], NameAt(d[2])>> >>
                  ELSE <<Err>>)
      BY <1>2, <2>6 DEF Reports
    <3>2. CASE d[2] \in DOMAIN files
      <4>1. replies' = <<Ack, <<"name", d[2], NameAt(d[2])>> >>
        BY <3>1, <3>2, OnQuietLine
      <4>2. <<"name", d[2], NameAt(d[2])>> \notin Bare
        BY DEF Bare, Ack, Nak, Err
      <4> QED
        BY <1>2, <2>1, <2>6, <3>2, <4>1, <4>2 DEF Asks, Reports, Plain
    <3> QED
      BY <3>1, <3>2, OnQuietLine
  <2> QED
    BY <2>2, <2>3, <2>4, <2>5, <2>6
<1>3. CASE pending = NoUpload /\ ~Reports(d)
  BY <1>3, OnQuietLine
  DEF Receives, OpensUpload, Deletes, Selects, Processes, Moves, Refuses
<1> QED
  BY <1>1, <1>2, <1>3

LEMMA WithoutType ==
  ASSUME files \in Seq(File), NEW i \in DOMAIN files
  PROVE  Without(i) \in Seq(File)
  BY DEF Without

\* Only a Start makes a run of ours, and only an announced file opens an upload.
LEMMA Received ==
  ASSUME TypeInv, replies = <<>>, NEW d, Receives(d)
  PROVE  /\ OwnedRun' => OwnedRun \/ d = <<"Start">>
         /\ pending = NoUpload /\ pending' # NoUpload =>
              d[1] = "announce" /\ replies' = <<Ack>>
         /\ pending # NoUpload /\ d \in {<<"chunk", Chunks>>, <<"eof">>} =>
              pending' = NoUpload
         /\ exec' \in Exec
<1>1. CASE pending # NoUpload
  <2>1. exec' = exec /\ running' = running
    BY <1>1 DEF Receives, TakesAsData
  <2>2. d \in {<<"chunk", Chunks>>, <<"eof">>} => pending' = NoUpload
    BY <1>1 DEF Receives, TakesAsData
  <2> QED
    BY <1>1, <2>1, <2>2 DEF OwnedRun, JobOnMachine, TypeInv
<1>2. CASE pending = NoUpload
  <2>1. CASE Reports(d) \/ Refuses
    BY <1>2, <2>1 DEF Reports, Refuses, ctlVars, OwnedRun, JobOnMachine, TypeInv
  <2>2. CASE OpensUpload(d)
    BY <1>2, <2>2, OnQuietLine
    DEF OpensUpload, Refuses, Answers, ctlVars, OwnedRun, JobOnMachine, TypeInv
  <2>3. CASE Deletes(d)
    BY <1>2, <2>3
    DEF Deletes, Removes, Refuses, ctlVars, OwnedRun, JobOnMachine, TypeInv
  <2>4. CASE Selects(d)
    BY <1>2, <2>4 DEF Selects, Refuses, ctlVars, OwnedRun, JobOnMachine, TypeInv
  <2>5. CASE Processes(d)
    BY <1>2, <2>5
    DEF Processes, Runs, Turns, Refuses, ctlVars, OwnedRun, JobOnMachine, TypeInv, NoRun, Exec
  <2>6. CASE Moves(d)
    BY <1>2, <2>6
    DEF Moves, Turns, Refuses, ctlVars, OwnedRun, JobOnMachine, TypeInv, NoRun, Exec
  <2> QED
    BY <1>2, <2>1, <2>2, <2>3, <2>4, <2>5, <2>6 DEF Receives
<1> QED
  BY <1>1, <1>2

LEMMA ReceivedFiles ==
  ASSUME TypeInv, NEW d, Receives(d)
  PROVE  files' \in Seq(File)
<1>1. files \in Seq(File)
  BY DEF TypeInv
<1>2. CASE UNCHANGED files
  BY <1>1, <1>2
<1>3. CASE ~UNCHANGED files
  <2>1. CASE pending # NoUpload
    <3> DEFINE whole == pending.whole /\ d = <<"chunk", pending.next + 1>>
    <3>1. files' = Append(files, [name |-> pending.name, whole |-> whole])
      BY <1>3, <2>1 DEF Receives, TakesAsData
    <3>2. [name |-> pending.name, whole |-> whole] \in File
      BY <2>1 DEF File, TypeInv, AnyName
    <3> QED
      BY <1>1, <3>1, <3>2
  <2>2. CASE pending = NoUpload
    <3>1. d[2] \in DOMAIN files /\ files' = Without(d[2])
      BY <1>3, <2>2
      DEF Receives, Reports, OpensUpload, Deletes, Selects, Processes, Moves, Refuses,
          Removes, Runs, Turns, ctlVars
    <3> QED
      BY <1>1, <3>1, WithoutType
  <2> QED
    BY <2>1, <2>2
<1> QED
  BY <1>2, <1>3

LEMMA ReceivedPending ==
  ASSUME TypeInv, NEW d, Receives(d), d[1] = "announce" => d[2] \in Names
  PROVE  pending' = NoUpload \/ pending' \in [name : Names, next : Nat, whole : BOOLEAN]
<1>1. CASE pending # NoUpload
  <2> DEFINE expected == d = <<"chunk", pending.next + 1>>
             whole == pending.whole /\ expected
             next == IF expected THEN pending.next + 1 ELSE pending.next
  <2>1. pending \in [name : Names, next : Nat, whole : BOOLEAN]
    BY <1>1 DEF TypeInv
  <2>2. whole \in BOOLEAN /\ next \in Nat
    BY <2>1
  <2>3. \/ pending' = NoUpload
        \/ pending' = [pending EXCEPT !.whole = whole, !.next = next]
    BY <1>1 DEF Receives, TakesAsData
  <2> HIDE DEF whole, next
  <2> QED
    BY <2>1, <2>2, <2>3
<1>2. CASE pending = NoUpload /\ OpensUpload(d)
  <2>1. d[2] \in Names
    BY <1>2 DEF OpensUpload
  <2>2. \/ pending' = pending
        \/ pending' = [name |-> d[2], next |-> 0, whole |-> TRUE]
    BY <1>2 DEF OpensUpload, Refuses, ctlVars
  <2>3. [name |-> d[2], next |-> 0, whole |-> TRUE]
          \in [name : Names, next : Nat, whole : BOOLEAN]
    BY <2>1
  <2> QED
    BY <1>2, <2>2, <2>3
<1>3. CASE pending = NoUpload /\ ~OpensUpload(d)
  BY <1>3
  DEF Receives, Reports, Deletes, Selects, Processes, Moves, Refuses,
      Removes, Runs, Turns, ctlVars
<1> QED
  BY <1>1, <1>2, <1>3

LEMMA NameAtType ==
  ASSUME TypeInv, NEW i \in DOMAIN files
  PROVE  NameAt(i) \in AnyName
<1>1. files[i] \in File
  BY DEF TypeInv
<1> QED
  BY <1>1 DEF File, NameAt

LEMMA SendsIo ==
  ASSUME TypeInv, io' = Sends
  PROVE  io' \in Operations /\ io'.part = io.part /\ io'.await = "ack"
<1>1. io \in Operations /\ io.attempt + 1 \in Nat
  BY DEF TypeInv, Operations
<1>2. io' = [io EXCEPT !.await = "ack", !.attempt = io.attempt + 1]
  BY DEF Sends
<1> QED
  BY <1>1, <1>2 DEF Operations

(***************************************************************************)
(* A datagram sent keeps the invariant.                                    *)
(***************************************************************************)

LEMMA SendKeeps ==
  ASSUME SessionInv, Send
  PROVE  SessionInv'
<1> USE DEF SessionInv
<1>1. io.await = "send" /\ io' = Sends /\ UNCHANGED <<svcVars, rt, counts>>
  BY DEF Send
<1>2. replies = <<>> /\ io.part # "none"
  BY <1>1 DEF WireInv, PartInv
<1>3. io' \in Operations /\ io'.part = io.part /\ io'.await = "ack"
  BY <1>1, SendsIo
<1>4. io.part \in Parts /\ rt' = rt /\ conn' = conn /\ job' = job /\ cmd' = cmd
  BY <1>1 DEF TypeInv, Operations, svcVars
<1>5. ExpectsReply' <=> ExpectsReply
  BY <1>3 DEF ExpectsReply
<1>6. PartInv'
  BY <1>1, <1>2, <1>3, <1>4 DEF PartInv
<1>7. CASE Receives(Request)
  <2>1. /\ OwnedRun' => OwnedRun \/ Request = <<"Start">>
        /\ pending = NoUpload /\ pending' # NoUpload =>
              Request[1] = "announce" /\ replies' = <<Ack>>
        /\ pending # NoUpload /\ Request \in {<<"chunk", Chunks>>, <<"eof">>} =>
              pending' = NoUpload
        /\ exec' \in Exec
    BY <1>2, <1>7, Received
  <2>2. TypeInv'
    <3>1. Request[1] = "announce" => Request[2] \in Names
      BY <1>4, RequestOf DEF PartInv
    <3>2. pending' = NoUpload \/ pending' \in [name : Names, next : Nat, whole : BOOLEAN]
      BY <1>7, <3>1, ReceivedPending
    <3>3. files' \in Seq(File)
      BY <1>7, ReceivedFiles
    <3> QED
      BY <1>3, <1>4, <2>1, <3>2, <3>3 DEF TypeInv
  <2>3. WireInv'
    <3>1. CASE replies' = <<Ack>> \/ replies' = <<Err>>
      BY <1>3, <3>1, Tuples DEF WireInv, Bare
    <3>2. ASSUME NEW r, replies' = <<Ack, r>>, r \notin Bare,
                 UNCHANGED ctlVars, pending = NoUpload,
                 Request[1] \in Asks, r[1] = Request[1],
                 r[1] = "count" => r = <<"count", Len(files)>>,
                 r[1] = "name" => /\ Request[2] \in DOMAIN files
                                  /\ r = <<"name", Request[2], NameAt(Request[2])>>,
                 r[1] = "status" => r = <<"status", exec>>
          PROVE  WireInv'
      <4>1. ExpectsReply'
        BY <1>4, <1>5, <3>2, RequestAsks
      <4>2. r[1] = "count" => r[2] \in Nat
        BY <3>2 DEF TypeInv
      <4>3. r[1] = "name" => r[3] \in AnyName
        BY <3>2, NameAtType
      <4>4. r = <<"status", "Idle">> => ~OwnedRun'
        BY <3>2 DEF OwnedRun, JobOnMachine, ctlVars
      <4>5. Told(r)'
        BY <3>2, <4>1, <4>2, <4>3, <4>4 DEF Told, Asks, ctlVars
      <4>6. replies'[2] = r
        BY <3>2
      <4> QED
        BY <1>3, <3>2, <4>5, <4>6 DEF WireInv, Told
    <3>3. Plain(Request)
      BY <1>4, RequestOf
    <3> QED
      BY <1>2, <1>7, <3>1, <3>2, <3>3, Answered
  <2>4. PendInv'
    <3> SUFFICES ASSUME conn, pending' # NoUpload
                 PROVE  PendInv'
      BY <1>4 DEF PendInv
    <3>1. CASE pending = NoUpload
      <4>1. io.part = "announce" /\ replies' = <<Ack>>
        BY <1>4, <2>1, <3>1, RequestOf
      <4>2. replies' # <<Nak>>
        BY <4>1 DEF Ack, Nak
      <4> QED
        BY <1>3, <1>4, <4>1, <4>2 DEF PendInv, PartInv
    <3>2. CASE pending # NoUpload
      <4>1. ~rt.ambiguous
        BY <1>2 DEF PartInv
      <4>2. /\ rt.phase = "Uploading" /\ rt.cursor.stage = "Chunks"
            /\ io.part \in {"chunk", "eof"}
        BY <1>1, <1>2, <3>2, <4>1 DEF PendInv
      <4>3. io.part # "eof"
        BY <1>4, <2>1, <3>2, RequestOf
      <4>4. rt.cursor.acked + 1 # Chunks
        BY <1>4, <2>1, <3>2, <4>2, <4>3, RequestOf
      <4> QED
        BY <1>3, <1>4, <4>2, <4>3, <4>4 DEF PendInv
    <3> QED
      BY <3>1, <3>2
  <2>5. SafeInv'
    <3>1. CASE OwnedRun
      BY <1>4, <3>1 DEF SafeInv
    <3>2. CASE OwnedRun' /\ Request = <<"Start">>
      BY <1>4, <3>2, RequestOf DEF SafeInv, PartInv, Over
    <3> QED
      BY <2>1, <3>1, <3>2 DEF SafeInv
  <2> QED
    BY <1>6, <2>2, <2>3, <2>4, <2>5
<1>8. CASE UNCHANGED ctlVars /\ replies' \in {<<>>, <<Nak>>}
  <2>1. TypeInv'
    BY <1>3, <1>4, <1>8 DEF TypeInv, ctlVars
  <2>2. WireInv'
    BY <1>3, <1>8, Tuples DEF WireInv, Bare
  <2>3. PendInv'
    <3> SUFFICES ASSUME conn, pending # NoUpload
                 PROVE  PendInv'
      BY <1>4, <1>8 DEF PendInv, ctlVars
    <3>1. ~rt.ambiguous
      BY <1>2 DEF PartInv
    <3>2. /\ rt.phase = "Uploading" /\ rt.cursor.stage = "Chunks"
          /\ io.part \in {"chunk", "eof"}
      BY <1>1, <1>2, <3>1 DEF PendInv
    <3>3. replies' # <<Ack>>
      BY <1>8 DEF Ack, Nak
    <3> QED
      BY <1>3, <1>4, <1>8, <3>2, <3>3 DEF PendInv, ctlVars
  <2>4. SafeInv'
    BY <1>4, <1>8 DEF SafeInv, OwnedRun, JobOnMachine, ctlVars
  <2> QED
    BY <1>6, <2>1, <2>2, <2>3, <2>4
<1>9. QED
  BY <1>2, <1>7, <1>8, OnQuietLine DEF Send, Answers
(***************************************************************************)
(* What goes on in between keeps it.                                       *)
(***************************************************************************)
HostVars == <<svcVars, rt, io, counts>>

\* The controller goes on, resets or is used: it starts nothing of ours and opens no
\* upload.
LEMMA ControllerStep ==
  ASSUME TypeInv,
         \/ FinishesRun \/ Settles \/ Resets
         \/ PanelPauses \/ PanelResumes \/ PanelStops \/ PanelStarts \/ PanelRemoves
         \/ PanelCopies \/ PanelShowsUnknown
  PROVE  /\ OwnedRun' => OwnedRun
         /\ pending' \in {pending, NoUpload}
         /\ files' \in Seq(File) /\ exec' \in Exec
<1> USE DEF TypeInv
<1>1. CASE FinishesRun
  BY <1>1 DEF FinishesRun, OwnedRun, JobOnMachine, Exec
<1>2. CASE Settles
  BY <1>2 DEF Settles, Turns, OwnedRun, JobOnMachine, Exec, NoRun
<1>3. CASE Resets
  BY <1>3 DEF Resets, OwnedRun, JobOnMachine, Exec, NoRun
<1>4. CASE PanelPauses \/ PanelResumes \/ PanelStops \/ PanelShowsUnknown
  BY <1>4
  DEF PanelPauses, PanelResumes, PanelStops, PanelShowsUnknown, Turns, OwnedRun,
      JobOnMachine, Exec, NoRun
<1>5. CASE PanelStarts
  BY <1>5 DEF PanelStarts, Runs, OwnedRun, JobOnMachine, Exec
<1>6. CASE PanelRemoves
  <2>1. PICK i \in DOMAIN files : Removes(i)
    BY <1>6 DEF PanelRemoves
  <2> QED
    BY <2>1, WithoutType DEF Removes, OwnedRun, JobOnMachine
<1>7. CASE PanelCopies
  <2>1. PICK n \in Stored : files' = Append(files, [name |-> n, whole |-> TRUE])
    BY <1>7 DEF PanelCopies
  <2>2. [name |-> n, whole |-> TRUE] \in File
    BY DEF File, AnyName
  <2>3. UNCHANGED <<pending, exec, running>>
    BY <1>7 DEF PanelCopies
  <2> QED
    BY <2>1, <2>2, <2>3 DEF OwnedRun, JobOnMachine
<1> QED
  BY <1>1, <1>2, <1>3, <1>4, <1>5, <1>6, <1>7

LEMMA AroundKeeps ==
  ASSUME SessionInv, UNCHANGED <<svcVars, rt, counts>>,
         io' = io \/ io' = [io EXCEPT !.stale = TRUE],
         TypeInv', OwnedRun' => OwnedRun, pending' \in {pending, NoUpload},
         \/ replies' = replies
         \/ replies' = <<>>
         \/ replies = <<Ack, replies[2]>> /\ replies' \in {<<Ack>>, <<replies[2]>>}
  PROVE  SessionInv'
<1> USE DEF SessionInv
<1>1. /\ rt' = rt /\ conn' = conn /\ job' = job /\ cmd' = cmd
      /\ io'.part = io.part /\ io'.await = io.await
  BY DEF svcVars, TypeInv, Operations
<1>2. \A r : Told(r) => Told(r)'
  BY <1>1 DEF Told, ExpectsReply
<1>3. PartInv'
  BY <1>1 DEF PartInv
<1>4. WireInv'
  <2>1. CASE replies' = replies
    BY <1>1, <1>2, <2>1 DEF WireInv
  <2>2. CASE replies' = <<>>
    BY <2>2 DEF WireInv
  <2>3. CASE replies = <<Ack, replies[2]>> /\ replies' = <<Ack>>
    <3>1. io.await = "ack"
      BY <2>3, Tuples DEF WireInv
    <3> QED
      BY <1>1, <2>3, <3>1, Tuples DEF WireInv, Bare
  <2>4. CASE replies = <<Ack, replies[2]>> /\ replies' = <<replies[2]>>
    <3>1. io.await = "ack" /\ Told(replies[2]) /\ replies[2] \notin Bare
      BY <2>4, Tuples DEF WireInv
    <3>2. Head(replies') = replies[2] /\ replies' = <<Head(replies')>>
      BY <2>4, Tuples
    <3> QED
      BY <1>1, <1>2, <3>1, <3>2 DEF WireInv
  <2> QED
    BY <2>1, <2>2, <2>3, <2>4
<1>5. PendInv'
  <2> SUFFICES ASSUME conn, pending' = pending, pending # NoUpload
               PROVE  PendInv'
    BY <1>1 DEF PendInv
  <2>1. replies' \in {replies, <<>>}
    BY Tuples DEF WireInv, Told
  <2>2. replies' \in {<<Ack>>, <<Nak>>} => replies' = replies
    BY <2>1
  <2> QED
    BY <1>1, <2>2 DEF PendInv
<1>6. SafeInv'
  BY <1>1 DEF SafeInv
<1> QED
  BY <1>3, <1>4, <1>5, <1>6

LEMMA SurroundingsKeep ==
  ASSUME Lockstep, SessionInv, (Machine \/ Surroundings) /\ UNCHANGED HostVars
  PROVE  SessionInv'
<1> USE DEF SessionInv
<1>1. rt' = rt /\ io' = io /\ conn' = conn
  BY DEF HostVars, svcVars
<1>2. CASE /\ \/ FinishesRun \/ Settles \/ Resets
              \/ PanelPauses \/ PanelResumes \/ PanelStops \/ PanelStarts \/ PanelCopies
              \/ PanelShowsUnknown
           /\ replies' = replies
  <2>1. /\ OwnedRun' => OwnedRun
        /\ pending' \in {pending, NoUpload}
        /\ files' \in Seq(File) /\ exec' \in Exec
    BY <1>2, ControllerStep
  <2>2. TypeInv'
    BY <1>1, <2>1 DEF TypeInv
  <2> QED
    BY <1>2, <2>1, <2>2, AroundKeeps DEF HostVars
<1>3. CASE LosesReply
  <2>1. UNCHANGED ctlVars
    BY <1>3 DEF LosesReply
  <2>2. PICK i \in DOMAIN replies :
          replies' = SubSeq(replies, 1, i - 1) \o SubSeq(replies, i + 1, Len(replies))
    BY <1>3 DEF LosesReply
  <2>3. \/ replies' = <<>>
        \/ replies = <<Ack, replies[2]>> /\ replies' \in {<<Ack>>, <<replies[2]>>}
    <3>1. CASE replies = <<>>
      BY <2>2, <3>1
    <3>2. ASSUME NEW a, replies = <<a>>
          PROVE  replies' = <<>>
      BY <2>2, <3>2
    <3>3. ASSUME NEW a, NEW b, replies = <<a, b>>
          PROVE  replies' \in {<<a>>, <<b>>}
      BY <2>2, <3>3, LosesOne
    <3> QED
      BY <3>1, <3>2, <3>3 DEF WireInv
  <2>4. TypeInv' /\ (OwnedRun' => OwnedRun) /\ pending' = pending
    BY <1>1, <2>1 DEF TypeInv, ctlVars, OwnedRun, JobOnMachine
  <2> QED
    BY <2>3, <2>4, AroundKeeps DEF HostVars
<1>4. ~DeliversTwice /\ ~Swaps
  BY DEF DeliversTwice, Swaps, Fault, Lockstep
<1> QED
  BY <1>2, <1>3, <1>4
  DEF Machine, Surroundings, Resets, AtPanel, PanelPauses, PanelResumes, PanelStops,
      PanelStarts, PanelCopies, PanelShowsUnknown

LEMMA RemovalKeeps ==
  ASSUME SessionInv, PanelAges
  PROVE  SessionInv'
<1>1. /\ PanelRemoves /\ UNCHANGED <<svcVars, rt, counts>> /\ replies' = replies
      /\ io' = io \/ io' = [io EXCEPT !.stale = TRUE]
  BY DEF PanelAges, PanelRemoves, AtPanel
<1>2. /\ OwnedRun' => OwnedRun
      /\ pending' \in {pending, NoUpload}
      /\ files' \in Seq(File) /\ exec' \in Exec
  BY <1>1, ControllerStep DEF SessionInv
<1>3. TypeInv'
  BY <1>1, <1>2 DEF SessionInv, TypeInv, Operations, svcVars
<1> QED
  BY <1>1, <1>2, <1>3, AroundKeeps

(***************************************************************************)
(* An exchange that goes on.                                               *)
(***************************************************************************)

LEMMA ReadAckKeeps ==
  ASSUME SessionInv, ReadAck
  PROVE  SessionInv'
<1> USE DEF SessionInv
<1>1. io.await = "ack" /\ ExpectsReply /\ UNCHANGED <<ctlVars, faults, svcVars, rt, counts>>
      /\ io' = [io EXCEPT !.await = "reply"]
  BY DEF ReadAck
<1>2. replies # <<>> /\ Ack = Head(replies) /\ replies' = Tail(replies)
  BY DEF ReadAck, Reads
<1>3. io' \in Operations /\ io'.part = io.part /\ io'.await = "reply"
  BY <1>1 DEF TypeInv, Operations
<1>4. rt' = rt /\ conn' = conn /\ job' = job /\ cmd' = cmd
  BY <1>1 DEF svcVars
<1>5. \/ replies' = <<>>
      \/ /\ replies' = <<replies[2]>> /\ replies[2] \notin Bare /\ Told(replies[2])
  <2>1. CASE replies = <<Head(replies)>>
    BY <1>2, <2>1, Tuples
  <2>2. CASE replies = <<Ack, replies[2]>> /\ replies[2] \notin Bare /\ Told(replies[2])
    <3>1. Tail(<<Ack, replies[2]>>) = <<replies[2]>>
      BY Tuples
    <3> QED
      BY <1>2, <2>2, <3>1
  <2> QED
    BY <1>2, <2>1, <2>2 DEF WireInv
<1>6. TypeInv'
  BY <1>1, <1>3, <1>4 DEF TypeInv, ctlVars
<1>7. \A r : Told(r) => Told(r)'
  BY <1>1, <1>3 DEF Told, ExpectsReply, ctlVars, OwnedRun, JobOnMachine
<1>8. WireInv'
  BY <1>3, <1>5, <1>7, Tuples DEF WireInv
<1>9. PartInv'
  BY <1>1, <1>3, <1>4 DEF PartInv
<1>10. PendInv'
  <2>1. conn => pending = NoUpload
    BY <1>1 DEF PendInv, ExpectsReply, Listings, Statuses, PartInv
  <2> QED
    BY <1>1, <1>4, <2>1 DEF PendInv, ctlVars
<1>11. SafeInv'
  BY <1>1, <1>4 DEF SafeInv, ctlVars, OwnedRun, JobOnMachine
<1> QED
  BY <1>6, <1>8, <1>9, <1>10, <1>11

LEMMA ReadNakKeeps ==
  ASSUME SessionInv, ReadNak
  PROVE  SessionInv'
<1> USE DEF SessionInv
<1>1. io.await = "ack" /\ UNCHANGED <<ctlVars, faults, svcVars, rt, counts>>
      /\ io' = [io EXCEPT !.await = "send"]
  BY DEF ReadNak
<1>2. replies # <<>> /\ Nak = Head(replies) /\ replies' = Tail(replies)
  BY DEF ReadNak, Reads
<1>3. io' \in Operations /\ io'.part = io.part /\ io'.await = "send"
  BY <1>1 DEF TypeInv, Operations
<1>4. rt' = rt /\ conn' = conn /\ job' = job /\ cmd' = cmd
  BY <1>1 DEF svcVars
<1>5. replies = <<Nak>> /\ replies' = <<>>
  BY <1>2, Tuples DEF WireInv, Ack, Nak
<1>6. TypeInv'
  BY <1>1, <1>3, <1>4 DEF TypeInv, ctlVars
<1>7. WireInv'
  BY <1>5 DEF WireInv
<1>8. PartInv'
  BY <1>1, <1>3, <1>4 DEF PartInv
<1>9. PendInv'
  <2>1. replies' # <<Ack>> /\ replies' # <<Nak>>
    BY <1>5
  <2> QED
    BY <1>1, <1>3, <1>4, <1>5, <2>1 DEF PendInv, ctlVars
<1>10. SafeInv'
  BY <1>1, <1>4 DEF SafeInv, ctlVars, OwnedRun, JobOnMachine
<1> QED
  BY <1>6, <1>7, <1>8, <1>9, <1>10
(***************************************************************************)
(* What an operation does next: the exchange it goes to, or its end.       *)
(***************************************************************************)
LEMMA Unknowns == Unknown \in Nat
  BY RuidaControllerAssumption DEF Unknown

LEMMA EntersIo ==
  ASSUME TypeInv, NEW p \in Parts, NEW tries \in Nat, Enter(p, tries)
  PROVE  /\ io' \in Operations /\ io'.part = p /\ io'.await = "send"
         /\ io'.tries = tries
         /\ p \in Listings => io'.listed = <<>> /\ io'.total = Unknown
         /\ p \notin Listings => io'.listed = io.listed /\ io'.total = io.total
         /\ io'.stale => io.stale
<1> DEFINE total == IF p \in Listings THEN Unknown ELSE io.total
           listed == IF p \in Listings THEN <<>> ELSE io.listed
<1>1. total \in Nat /\ listed \in Seq(AnyName)
  BY Unknowns DEF TypeInv, Operations
<1>2. io' = [part |-> p, await |-> "send", attempt |-> 0, tries |-> tries,
             total |-> total, listed |-> listed, stale |-> p \notin Listings /\ io.stale]
  BY DEF Enter
<1>3. /\ p \in Listings => listed = <<>> /\ total = Unknown
      /\ p \notin Listings => listed = io.listed /\ total = io.total
  OBVIOUS
<1> HIDE DEF total, listed
<1> QED
  BY <1>1, <1>2, <1>3 DEF Operations, TypeInv

LEMMA NoIoType ==
  NoIo \in Operations /\ NoIo.part = "none" /\ NoIo.await = "none"
<1>1. 0 \in Nat /\ <<>> \in Seq(AnyName) /\ "none" \in Parts
  BY DEF Parts
<1> QED
  BY <1>1, Unknowns DEF NoIo, Operations

Safe(r) == OwnedRun => r.owned_output_unresolved /\ r.phase \notin Over

\* After an exchange, it is enough to look at the runtime.
LEMMA HostKeeps ==
  ASSUME SessionInv, HostOnly, PartInv', rt' \in Runtimes, io' \in Operations,
         conn' \in BOOLEAN,
         conn' /\ pending # NoUpload =>
           \/ rt'.ambiguous
           \/ /\ rt'.phase = "Uploading" /\ rt'.cursor.stage = "Chunks"
              /\ io'.part \in {"none", "chunk", "eof"},
         conn' => Safe(rt')
  PROVE  SessionInv'
<1>1. TypeInv'
  BY DEF SessionInv, TypeInv, HostOnly, ctlVars
<1>2. WireInv'
  BY DEF HostOnly, WireInv
<1>3. PendInv'
  <2>1. replies' # <<Ack>>
    BY DEF HostOnly
  <2>2. pending' = pending
    BY DEF HostOnly, ctlVars
  <2> QED
    BY <2>1, <2>2 DEF PendInv
<1>4. SafeInv'
  BY DEF SafeInv, Safe, HostOnly, ctlVars, OwnedRun, JobOnMachine
<1> QED
  BY <1>1, <1>2, <1>3, <1>4 DEF SessionInv

\* The upload is pending at three exchanges only.
LEMMA NotPending ==
  ASSUME SessionInv, io.part \notin {"none", "announce", "chunk", "eof"}, conn
  PROVE  pending = NoUpload
  BY DEF SessionInv, PendInv, PartInv

LEMMA ErrsKeep ==
  ASSUME SessionInv, HostOnly, Errs, rt' \in Runtimes, rt'.phase # "Uploading",
         rt'.ambiguous => rt'.phase = "RecoveryRequired",
         conn /\ pending # NoUpload => rt'.ambiguous,
         conn => Safe(rt')
  PROVE  SessionInv'
<1>1. io' = NoIo /\ cmd' = "none" /\ (conn' => conn) /\ conn' \in BOOLEAN
  BY DEF Errs, SessionInv, TypeInv
<1>2. io'.part = "none" /\ io'.await = "none" /\ io' \in Operations
  BY <1>1, NoIoType
<1>3. PartInv'
  BY <1>1, <1>2 DEF PartInv, Errs, SessionInv
<1> QED
  BY <1>1, <1>2, <1>3, HostKeeps

LEMMA LeavesKeeps ==
  ASSUME SessionInv, HostOnly, NEW state, Leaves(state), rt' \in Runtimes,
         rt'.phase = "Uploading" => state # "none" /\ rt'.cursor.name \in Names,
         ~rt'.ambiguous, state # "none" => conn /\ cmd # "disconnect",
         conn /\ pending # NoUpload =>
           rt'.phase = "Uploading" /\ rt'.cursor.stage = "Chunks",
         conn => Safe(rt')
  PROVE  SessionInv'
<1>1. io' = NoIo /\ cmd' = "none" /\ job' = state /\ (conn' => conn) /\ conn' \in BOOLEAN
  BY DEF Leaves, SessionInv, TypeInv
<1>2. io'.part = "none" /\ io'.await = "none" /\ io' \in Operations
  BY <1>1, NoIoType
<1>3. PartInv'
  BY <1>1, <1>2 DEF PartInv, Leaves
<1> QED
  BY <1>1, <1>2, <1>3, HostKeeps

\* The next exchange, of part p, of the same operation.
GoesTo(p) == UNCHANGED svcVars /\ io' \in Operations /\ io'.part = p /\ io'.await = "send"

LEMMA GoesKeeps ==
  ASSUME SessionInv, HostOnly, NEW p, p \notin {"none"}, GoesTo(p), io.part # "none",
         PartInv', rt' \in Runtimes,
         conn /\ pending # NoUpload =>
           /\ rt'.phase = "Uploading" /\ rt'.cursor.stage = "Chunks"
           /\ p \in {"chunk", "eof"},
         conn => Safe(rt')
  PROVE  SessionInv'
<1>1. conn' = conn /\ conn \in BOOLEAN
  BY DEF GoesTo, svcVars, SessionInv, TypeInv
<1> QED
  BY <1>1, HostKeeps DEF GoesTo

LEMMA GoesGoesTo ==
  ASSUME TypeInv, NEW p \in Parts, Goes(p)
  PROVE  GoesTo(p)
  BY EntersIo DEF Goes, GoesTo

LEMMA AgainGoesTo ==
  ASSUME TypeInv, Again
  PROVE  GoesTo(io.part)
<1>1. io.part \in Parts /\ io.tries + 1 \in Nat
  BY DEF TypeInv, Operations
<1> QED
  BY <1>1, EntersIo DEF Again, GoesTo

\* A listing takes a count first, and then names in the order of their indices.
LEMMA ListReply ==
  ASSUME NEW p \in Listings, NEW reply, Gives(p, reply)
  PROVE  \/ io.total = Unknown /\ reply[1] = "count"
         \/ /\ io.total # Unknown /\ reply[1] = "name"
            /\ reply[2] = Len(io.listed) + 1
<1>1. io.part = p /\ Fits(reply)
  BY DEF Gives
<1>2. Request = IF io.total = Unknown THEN <<"count">> ELSE <<"name", Len(io.listed) + 1>>
  BY <1>1 DEF Request, Listings, Statuses
<1> QED
  BY <1>1, <1>2 DEF Fits

LEMMA NowListedType ==
  ASSUME TypeInv, NEW p \in Listings, Gives(p, Head(replies)), Told(Head(replies))
  PROVE  NowListed \in Seq(AnyName) /\ NowTotal \in Nat
<1>1. io.listed \in Seq(AnyName) /\ io.total \in Nat
  BY DEF TypeInv, Operations
<1>2. CASE Head(replies)[1] = "count"
  BY <1>1, <1>2 DEF NowListed, NowTotal, Told
<1>3. CASE Head(replies)[1] = "name"
  BY <1>1, <1>3 DEF NowListed, NowTotal, Told
<1> QED
  BY <1>2, <1>3, ListReply

LEMMA GoesListedGoesTo ==
  ASSUME SessionInv, NEW q \in Listings, Lists(q), NEW p \in Parts, GoesListed(p)
  PROVE  GoesTo(p)
<1>1. NowListed \in Seq(AnyName) /\ NowTotal \in Nat
  BY ListsEnds, NowListedType DEF Lists, SessionInv
<1>2. UNCHANGED svcVars
      /\ io' = [part |-> p, await |-> "send", attempt |-> 0, tries |-> 1,
                total |-> NowTotal, listed |-> NowListed, stale |-> io.stale]
  BY DEF GoesListed
<1>3. io.stale \in BOOLEAN
  BY DEF SessionInv, TypeInv, Operations
<1> HIDE DEF NowListed, NowTotal
<1> QED
  BY <1>1, <1>2, <1>3 DEF GoesTo, Operations

LEMMA ListGoesOnKeeps ==
  ASSUME SessionInv, ListGoesOn
  PROVE  SessionInv'
<1>1. HostOnly /\ io.part \in Listings /\ Told(Head(replies)) /\ pending = NoUpload
  BY GivesEnds DEF ListGoesOn, SessionInv
<1>2. NowListed \in Seq(AnyName) /\ NowTotal \in Nat
  BY <1>1, NowListedType DEF ListGoesOn, SessionInv
<1>3. UNCHANGED svcVars /\ rt' = rt
      /\ io' = [io EXCEPT !.await = "send", !.attempt = 0,
                          !.listed = NowListed, !.total = NowTotal]
  BY DEF ListGoesOn
<1>4. io \in Operations /\ rt \in Runtimes
  BY DEF SessionInv, TypeInv
<1> HIDE DEF NowListed, NowTotal
<1>5. GoesTo(io.part)
  BY <1>2, <1>3, <1>4 DEF GoesTo, Operations
<1>6. PartInv'
  BY <1>1, <1>3, <1>5 DEF SessionInv, PartInv, GoesTo, svcVars, Listings
<1>7. conn => Safe(rt)
  BY DEF SessionInv, SafeInv, Safe
<1> QED
  BY <1>1, <1>3, <1>4, <1>5, <1>6, <1>7, GoesKeeps DEF Listings

(***************************************************************************)
(* A status told.                                                          *)
(***************************************************************************)
LEMMA ToPhase ==
  ASSUME rt \in Runtimes, NEW p \in Phase
  PROVE  /\ To(p) \in Runtimes /\ To(p).phase = p
         /\ To(p).receipt = rt.receipt /\ To(p).cursor = rt.cursor
         /\ To(p).ambiguous = rt.ambiguous
         /\ To(p).owned_output_unresolved = rt.owned_output_unresolved
         /\ To(p).observed_active = rt.observed_active
         /\ To(p).observed_part_end = rt.observed_part_end
  BY DEF To, Runtimes

LEMMA Active ==
  ASSUME NEW r \in Runtimes
  PROVE  LET a == [r EXCEPT !.observed_active = TRUE]
         IN /\ a \in Runtimes /\ a.phase = r.phase
            /\ a.receipt = r.receipt /\ a.cursor = r.cursor
            /\ a.ambiguous = r.ambiguous
            /\ a.owned_output_unresolved = r.owned_output_unresolved
            /\ a.observed_part_end = r.observed_part_end /\ a.observed_active
  BY DEF Runtimes

LEMMA StatusSeen ==
  ASSUME rt \in Runtimes, NEW s \in Exec
  PROVE  /\ apply_status(s) \in Runtimes
         /\ apply_status(s).receipt = rt.receipt /\ apply_status(s).cursor = rt.cursor
         /\ apply_status(s).ambiguous = rt.ambiguous
         /\ apply_status(s).phase = "Uploading" => rt.phase = "Uploading"
         /\ apply_status(s).phase \in Over => s = "Idle" \/ rt.phase \in Over
         /\ \/ apply_status(s).owned_output_unresolved = rt.owned_output_unresolved
            \/ s = "Idle"
<1>1. CASE s = "Unknown"
  BY <1>1 DEF apply_status, Recovery, To, Runtimes, Phase, Over
<1>2. CASE s = "PartEnd"
  <2>1. PartEndSeen \in Runtimes
    BY DEF PartEndSeen, Recovery, To, Runtimes, Phase
  <2> QED
    BY <1>2, <2>1 DEF apply_status, PartEndSeen, Recovery, To, Runtimes, Over
<1>3. CASE s = "Idle"
  BY <1>3 DEF apply_status, IdleSeen, Recovery, To, Runtimes, Phase, Owns, OwningPhase
<1>4. CASE s \in {"Running", "Paused", "ManualMotion"}
  <2>1. apply_status(s) = ActivitySeen(s)
    BY <1>4 DEF apply_status
  <2>2. \/ ActivitySeen(s) = rt
        \/ \E p \in {"Running", "Paused", "RecoveryRequired", "BusyUnowned"} :
             ActivitySeen(s) = To(p)
        \/ ActivitySeen(s) = [To("Running") EXCEPT !.observed_active = TRUE]
        \/ /\ rt.phase = "Running"
           /\ ActivitySeen(s) = [rt EXCEPT !.observed_active = TRUE]
    BY DEF ActivitySeen, Recovery
  <2>3. CASE ActivitySeen(s) = rt
    BY <2>1, <2>3
  <2>4. ASSUME NEW p \in {"Running", "Paused", "RecoveryRequired", "BusyUnowned"},
               ActivitySeen(s) = To(p)
        PROVE  /\ apply_status(s) \in Runtimes /\ apply_status(s).phase = p
               /\ \A f \in {"receipt", "cursor", "ambiguous", "owned_output_unresolved"} :
                    apply_status(s)[f] = rt[f]
    <3>1. p \in Phase
      BY DEF Phase
    <3> QED
      BY <2>1, <2>4, <3>1, ToPhase
  <2>5. CASE ActivitySeen(s) = [To("Running") EXCEPT !.observed_active = TRUE]
    <3>1. "Running" \in Phase /\ "Running" \notin Over
      BY DEF Phase, Over
    <3>2. To("Running") \in Runtimes /\ To("Running").phase = "Running"
      BY <3>1, ToPhase
    <3> QED
      BY <2>1, <2>5, <3>1, <3>2, ToPhase, Active
  <2>6. CASE /\ rt.phase = "Running"
             /\ ActivitySeen(s) = [rt EXCEPT !.observed_active = TRUE]
    BY <2>1, <2>6 DEF Runtimes, Over
  <2> QED
    BY <2>2, <2>3, <2>4, <2>5, <2>6 DEF Over
<1> QED
  BY <1>1, <1>2, <1>3, <1>4 DEF Exec

\* A status that is told keeps the runtime safe.
LEMMA StatusSafe ==
  ASSUME SessionInv, conn, NEW s \in Exec, Told(<<"status", s>>)
  PROVE  Safe(apply_status(s))
<1>1. rt \in Runtimes
  BY DEF SessionInv, TypeInv
<1>2. s = "Idle" => ~OwnedRun
  BY DEF Told
<1> QED
  BY <1>1, <1>2, StatusSeen DEF Safe, SessionInv, SafeInv
(***************************************************************************)
(* Each operation keeps the invariant.                                     *)
(***************************************************************************)
LEMMA Busy ==
  ASSUME SessionInv, io.part # "none"
  PROVE  /\ cmd # "none" /\ ~rt.ambiguous /\ rt \in Runtimes
         /\ conn => Safe(rt)
  BY DEF SessionInv, PartInv, TypeInv, SafeInv, Safe

LEMMA Free ==
  ASSUME SessionInv, cmd = "none"
  PROVE  /\ io.part = "none" /\ replies = <<>> /\ rt \in Runtimes
         /\ conn => Safe(rt)
  BY DEF SessionInv, PartInv, TypeInv, SafeInv, Safe, WireInv

Uploads == {"none", "announce", "chunk", "eof"}

\* An exchange that leads to another and leaves the runtime alone.
LEMMA RestKeeps ==
  ASSUME SessionInv, HostOnly, NEW p, p # "none", GoesTo(p), io.part # "none", rt' = rt,
         conn => pending = NoUpload,
         PartInv'
  PROVE  SessionInv'
  BY Busy, GoesKeeps

LEMMA FreshType ==
  Fresh \in Runtimes /\ Fresh.phase = "Disconnected" /\ ~Fresh.ambiguous
  /\ Fresh.owned_output_unresolved = FALSE
<1>1. NoCursor \in Cursors
  BY DEF NoCursor, Cursors
<1>2. "Disconnected" \in Phase
  BY DEF Phase
<1> QED
  BY <1>1, <1>2 DEF Fresh, Runtimes

LEMMA ConnectKeeps ==
  ASSUME Lockstep, SessionInv, BeginConnect \/ Enquires \/ Connects \/ ConnectBreaks
  PROVE  SessionInv'
<1>1. TypeInv /\ WireInv
  BY DEF SessionInv
<1>2. CASE BeginConnect
  <2>1. HostOnly /\ conn' = FALSE /\ rt' = Fresh /\ cmd' = "connect" /\ job' = "none"
    BY <1>2 DEF BeginConnect, HostOnly, SessionInv, PartInv, TypeInv
  <2>2. io' \in Operations /\ io'.part = "enq" /\ io'.await = "send"
    BY <1>1, <1>2, EntersIo DEF BeginConnect, Parts
  <2>3. PartInv'
    BY <2>1, <2>2, FreshType DEF PartInv
  <2> QED
    BY <2>1, <2>2, <2>3, FreshType, HostKeeps
<1>3. CASE Enquires
  <2>1. CASE Done("enq") /\ Goes("card") /\ UNCHANGED rt
    <3>1. HostOnly /\ io.part = "enq"
      BY <1>1, <2>1, DoneEnds
    <3>2. GoesTo("card")
      BY <1>1, <2>1, GoesGoesTo DEF Parts
    <3>3. PartInv'
      BY <2>1, <3>1, <3>2 DEF SessionInv, PartInv, GoesTo, svcVars
    <3> QED
      BY <2>1, <3>1, <3>2, <3>3, NotPending, RestKeeps
  <2>2. CASE Gives("card", <<"card">>) /\ Goes("connected") /\ UNCHANGED rt
    <3>1. HostOnly /\ io.part = "card"
      BY <1>1, <2>2, GivesEnds
    <3>2. GoesTo("connected")
      BY <1>1, <2>2, GoesGoesTo DEF Parts, Statuses
    <3>3. PartInv'
      BY <2>2, <3>1, <3>2 DEF SessionInv, PartInv, GoesTo, svcVars
    <3> QED
      BY <2>2, <3>1, <3>2, <3>3, NotPending, RestKeeps
  <2> QED
    BY <1>3, <2>1, <2>2 DEF Enquires
<1>4. CASE Connects
  <2>1. PICK s \in Exec :
          /\ Gives("connected", <<"status", s>>)
          /\ IF s = "Idle"
             THEN /\ rt' = To("Ready") /\ conn' = TRUE
                  /\ cmd' = "none" /\ io' = NoIo /\ UNCHANGED job
             ELSE Errs /\ UNCHANGED rt
    BY <1>4 DEF Connects
  <2>2. HostOnly /\ io.part = "connected" /\ pending = NoUpload
        /\ Told(<<"status", s>>)
    BY <1>1, <2>1, GivesEnds
  <2>3. rt = Fresh
    BY <2>2 DEF SessionInv, PartInv
  <2>4. CASE s = "Idle"
    <3>1. rt' = To("Ready") /\ conn' = TRUE /\ cmd' = "none" /\ io' = NoIo
      BY <2>1, <2>4
    <3>2. rt' \in Runtimes /\ rt'.phase = "Ready" /\ ~rt'.ambiguous
      BY <2>3, <3>1, FreshType, ToPhase DEF Phase
    <3>3. ~OwnedRun
      BY <2>2, <2>4 DEF Told
    <3>4. PartInv'
      BY <3>1, <3>2, NoIoType DEF PartInv
    <3> QED
      BY <2>2, <3>1, <3>2, <3>3, <3>4, NoIoType, HostKeeps DEF Safe
  <2>5. CASE s # "Idle"
    <3>1. Errs /\ rt' = rt
      BY <2>1, <2>5
    <3> QED
      BY <2>2, <2>3, <3>1, FreshType, Busy, ErrsKeep
  <2> QED
    BY <2>4, <2>5
<1>5. CASE ConnectBreaks
  <2>1. PICK p \in {"enq", "card", "connected"} : Breaks(p)
    BY <1>5 DEF ConnectBreaks
  <2>2. HostOnly /\ io.part \in {"enq", "card", "connected"}
    BY <1>1, <2>1, BreaksEnds
  <2>3. rt = Fresh
    BY <2>2 DEF SessionInv, PartInv
  <2> QED
    BY <1>5, <2>2, <2>3, FreshType, NotPending, Busy, ErrsKeep DEF ConnectBreaks
<1> QED
  BY <1>2, <1>3, <1>4, <1>5

LEMMA Recovers ==
  ASSUME rt \in Runtimes
  PROVE  /\ Recovery \in Runtimes /\ Recovery.phase = "RecoveryRequired"
         /\ Recovery.ambiguous = rt.ambiguous /\ Recovery.receipt = rt.receipt
         /\ Recovery.cursor = rt.cursor
         /\ Safe(rt) => Safe(Recovery)
<1>1. "RecoveryRequired" \in Phase /\ "RecoveryRequired" \notin Over
  BY DEF Phase, Over
<1> QED
  BY <1>1, ToPhase DEF Recovery, Safe

LEMMA NoCursorType ==
  NoCursor \in Cursors /\ NoCursor.acked = 0
  BY DEF NoCursor, Cursors

\* A runtime without its cursor.
LEMMA Uncursored ==
  ASSUME NEW r \in Runtimes
  PROVE  LET u == [r EXCEPT !.cursor = NoCursor]
         IN /\ u \in Runtimes /\ u.phase = r.phase /\ u.receipt = r.receipt
            /\ u.ambiguous = r.ambiguous
            /\ u.owned_output_unresolved = r.owned_output_unresolved
  BY NoCursorType DEF Runtimes

LEMMA BeginStartKeeps ==
  ASSUME SessionInv, BeginStart
  PROVE  SessionInv'
<1>1. /\ cmd = "none" /\ rt.phase = "Ready" /\ cmd' = "start" /\ Enter("begin", 1)
      /\ conn /\ job = "none"
      /\ UNCHANGED <<ctlVars, replies, conn, job, rt>>
  BY DEF BeginStart
<1>2. io.part = "none" /\ replies = <<>> /\ rt \in Runtimes /\ (conn => Safe(rt))
  BY <1>1, Free
<1>3. io' \in Operations /\ io'.part = "begin" /\ io'.await = "send"
  BY <1>1, EntersIo DEF SessionInv, Parts, Listings
<1>4. ~rt.ambiguous /\ (conn => pending = NoUpload) /\ conn' \in BOOLEAN
  BY <1>1, <1>2 DEF SessionInv, PartInv, PendInv, TypeInv
<1>5. PartInv'
  BY <1>1, <1>3, <1>4 DEF PartInv
<1>6. HostOnly
  BY <1>1, <1>2 DEF HostOnly
<1> QED
  BY <1>1, <1>2, <1>3, <1>4, <1>5, <1>6, HostKeeps

LEMMA BeginsKeeps ==
  ASSUME SessionInv, Begins
  PROVE  SessionInv'
<1>1. HostOnly /\ io.part = "begin" /\ pending = NoUpload
  BY ListsEnds DEF Begins, SessionInv
<1>2. ~rt.ambiguous /\ rt \in Runtimes /\ (conn => Safe(rt)) /\ rt.phase = "Ready"
      /\ conn /\ cmd # "disconnect"
  BY <1>1, Busy DEF SessionInv, PartInv
<1>3. CASE Errs /\ UNCHANGED rt
  BY <1>1, <1>2, <1>3, ErrsKeep
<1>4. CASE /\ \E n \in Names : rt' = [To("Uploading") EXCEPT
                                        !.cursor = [NoCursor EXCEPT !.name = n]]
           /\ Leaves("Preparing")
  <2>1. PICK n \in Names : rt' = [To("Uploading") EXCEPT
                                    !.cursor = [NoCursor EXCEPT !.name = n]]
    BY <1>4
  <2>2. [NoCursor EXCEPT !.name = n] \in Cursors /\ [NoCursor EXCEPT !.name = n].name = n
    BY NoCursorType DEF Cursors
  <2>3. "Uploading" \in Phase
    BY DEF Phase
  <2>4. /\ rt' \in Runtimes /\ rt'.phase = "Uploading" /\ rt'.cursor.name = n
        /\ ~rt'.ambiguous
    BY <1>2, <2>1, <2>2, <2>3 DEF To, Runtimes
  <2>5. conn => Safe(rt')
    BY <1>2 DEF Safe, Over
  <2> QED
    BY <1>1, <1>2, <1>4, <2>4, <2>5, LeavesKeeps
<1> QED
  BY <1>3, <1>4 DEF Begins

LEMMA BeginTickKeeps ==
  ASSUME SessionInv, BeginTick
  PROVE  SessionInv'
<1>1. cmd = "none" /\ job # "none" /\ UNCHANGED <<ctlVars, replies, conn, rt>>
  BY DEF BeginTick
<1>2. io.part = "none" /\ replies = <<>> /\ rt \in Runtimes /\ (conn => Safe(rt))
  BY <1>1, Free
<1>3. HostOnly /\ conn' \in BOOLEAN
  BY <1>1, <1>2 DEF HostOnly, SessionInv, TypeInv
<1>4. CASE rt.ambiguous
  <2>1. job' = "none" /\ cmd' = cmd /\ io' = io
    BY <1>4 DEF BeginTick
  <2>2. PartInv' /\ io' \in Operations
    BY <1>1, <1>2, <1>4, <2>1 DEF SessionInv, PartInv, TypeInv
  <2> QED
    BY <1>1, <1>2, <1>3, <1>4, <2>2, HostKeeps
<1>5. CASE ~rt.ambiguous
  <2> DEFINE p == IF rt.phase # "Uploading" THEN "status" ELSE UploadStep
  <2>1. cmd' = "tick" /\ job' = job /\ Enter(p, 1)
    BY <1>5 DEF BeginTick
  <2>2. rt.cursor.stage \in {"AnnounceFile", "Chunks", "Verify"}
    BY <1>2 DEF Runtimes, Cursors
  <2>3. \/ p = "status" /\ rt.phase # "Uploading"
        \/ p = "announce" /\ rt.phase = "Uploading" /\ rt.cursor.stage = "AnnounceFile"
        \/ p = "chunk" /\ rt.phase = "Uploading" /\ rt.cursor.stage = "Chunks"
        \/ p = "verify" /\ rt.phase = "Uploading" /\ rt.cursor.stage = "Verify"
    <3>1. CASE rt.phase # "Uploading"
      BY <3>1
    <3>2. CASE rt.phase = "Uploading"
      BY <2>2, <3>2 DEF UploadStep
    <3> QED
      BY <3>1, <3>2
  <2> HIDE DEF p
  <2>4. io' \in Operations /\ io'.part = p /\ io'.await = "send"
    BY <2>1, <2>3, EntersIo DEF SessionInv, Parts, Listings, Statuses
  <2>5. PartInv'
    BY <1>1, <1>5, <2>1, <2>3, <2>4 DEF SessionInv, PartInv
  <2>6. conn /\ pending # NoUpload => rt.phase = "Uploading" /\ rt.cursor.stage = "Chunks"
    BY <1>2, <1>5 DEF SessionInv, PendInv
  <2> QED
    BY <1>1, <1>2, <1>3, <2>3, <2>4, <2>5, <2>6, HostKeeps
<1> QED
  BY <1>4, <1>5

LEMMA AnnouncesKeeps ==
  ASSUME SessionInv, Announces
  PROVE  SessionInv'
<1>1. HostOnly /\ io.part = "announce"
  BY DoneEnds DEF Announces, SessionInv
<1>2. ~rt.ambiguous /\ rt \in Runtimes /\ (conn => Safe(rt))
      /\ rt.phase = "Uploading" /\ job # "none" /\ rt.cursor.name \in Names
      /\ conn /\ cmd # "disconnect"
  BY <1>1, Busy DEF SessionInv, PartInv
<1>3. rt' = [rt EXCEPT !.cursor.stage = "Chunks"]
  BY DEF Announces
<1>4. /\ rt' \in Runtimes /\ rt'.phase = rt.phase /\ rt'.cursor.stage = "Chunks"
      /\ rt'.cursor.name = rt.cursor.name /\ rt'.ambiguous = rt.ambiguous
      /\ rt'.owned_output_unresolved = rt.owned_output_unresolved
  BY <1>2, <1>3 DEF Runtimes, Cursors
<1> QED
  BY <1>1, <1>2, <1>4, LeavesKeeps DEF Announces, Safe

LEMMA SendsChunkKeeps ==
  ASSUME SessionInv, SendsChunk
  PROVE  SessionInv'
<1>1. HostOnly /\ io.part = "chunk" /\ replies = <<Ack>>
  BY DoneEnds DEF SendsChunk, SessionInv
<1>2. ~rt.ambiguous /\ rt \in Runtimes /\ (conn => Safe(rt))
      /\ rt.phase = "Uploading" /\ rt.cursor.stage = "Chunks" /\ job # "none"
      /\ rt.cursor.name \in Names /\ conn /\ cmd # "disconnect"
  BY <1>1, Busy DEF SessionInv, PartInv
<1> DEFINE acked == rt.cursor.acked + 1
           stage == IF acked = Chunks THEN "Verify" ELSE rt.cursor.stage
<1>3. rt' = [rt EXCEPT !.cursor.acked = acked, !.cursor.stage = stage]
  BY DEF SendsChunk
<1>4. acked \in Nat /\ stage \in {"AnnounceFile", "Chunks", "Verify"}
  BY <1>2 DEF Runtimes, Cursors
<1>5. conn /\ pending # NoUpload => stage = "Chunks"
  BY <1>1, <1>2 DEF SessionInv, PendInv
<1>6. acked # Chunks => stage = "Chunks"
  BY <1>2
<1>7. \/ Leaves(job)
      \/ acked # Chunks /\ Again
  BY DEF SendsChunk
<1> HIDE DEF acked, stage
<1>8. /\ rt' \in Runtimes /\ rt'.phase = rt.phase /\ rt'.cursor.stage = stage
      /\ rt'.cursor.name = rt.cursor.name /\ rt'.ambiguous = rt.ambiguous
      /\ rt'.owned_output_unresolved = rt.owned_output_unresolved
  BY <1>2, <1>3, <1>4 DEF Runtimes, Cursors
<1>9. conn => Safe(rt')
  BY <1>2, <1>8 DEF Safe
<1>10. CASE Leaves(job)
  BY <1>1, <1>2, <1>5, <1>8, <1>9, <1>10, LeavesKeeps
<1>11. CASE acked # Chunks /\ Again
  <2>1. GoesTo("chunk")
    BY <1>1, <1>11, AgainGoesTo DEF SessionInv
  <2>2. PartInv'
    BY <1>1, <1>2, <1>6, <1>8, <1>11, <2>1 DEF SessionInv, PartInv, GoesTo, svcVars
  <2> QED
    BY <1>1, <1>2, <1>5, <1>8, <1>9, <2>1, <2>2, GoesKeeps
<1> QED
  BY <1>7, <1>10, <1>11

LEMMA UploadBreaksKeeps ==
  ASSUME Lockstep, SessionInv, UploadBreaks \/ CloseBreaks
  PROVE  SessionInv'
<1>1. PICK p \in {"announce", "chunk", "eof"} : Breaks(p)
  BY DEF UploadBreaks, CloseBreaks
<1>2. HostOnly /\ io.part = p
  BY <1>1, BreaksEnds DEF SessionInv
<1>3. rt \in Runtimes /\ (conn => Safe(rt))
  BY <1>2, Busy
<1>4. Errs /\ rt' = [Recovery EXCEPT !.cursor = NoCursor, !.ambiguous = TRUE]
  BY DEF UploadBreaks, CloseBreaks
<1>5. Recovery \in Runtimes /\ Recovery.phase = "RecoveryRequired"
      /\ (conn => Safe(Recovery))
  BY <1>3, Recovers
<1>6. /\ rt' \in Runtimes /\ rt'.phase = "RecoveryRequired" /\ rt'.ambiguous
      /\ rt'.owned_output_unresolved = Recovery.owned_output_unresolved
  BY <1>4, <1>5, NoCursorType DEF Runtimes
<1> QED
  BY <1>2, <1>4, <1>5, <1>6, ErrsKeep DEF Safe
LEMMA VerifiesKeeps ==
  ASSUME SessionInv, Verifies
  PROVE  SessionInv'
<1>1. HostOnly /\ io.part = "verify" /\ pending = NoUpload
  BY ListsEnds DEF Verifies, SessionInv
<1>2. ~rt.ambiguous /\ rt \in Runtimes /\ (conn => Safe(rt)) /\ rt.phase = "Uploading"
      /\ rt.cursor \in Cursors
  BY <1>1, Busy DEF SessionInv, PartInv, Runtimes
<1>3. /\ rt' = [To("Uploaded") EXCEPT !.receipt = rt.cursor.name, !.cursor = NoCursor]
      /\ Goes("inspect")
  BY DEF Verifies
<1>4. rt.cursor.name \in Names \cup {NoName} /\ "Uploaded" \in Phase
  BY <1>2 DEF Cursors, Phase
<1>5. rt' \in Runtimes /\ rt'.phase = "Uploaded" /\ ~rt'.ambiguous
  BY <1>2, <1>3, <1>4, NoCursorType DEF To, Runtimes
<1>6. conn => Safe(rt')
  BY <1>2, <1>5 DEF Safe, Over
<1>7. GoesTo("inspect")
  BY <1>3, GoesGoesTo DEF SessionInv, Parts, Listings
<1>8. PartInv'
  BY <1>1, <1>2, <1>5, <1>7 DEF SessionInv, PartInv, GoesTo, svcVars
<1> QED
  BY <1>1, <1>5, <1>6, <1>7, <1>8, GoesKeeps

LEMMA LooksAgainKeeps ==
  ASSUME SessionInv, LooksAgain
  PROVE  SessionInv'
<1>1. PICK p \in {"verify", "find", "gone"} : Lists(p)
  BY DEF LooksAgain
<1>2. HostOnly /\ io.part = p /\ pending = NoUpload
  BY <1>1, ListsEnds DEF SessionInv
<1>3. GoesTo(p) /\ rt' = rt
  BY <1>2, AgainGoesTo DEF LooksAgain, SessionInv
<1>4. PartInv'
  BY <1>1, <1>2, <1>3 DEF SessionInv, PartInv, GoesTo, svcVars
<1> QED
  BY <1>2, <1>3, <1>4, RestKeeps

LEMMA VerifyFailsKeeps ==
  ASSUME Lockstep, SessionInv, VerifyFails
  PROVE  SessionInv'
<1>1. Breaks("verify") \/ Lists("verify")
  BY DEF VerifyFails
<1>2. HostOnly /\ io.part = "verify"
  BY <1>1, ListsEnds, BreaksEnds DEF SessionInv
<1>3. ~rt.ambiguous /\ rt \in Runtimes /\ (conn => Safe(rt)) /\ rt.phase = "Uploading"
  BY <1>2, Busy DEF SessionInv, PartInv
<1>4. rt' = [To("Ready") EXCEPT !.cursor = NoCursor] /\ Errs
  BY DEF VerifyFails
<1>5. To("Ready") \in Runtimes /\ To("Ready").phase = "Ready" /\ ~To("Ready").ambiguous
  BY <1>3, ToPhase DEF Phase
<1>6. rt' \in Runtimes /\ rt'.phase = "Ready" /\ ~rt'.ambiguous
  BY <1>4, <1>5, Uncursored
<1>7. conn => Safe(rt')
  BY <1>3, <1>6 DEF Safe, Over
<1>8. conn => pending = NoUpload
  BY <1>2, NotPending
<1> QED
  BY <1>2, <1>4, <1>6, <1>7, <1>8, ErrsKeep

LEMMA InspectsKeeps ==
  ASSUME SessionInv, Inspects
  PROVE  SessionInv'
<1>1. HostOnly /\ io.part = "inspect" /\ pending = NoUpload
  BY ListsEnds DEF Inspects, SessionInv
<1>2. GoesTo("select") /\ rt' = rt
  BY GoesListedGoesTo DEF Inspects, Listings, Parts
<1>3. PartInv'
  BY <1>1, <1>2 DEF SessionInv, PartInv, GoesTo, svcVars
<1> QED
  BY <1>1, <1>2, <1>3, RestKeeps

\* The exchange failed, the runtime is left as it is.
LEMMA ErrsUnchanged ==
  ASSUME SessionInv, HostOnly, Errs, rt' = rt, rt.phase # "Uploading",
         io.part \notin Uploads
  PROVE  SessionInv'
<1>1. ~rt.ambiguous /\ rt \in Runtimes /\ (conn => Safe(rt))
  BY Busy DEF Uploads
<1>2. conn => pending = NoUpload
  BY NotPending DEF Uploads
<1> QED
  BY <1>1, <1>2, ErrsKeep

\* The exchange failed, and the session asks for recovery.
LEMMA ErrsRecover ==
  ASSUME SessionInv, HostOnly, Errs, io.part \notin Uploads,
         rt' \in Runtimes, rt'.phase = "RecoveryRequired", ~rt'.ambiguous,
         rt'.owned_output_unresolved = rt.owned_output_unresolved
  PROVE  SessionInv'
<1>1. conn => Safe(rt)
  BY Busy DEF Uploads
<1>2. conn => pending = NoUpload
  BY NotPending DEF Uploads
<1>3. conn => Safe(rt')
  BY <1>1 DEF Safe, Over
<1> QED
  BY <1>2, <1>3, ErrsKeep

LEMMA InspectFailsKeeps ==
  ASSUME Lockstep, SessionInv, InspectFails \/ BeginBreaks
  PROVE  SessionInv'
<1>1. PICK p \in {"inspect", "begin"} : Breaks(p) \/ Lists(p)
  BY DEF InspectFails, BeginBreaks
<1>2. HostOnly /\ io.part = p
  BY <1>1, ListsEnds, BreaksEnds DEF SessionInv
<1>3. rt.phase \in {"Uploaded", "Ready"}
  BY <1>2 DEF SessionInv, PartInv
<1>4. rt' = rt /\ Errs
  BY DEF InspectFails, BeginBreaks
<1> QED
  BY <1>2, <1>3, <1>4, ErrsUnchanged DEF Uploads

LEMMA SelectsFileKeeps ==
  ASSUME SessionInv, SelectsFile
  PROVE  SessionInv'
<1>1. HostOnly /\ io.part = "select"
  BY DoneEnds DEF SelectsFile, SessionInv
<1>2. GoesTo("selected") /\ rt' = rt
  BY GoesGoesTo DEF SelectsFile, SessionInv, Parts, Statuses
<1>3. PartInv'
  BY <1>1, <1>2 DEF SessionInv, PartInv, GoesTo, svcVars
<1> QED
  BY <1>1, <1>2, <1>3, NotPending, RestKeeps

LEMMA StartsKeeps ==
  ASSUME SessionInv, Starts
  PROVE  SessionInv'
<1>1. PICK s \in Exec :
        /\ Gives("selected", <<"status", s>>)
        /\ IF apply_status(s).phase = "Uploaded"
           THEN /\ rt' = [To("Starting") EXCEPT !.observed_active = FALSE,
                                                !.observed_part_end = FALSE,
                                                !.owned_output_unresolved = TRUE]
                /\ Goes("process")
           ELSE rt' = Recovery /\ Errs
  BY DEF Starts
<1>2. HostOnly /\ io.part = "selected" /\ pending = NoUpload
  BY <1>1, GivesEnds DEF SessionInv
<1>3. ~rt.ambiguous /\ rt \in Runtimes /\ (conn => Safe(rt)) /\ rt.phase = "Uploaded"
  BY <1>2, Busy DEF SessionInv, PartInv
<1>4. CASE apply_status(s).phase = "Uploaded"
  <2>1. To("Starting") \in Runtimes /\ To("Starting").phase = "Starting"
        /\ To("Starting").ambiguous = rt.ambiguous
    BY <1>3, ToPhase DEF Phase
  <2>2. rt' = [To("Starting") EXCEPT !.observed_active = FALSE,
                                     !.observed_part_end = FALSE,
                                     !.owned_output_unresolved = TRUE]
        /\ Goes("process")
    BY <1>1, <1>4
  <2> HIDE DEF To
  <2>3. rt' \in Runtimes /\ rt'.phase = "Starting" /\ rt'.owned_output_unresolved
        /\ ~rt'.ambiguous
    BY <1>3, <2>1, <2>2 DEF Runtimes
  <2>4. GoesTo("process")
    BY <2>2, GoesGoesTo DEF SessionInv, Parts
  <2>5. PartInv'
    BY <1>2, <2>3, <2>4 DEF SessionInv, PartInv, GoesTo, svcVars
  <2>6. Safe(rt')
    BY <2>3 DEF Safe, Over
  <2> QED
    BY <1>2, <2>3, <2>4, <2>5, <2>6, GoesKeeps
<1>5. CASE apply_status(s).phase # "Uploaded"
  BY <1>1, <1>2, <1>3, <1>5, ErrsRecover, Recovers, ToPhase
  DEF Recovery, Phase, Uploads
<1> QED
  BY <1>4, <1>5

\* A command or a move that failed asks for recovery.
LEMMA CommandFailsKeeps ==
  ASSUME Lockstep, SessionInv, SelectFails \/ ProcessFails \/ MoveBreaks
  PROVE  SessionInv'
<1>1. PICK p \in {"select", "selected", "process", "home", "speed", "move"} : Breaks(p)
  BY DEF SelectFails, ProcessFails, MoveBreaks
<1>2. HostOnly /\ io.part = p
  BY <1>1, BreaksEnds DEF SessionInv
<1>3. ~rt.ambiguous /\ rt \in Runtimes
  BY <1>2, Busy
<1>4. rt' = Recovery /\ Errs
  BY DEF SelectFails, ProcessFails, MoveBreaks
<1>5. /\ rt' \in Runtimes /\ rt'.phase = "RecoveryRequired" /\ ~rt'.ambiguous
      /\ rt'.owned_output_unresolved = rt.owned_output_unresolved
  BY <1>3, <1>4, ToPhase DEF Recovery, Phase
<1> QED
  BY <1>2, <1>4, <1>5, ErrsRecover DEF Uploads

LEMMA SendsProcessKeeps ==
  ASSUME SessionInv, SendsProcess
  PROVE  SessionInv'
<1>1. HostOnly /\ io.part = "process"
  BY DoneEnds DEF SendsProcess, SessionInv
<1>2. GoesTo("confirm") /\ rt' = rt
  BY GoesGoesTo DEF SendsProcess, SessionInv, Parts, Statuses
<1>3. PartInv'
  BY <1>1, <1>2 DEF SessionInv, PartInv, GoesTo, svcVars
<1> QED
  BY <1>1, <1>2, <1>3, NotPending, RestKeeps
LEMMA ConfirmsKeeps ==
  ASSUME SessionInv, Confirms
  PROVE  SessionInv'
<1>1. PICK s \in Exec :
        /\ Gives("confirm", <<"status", s>>)
        /\ apply_status(s).phase = Target
        /\ rt' = apply_status(s)
        /\ IF cmd = "cancel" THEN Goes("scoped")
           ELSE Leaves(IF Target = "Stopped" THEN "none" ELSE Target)
  BY DEF Confirms
<1>2. HostOnly /\ io.part = "confirm" /\ pending = NoUpload /\ Told(<<"status", s>>)
  BY <1>1, GivesEnds DEF SessionInv
<1>3. ~rt.ambiguous /\ rt \in Runtimes
  BY <1>2, Busy
<1>4. rt' \in Runtimes /\ ~rt'.ambiguous /\ rt'.phase = Target
  BY <1>1, <1>3, StatusSeen
<1>5. conn => Safe(rt')
  BY <1>1, <1>2, StatusSafe
<1>6. Target \in {"Paused", "Running", "Stopped"}
      /\ (cmd \in {"cancel", "disconnect"} => Target = "Stopped")
  BY DEF Target
<1>7. CASE cmd = "cancel"
  <2>1. GoesTo("scoped")
    BY <1>1, <1>7, GoesGoesTo DEF SessionInv, Parts, Listings
  <2>2. PartInv'
    BY <1>2, <1>4, <1>6, <1>7, <2>1
    DEF SessionInv, PartInv, GoesTo, svcVars, Receipted
  <2> QED
    BY <1>2, <1>4, <1>5, <2>1, <2>2, GoesKeeps
<1>8. CASE cmd # "cancel" /\ Target = "Stopped"
  BY <1>1, <1>2, <1>4, <1>5, <1>8, LeavesKeeps
<1>9. CASE cmd # "cancel" /\ Target # "Stopped"
  <2>1. cmd \in {"pause", "tick", "resume"}
    BY <1>9 DEF Target
  <2>2. CASE conn
    BY <1>1, <1>2, <1>4, <1>5, <1>6, <1>9, <2>1, <2>2, LeavesKeeps
  <2>3. CASE ~conn
    <3>1. FALSE
      BY <1>2, <2>1, <2>3 DEF SessionInv, PartInv
    <3> QED
      BY <3>1
  <2> QED
    BY <2>2, <2>3
<1> QED
  BY <1>7, <1>8, <1>9

LEMMA WaitsKeeps ==
  ASSUME SessionInv, Waits
  PROVE  SessionInv'
<1>1. PICK s \in Exec :
        Gives("confirm", <<"status", s>>) /\ rt' = apply_status(s) /\ Again
  BY DEF Waits
<1>2. HostOnly /\ io.part = "confirm" /\ pending = NoUpload /\ Told(<<"status", s>>)
  BY <1>1, GivesEnds DEF SessionInv
<1>3. ~rt.ambiguous /\ rt \in Runtimes /\ rt.phase # "Uploading"
  BY <1>2, Busy DEF SessionInv, PartInv
<1>4. rt' \in Runtimes /\ ~rt'.ambiguous /\ rt'.phase # "Uploading"
  BY <1>1, <1>3, StatusSeen
<1>5. conn => Safe(rt')
  BY <1>1, <1>2, StatusSafe
<1>6. GoesTo("confirm")
  BY <1>1, <1>2, AgainGoesTo DEF SessionInv
<1>7. PartInv'
  BY <1>2, <1>4, <1>6 DEF SessionInv, PartInv, GoesTo, svcVars
<1> QED
  BY <1>2, <1>4, <1>5, <1>6, <1>7, GoesKeeps

LEMMA NotConfirmedKeeps ==
  ASSUME SessionInv, NotConfirmed
  PROVE  SessionInv'
<1>1. PICK s \in Exec :
        /\ Gives("confirm", <<"status", s>>) /\ Errs
        /\ rt' = [apply_status(s) EXCEPT !.phase = "RecoveryRequired"]
  BY DEF NotConfirmed
<1>2. HostOnly /\ io.part = "confirm" /\ pending = NoUpload /\ Told(<<"status", s>>)
  BY <1>1, GivesEnds DEF SessionInv
<1>3. rt \in Runtimes
  BY <1>2, Busy
<1> DEFINE r == apply_status(s)
<1>4. r \in Runtimes /\ (conn => Safe(r))
  BY <1>2, <1>3, StatusSeen, StatusSafe
<1>5. rt' = [r EXCEPT !.phase = "RecoveryRequired"] /\ "RecoveryRequired" \in Phase
  BY <1>1 DEF Phase
<1> HIDE DEF r
<1>6. /\ rt' \in Runtimes /\ rt'.phase = "RecoveryRequired"
      /\ rt'.owned_output_unresolved = r.owned_output_unresolved
  BY <1>4, <1>5 DEF Runtimes
<1> QED
  BY <1>1, <1>2, <1>4, <1>6, ErrsKeep DEF Safe, Over

\* A status that did not come leaves the runtime alone or asks for recovery.
LEMMA AfterLosses ==
  ASSUME rt \in Runtimes, NEW r \in {AfterLoss, Recovery, rt}
  PROVE  /\ r \in Runtimes /\ r.ambiguous = rt.ambiguous
         /\ r.phase \in {rt.phase, "RecoveryRequired"}
         /\ r.cursor = rt.cursor /\ r.receipt = rt.receipt
         /\ Safe(rt) => Safe(r)
  BY Recovers DEF AfterLoss

LEMMA StatusLostKeeps ==
  ASSUME Lockstep, SessionInv, ConfirmBreaks \/ TickLosesStatus
  PROVE  SessionInv'
<1>1. PICK p \in {"confirm", "status"} : Breaks(p)
  BY DEF ConfirmBreaks, TickLosesStatus
<1>2. HostOnly /\ io.part = p
  BY <1>1, BreaksEnds DEF SessionInv
<1>3. ~rt.ambiguous /\ rt \in Runtimes /\ (conn => Safe(rt)) /\ rt.phase # "Uploading"
  BY <1>2, Busy DEF SessionInv, PartInv
<1>4. rt' \in {AfterLoss, Recovery, rt} /\ Errs
  BY DEF ConfirmBreaks, TickLosesStatus
<1>5. conn => pending = NoUpload
  BY <1>2, NotPending
<1> QED
  BY <1>2, <1>3, <1>4, <1>5, AfterLosses, ErrsKeep

LEMMA BeginPauseKeeps ==
  ASSUME SessionInv, BeginPause
  PROVE  SessionInv'
<1>1. /\ cmd = "none" /\ job # "none" /\ Enter("process", 1)
      /\ UNCHANGED <<ctlVars, replies, conn, job>>
      /\ \/ rt.phase = "Running" /\ rt' = To("Pausing") /\ cmd' = "pause"
         \/ rt.phase = "Paused" /\ rt' = To("Resuming") /\ cmd' = "resume"
  BY DEF BeginPause
<1>2. io.part = "none" /\ replies = <<>> /\ rt \in Runtimes /\ (conn => Safe(rt))
  BY <1>1, Free
<1>3. io' \in Operations /\ io'.part = "process" /\ io'.await = "send"
  BY <1>1, EntersIo DEF SessionInv, Parts
<1>4. ~rt.ambiguous /\ (conn => pending = NoUpload) /\ conn \in BOOLEAN /\ conn
  BY <1>1, <1>2 DEF SessionInv, PartInv, PendInv, TypeInv
<1>5. /\ rt' \in Runtimes /\ rt'.phase \in {"Pausing", "Resuming"} /\ ~rt'.ambiguous
      /\ rt'.owned_output_unresolved = rt.owned_output_unresolved
  BY <1>1, <1>2, <1>4, ToPhase DEF Phase
<1>6. PartInv'
  BY <1>1, <1>3, <1>4, <1>5 DEF PartInv
<1>7. HostOnly
  BY <1>1, <1>2 DEF HostOnly
<1>8. conn => Safe(rt')
  BY <1>2, <1>5 DEF Safe, Over
<1> QED
  BY <1>1, <1>3, <1>4, <1>5, <1>6, <1>7, <1>8, HostKeeps

LEMMA TickPollsKeeps ==
  ASSUME SessionInv, TickPolls
  PROVE  SessionInv'
<1>1. PICK s \in Exec :
        /\ Gives("status", <<"status", s>>)
        /\ rt' = apply_status(s)
        /\ IF Rejected(s) THEN Errs
           ELSE IF apply_status(s).phase = "Completed" THEN Goes("scoped")
           ELSE Leaves(StateShown(apply_status(s).phase))
  BY DEF TickPolls
<1>2. HostOnly /\ io.part = "status" /\ pending = NoUpload /\ Told(<<"status", s>>)
  BY <1>1, GivesEnds DEF SessionInv
<1>3. ~rt.ambiguous /\ rt \in Runtimes /\ rt.phase # "Uploading" /\ cmd = "tick"
  BY <1>2, Busy DEF SessionInv, PartInv, TickPolls
<1>4. rt' \in Runtimes /\ ~rt'.ambiguous /\ rt'.phase # "Uploading"
  BY <1>1, <1>3, StatusSeen
<1>5. conn => Safe(rt')
  BY <1>1, <1>2, StatusSafe
<1>6. CASE Rejected(s)
  BY <1>1, <1>2, <1>4, <1>5, <1>6, ErrsKeep
<1>7. CASE ~Rejected(s) /\ rt'.phase = "Completed"
  <2>1. GoesTo("scoped")
    BY <1>1, <1>7, GoesGoesTo DEF SessionInv, Parts, Listings
  <2>2. PartInv'
    BY <1>2, <1>3, <1>4, <1>7, <2>1 DEF SessionInv, PartInv, GoesTo, svcVars, Receipted
  <2> QED
    BY <1>2, <1>4, <1>5, <2>1, <2>2, GoesKeeps
<1>8. CASE ~Rejected(s) /\ rt'.phase # "Completed"
  <2>1. Leaves(StateShown(rt'.phase))
    BY <1>1, <1>8
  <2>2. conn
    BY <1>3 DEF SessionInv, PartInv
  <2> QED
    BY <1>2, <1>3, <1>4, <1>5, <2>1, <2>2, LeavesKeeps
<1> QED
  BY <1>6, <1>7, <1>8

LEMMA BeginPollKeeps ==
  ASSUME SessionInv, BeginPoll
  PROVE  SessionInv'
<1>1. /\ cmd = "none" /\ conn /\ job = "none" /\ ~rt.ambiguous
      /\ cmd' = "poll" /\ Enter("status", 1)
      /\ UNCHANGED <<ctlVars, replies, conn, job, rt>>
  BY DEF BeginPoll
<1>2. io.part = "none" /\ replies = <<>> /\ rt \in Runtimes /\ (conn => Safe(rt))
  BY <1>1, Free
<1>3. io' \in Operations /\ io'.part = "status" /\ io'.await = "send"
  BY <1>1, EntersIo DEF SessionInv, Parts, Statuses
<1>4. rt.phase # "Uploading" /\ pending = NoUpload
  BY <1>1, <1>2 DEF SessionInv, PartInv, PendInv
<1>5. PartInv'
  BY <1>1, <1>3, <1>4 DEF PartInv
<1>6. HostOnly
  BY <1>1, <1>2 DEF HostOnly
<1> QED
  BY <1>1, <1>2, <1>3, <1>4, <1>5, <1>6, HostKeeps

LEMMA PollsKeeps ==
  ASSUME SessionInv, Polls
  PROVE  SessionInv'
<1>1. PICK s \in Exec :
        Gives("status", <<"status", s>>) /\ rt' = apply_status(s) /\ Leaves(job)
  BY DEF Polls
<1>2. HostOnly /\ io.part = "status" /\ pending = NoUpload /\ Told(<<"status", s>>)
  BY <1>1, GivesEnds DEF SessionInv
<1>3. ~rt.ambiguous /\ rt \in Runtimes /\ rt.phase # "Uploading"
      /\ cmd # "disconnect" /\ (job # "none" => conn)
  BY <1>2, Busy DEF SessionInv, PartInv
<1>4. rt' \in Runtimes /\ ~rt'.ambiguous /\ rt'.phase # "Uploading"
  BY <1>1, <1>3, StatusSeen
<1>5. conn => Safe(rt')
  BY <1>1, <1>2, StatusSafe
<1> QED
  BY <1>1, <1>2, <1>3, <1>4, <1>5, LeavesKeeps
(***************************************************************************)
(* Stopping.                                                               *)
(***************************************************************************)
LEMMA HaltsKeep ==
  ASSUME SessionInv, HostOnly, conn, NEW c \in {"cancel", "stop", "disconnect"},
         NEW r \in Runtimes, Halts(c, r), Safe(r),
         r.ambiguous => r.phase = "RecoveryRequired",
         r.phase = "Uploading" => r.cursor.name \in Names,
         pending # NoUpload =>
           r.ambiguous \/ (r.phase = "Uploading" /\ r.cursor.stage = "Chunks")
  PROVE  SessionInv'
<1> DEFINE Ends(stopped) == /\ cmd' = "none" /\ io' = NoIo /\ job' = "none"
                            /\ conn' = (stopped /\ c # "disconnect")
           From(p) == /\ cmd' = c /\ UNCHANGED <<conn, job>> /\ Enter(p, 1)
<1>1. CASE r.phase \in OwningPhase \ {"Stopping"}
  <2>1. From("process") /\ rt' = [r EXCEPT !.phase = "Stopping"]
    BY <1>1 DEF Halts, OwningPhase
  <2>2. /\ rt' \in Runtimes /\ rt'.phase = "Stopping" /\ rt'.ambiguous = r.ambiguous
        /\ rt'.owned_output_unresolved = r.owned_output_unresolved
    BY <2>1 DEF Runtimes, Phase
  <2>3. ~r.ambiguous /\ r.phase # "Uploading"
    BY <1>1 DEF OwningPhase
  <2>4. io' \in Operations /\ io'.part = "process" /\ io'.await = "send"
    BY <2>1, EntersIo DEF SessionInv, Parts
  <2>5. PartInv'
    BY <2>1, <2>2, <2>3, <2>4 DEF PartInv
  <2>6. Safe(rt')
    BY <2>2 DEF Safe, Over
  <2> QED
    BY <2>1, <2>2, <2>3, <2>4, <2>5, <2>6, HostKeeps
<1>2. CASE r.phase = "Uploading" /\ r.cursor.stage = "AnnounceFile"
  <2>1. Ends(TRUE) /\ rt' = [r EXCEPT !.phase = "Ready", !.cursor = NoCursor]
    BY <1>2 DEF Halts, OwningPhase
  <2>2. rt' \in Runtimes /\ rt'.phase = "Ready" /\ rt'.ambiguous = r.ambiguous
    BY <2>1, NoCursorType DEF Runtimes, Phase
  <2>3. ~r.ambiguous /\ Safe(rt') /\ pending = NoUpload
    BY <1>2, <2>2 DEF Safe, Over
  <2>4. PartInv'
    BY <2>1, <2>2, <2>3, NoIoType DEF PartInv
  <2> QED
    BY <2>1, <2>2, <2>3, <2>4, NoIoType, HostKeeps
<1>3. CASE r.phase = "Uploading" /\ r.cursor.stage # "AnnounceFile"
  <2> DEFINE p == IF r.cursor.stage = "Chunks" THEN "eof" ELSE "find"
  <2>1. From(p) /\ rt' = r
    BY <1>3 DEF Halts, OwningPhase
  <2>2. p \in {"eof", "find"} /\ (p = "eof" <=> r.cursor.stage = "Chunks")
    OBVIOUS
  <2> HIDE DEF p
  <2>3. io' \in Operations /\ io'.part = p /\ io'.await = "send"
    BY <2>1, <2>2, EntersIo DEF SessionInv, Parts, Listings
  <2>4. ~r.ambiguous
    BY <1>3
  <2>5. PartInv'
    BY <1>3, <2>1, <2>2, <2>3, <2>4 DEF PartInv
  <2> QED
    BY <1>3, <2>1, <2>2, <2>3, <2>4, <2>5, HostKeeps
<1>4. CASE r.phase \in {"Uploaded", "Queued", "Completed", "Stopped"}
  <2>1. From("scoped") /\ rt' = r
    BY <1>4 DEF Halts, OwningPhase
  <2>2. io' \in Operations /\ io'.part = "scoped" /\ io'.await = "send"
    BY <2>1, EntersIo DEF SessionInv, Parts, Listings
  <2>3. ~r.ambiguous
    BY <1>4
  <2>4. PartInv'
    BY <1>4, <2>1, <2>2, <2>3 DEF PartInv, Receipted
  <2> QED
    BY <1>4, <2>1, <2>2, <2>3, <2>4, HostKeeps
<1>5. CASE r.phase \in {"Ready", "Disconnected"}
  <2>1. Ends(TRUE) /\ rt' = r
    BY <1>5 DEF Halts, OwningPhase
  <2>2. ~r.ambiguous /\ pending = NoUpload
    BY <1>5
  <2>3. PartInv'
    BY <1>5, <2>1, <2>2, NoIoType DEF PartInv
  <2> QED
    BY <2>1, <2>2, <2>3, NoIoType, HostKeeps
<1>6. CASE r.phase \notin (OwningPhase \ {"Stopping"})
                \cup {"Uploading", "Uploaded", "Queued", "Completed", "Stopped", "Ready",
                      "Disconnected"}
  <2>1. Ends(FALSE) /\ rt' = r
    BY <1>6 DEF Halts
  <2>2. PartInv'
    BY <1>6, <2>1, NoIoType DEF PartInv
  <2> QED
    BY <2>1, <2>2, NoIoType, HostKeeps
<1> QED
  BY <1>1, <1>2, <1>3, <1>4, <1>5, <1>6

LEMMA PollFailsKeeps ==
  ASSUME Lockstep, SessionInv, PollFails
  PROVE  SessionInv'
<1>1. PICK r \in {AfterLoss, Recovery} :
        /\ \/ Breaks("status") /\ r = AfterLoss
           \/ \E s \in Exec : Gives("status", <<"status", s>>) /\ Rejected(s) /\ r = Recovery
        /\ IF io.tries = 1 THEN Again /\ rt' = r ELSE Halts("disconnect", r)
  BY DEF PollFails
<1>2. HostOnly /\ io.part = "status"
  BY <1>1, BreaksEnds, GivesEnds DEF SessionInv
<1>3. ~rt.ambiguous /\ rt \in Runtimes /\ (conn => Safe(rt)) /\ rt.phase # "Uploading"
  BY <1>2, Busy DEF SessionInv, PartInv
<1>4. /\ r \in Runtimes /\ ~r.ambiguous /\ r.phase # "Uploading"
      /\ conn => Safe(r)
  BY <1>3, AfterLosses
<1>5. conn => pending = NoUpload
  BY <1>2, NotPending
<1>6. CASE io.tries = 1
  <2>1. GoesTo("status") /\ rt' = r
    BY <1>1, <1>2, <1>6, AgainGoesTo DEF SessionInv
  <2>2. PartInv'
    BY <1>2, <1>4, <2>1 DEF SessionInv, PartInv, GoesTo, svcVars
  <2> QED
    BY <1>2, <1>4, <1>5, <2>1, <2>2, GoesKeeps
<1>7. CASE io.tries # 1
  <2>1. Halts("disconnect", r) /\ conn
    BY <1>1, <1>7 DEF PollFails, SessionInv, PartInv
  <2> QED
    BY <1>2, <1>4, <1>5, <2>1, HaltsKeep
<1> QED
  BY <1>6, <1>7

\* An operation that stops the session as it is.
LEMMA StopKeeps ==
  ASSUME SessionInv, PollRefused \/ BeginCancel \/ BeginStop
  PROVE  SessionInv'
<1>1. PICK c \in {"cancel", "stop", "disconnect"} : Halts(c, rt)
  BY DEF PollRefused, BeginCancel, BeginStop
<1>2. cmd = "none" /\ conn /\ UNCHANGED <<ctlVars, replies>>
  BY DEF PollRefused, BeginCancel, BeginStop, SessionInv, PartInv
<1>3. io.part = "none" /\ replies = <<>> /\ rt \in Runtimes /\ Safe(rt)
  BY <1>2, Free
<1>4. /\ rt.ambiguous => rt.phase = "RecoveryRequired"
      /\ rt.phase = "Uploading" => rt.cursor.name \in Names
      /\ pending # NoUpload =>
           rt.ambiguous \/ (rt.phase = "Uploading" /\ rt.cursor.stage = "Chunks")
  BY <1>2, <1>3 DEF SessionInv, PartInv, PendInv
<1>5. HostOnly
  BY <1>2, <1>3 DEF HostOnly
<1> QED
  BY <1>1, <1>2, <1>3, <1>4, <1>5, HaltsKeep

LEMMA ClosesUploadKeeps ==
  ASSUME SessionInv, ClosesUpload
  PROVE  SessionInv'
<1>1. HostOnly /\ io.part = "eof" /\ replies = <<Ack>>
  BY DoneEnds DEF ClosesUpload, SessionInv
<1>2. GoesTo("find") /\ rt' = rt
  BY GoesGoesTo DEF ClosesUpload, SessionInv, Parts, Listings
<1>3. PartInv'
  BY <1>1, <1>2 DEF SessionInv, PartInv, GoesTo, svcVars
<1>4. ~rt.ambiguous
  BY <1>1, Busy
<1>5. conn => pending = NoUpload
  BY <1>1, <1>4 DEF SessionInv, PendInv
<1> QED
  BY <1>1, <1>2, <1>3, <1>5, RestKeeps

LEMMA FindsKeeps ==
  ASSUME SessionInv, Finds
  PROVE  SessionInv'
<1>1. PICK p \in {"find", "scoped"} : Lists(p)
  BY DEF Finds
<1>2. HostOnly /\ io.part = p /\ pending = NoUpload
  BY <1>1, ListsEnds DEF SessionInv
<1>3. GoesTo("delete") /\ rt' = rt
  BY <1>1, GoesListedGoesTo DEF Finds, Listings, Parts
<1>4. PartInv'
  BY <1>2, <1>3 DEF SessionInv, PartInv, GoesTo, svcVars
<1> QED
  BY <1>2, <1>3, <1>4, RestKeeps

LEMMA DeletesFileKeeps ==
  ASSUME SessionInv, DeletesFile
  PROVE  SessionInv'
<1>1. HostOnly /\ io.part = "delete"
  BY DoneEnds DEF DeletesFile, SessionInv
<1>2. GoesTo("gone") /\ rt' = rt
  BY GoesGoesTo DEF DeletesFile, SessionInv, Parts, Listings
<1>3. PartInv'
  BY <1>1, <1>2 DEF SessionInv, PartInv, GoesTo, svcVars
<1> QED
  BY <1>1, <1>2, <1>3, NotPending, RestKeeps

LEMMA IsGoneKeeps ==
  ASSUME SessionInv, IsGone
  PROVE  SessionInv'
<1>1. HostOnly /\ io.part = "gone" /\ pending = NoUpload
  BY ListsEnds DEF IsGone, SessionInv
<1>2. ~rt.ambiguous /\ rt \in Runtimes /\ (conn => Safe(rt))
      /\ rt.phase \in Receipted \cup {"Uploading"}
  BY <1>1, Busy DEF SessionInv, PartInv
<1>3. To("Ready") \in Runtimes /\ To("Ready").phase = "Ready" /\ ~To("Ready").ambiguous
  BY <1>2, ToPhase DEF Phase
<1>4. /\ Leaves("none")
      /\ rt' = IF rt.phase = "Uploading"
               THEN [To("Ready") EXCEPT !.cursor = NoCursor]
               ELSE [To("Ready") EXCEPT !.receipt = NoName, !.observed_active = FALSE,
                       !.observed_part_end = FALSE, !.owned_output_unresolved = FALSE]
  BY DEF IsGone
<1> HIDE DEF To
<1>5. rt' \in Runtimes /\ rt'.phase = "Ready" /\ ~rt'.ambiguous
  <2>1. CASE rt.phase = "Uploading"
    BY <1>3, <1>4, <2>1, Uncursored
  <2>2. CASE rt.phase # "Uploading"
    BY <1>3, <1>4, <2>2 DEF Runtimes
  <2> QED
    BY <2>1, <2>2
<1>6. conn => ~OwnedRun
  BY <1>2 DEF Safe, Over, Receipted
<1> QED
  BY <1>1, <1>4, <1>5, <1>6, LeavesKeeps DEF Safe

LEMMA NotGoneEnds ==
  ASSUME Lockstep, SessionInv, NotGone
  PROVE  /\ HostOnly /\ io.part \in {"find", "scoped", "delete", "gone"}
         /\ ~rt.ambiguous /\ rt \in Runtimes /\ (conn => Safe(rt))
         /\ conn => pending = NoUpload
<1>1. PICK p \in {"find", "scoped", "delete", "gone"} : Breaks(p) \/ Lists(p)
  BY DEF NotGone
<1>2. HostOnly /\ io.part = p
  BY <1>1, ListsEnds, BreaksEnds DEF SessionInv
<1> QED
  BY <1>2, Busy, NotPending

LEMMA AbortFailsKeeps ==
  ASSUME Lockstep, SessionInv, AbortFails
  PROVE  SessionInv'
<1>1. /\ HostOnly /\ io.part \in {"find", "scoped", "delete", "gone"}
      /\ ~rt.ambiguous /\ rt \in Runtimes
  BY NotGoneEnds DEF AbortFails
<1>2. rt' = [Recovery EXCEPT !.cursor = NoCursor] /\ Errs
  BY DEF AbortFails
<1>3. /\ Recovery \in Runtimes /\ Recovery.phase = "RecoveryRequired"
      /\ ~Recovery.ambiguous
      /\ Recovery.owned_output_unresolved = rt.owned_output_unresolved
  BY <1>1, ToPhase DEF Recovery, Phase
<1>4. /\ rt' \in Runtimes /\ rt'.phase = "RecoveryRequired" /\ ~rt'.ambiguous
      /\ rt'.owned_output_unresolved = rt.owned_output_unresolved
  BY <1>2, <1>3, Uncursored
<1> QED
  BY <1>1, <1>2, <1>4, ErrsRecover DEF Uploads

LEMMA DeleteFailsKeeps ==
  ASSUME Lockstep, SessionInv, DeleteFails
  PROVE  SessionInv'
<1>1. /\ HostOnly /\ io.part \in {"find", "scoped", "delete", "gone"}
      /\ ~rt.ambiguous /\ rt \in Runtimes /\ (conn => Safe(rt))
      /\ conn => pending = NoUpload
  BY NotGoneEnds DEF DeleteFails
<1>2. rt' = rt /\ rt.phase # "Uploading"
  BY DEF DeleteFails
<1>3. CASE Leaves("none")
  BY <1>1, <1>2, <1>3, LeavesKeeps
<1>4. CASE Errs
  BY <1>1, <1>2, <1>4, ErrsUnchanged DEF Uploads
<1> QED
  BY <1>3, <1>4 DEF DeleteFails

(***************************************************************************)
(* Manual motion.                                                          *)
(***************************************************************************)
LEMMA BeginMoveKeeps ==
  ASSUME SessionInv, BeginMove
  PROVE  SessionInv'
<1>1. /\ cmd = "none" /\ conn /\ job = "none" /\ rt.phase = "Ready" /\ cmd' = "move"
      /\ UNCHANGED <<ctlVars, replies, conn, job>>
      /\ \/ Enter("home", 1) /\ rt' = To("ManualMotion")
         \/ Enter("speed", 1) /\ UNCHANGED rt
  BY DEF BeginMove
<1>2. io.part = "none" /\ replies = <<>> /\ rt \in Runtimes /\ Safe(rt)
  BY <1>1, Free
<1>3. ~rt.ambiguous /\ pending = NoUpload
  BY <1>1, <1>2 DEF SessionInv, PartInv, PendInv
<1>4. To("ManualMotion") \in Runtimes /\ To("ManualMotion").phase = "ManualMotion"
      /\ ~To("ManualMotion").ambiguous
  BY <1>2, <1>3, ToPhase DEF Phase
<1>5. io' \in Operations /\ io'.await = "send"
      /\ \/ io'.part = "home" /\ rt' = To("ManualMotion")
         \/ io'.part = "speed" /\ rt' = rt
  BY <1>1, EntersIo DEF SessionInv, Parts
<1>6. PartInv'
  BY <1>1, <1>3, <1>4, <1>5 DEF PartInv
<1>7. ~OwnedRun
  BY <1>1, <1>2 DEF Safe, Over
<1>8. HostOnly
  BY <1>1, <1>2 DEF HostOnly
<1> QED
  BY <1>1, <1>2, <1>3, <1>4, <1>5, <1>6, <1>7, <1>8, HostKeeps DEF Safe

LEMMA MovesAxisKeeps ==
  ASSUME SessionInv, MovesAxis
  PROVE  SessionInv'
<1>1. PICK p \in {"home", "speed", "move"} : Done(p)
  BY DEF MovesAxis
<1>2. HostOnly /\ io.part = p
  BY <1>1, DoneEnds DEF SessionInv
<1>3. ~rt.ambiguous /\ rt \in Runtimes /\ (conn => Safe(rt))
      /\ rt.phase \in {"Ready", "ManualMotion"}
      /\ cmd # "disconnect" /\ (job # "none" => conn)
  BY <1>2, Busy DEF SessionInv, PartInv
<1>4. conn => pending = NoUpload
  BY <1>2, NotPending
<1>5. CASE Leaves(job) /\ rt' = rt
  BY <1>2, <1>3, <1>4, <1>5, LeavesKeeps
<1>6. CASE Done("speed") /\ Goes("move") /\ rt' = To("ManualMotion")
  <2>1. io.part = "speed" /\ rt.phase = "Ready"
    BY <1>2, <1>6 DEF Done, SessionInv, PartInv
  <2>2. rt' \in Runtimes /\ rt'.phase = "ManualMotion" /\ ~rt'.ambiguous
    BY <1>3, <1>6, ToPhase DEF Phase
  <2>3. GoesTo("move")
    BY <1>6, GoesGoesTo DEF SessionInv, Parts
  <2>4. PartInv'
    BY <2>1, <2>2, <2>3 DEF SessionInv, PartInv, GoesTo, svcVars
  <2>5. conn => ~OwnedRun
    BY <1>3, <2>1 DEF Safe, Over
  <2> QED
    BY <1>2, <1>4, <2>1, <2>2, <2>3, <2>4, <2>5, GoesKeeps DEF Safe
<1>7. CASE Done("move") /\ Again /\ rt' = rt
  <2>1. io.part = "move"
    BY <1>7 DEF Done
  <2>2. GoesTo("move")
    BY <1>7, <2>1, AgainGoesTo DEF SessionInv
  <2>3. PartInv'
    BY <1>7, <2>1, <2>2 DEF SessionInv, PartInv, GoesTo, svcVars
  <2> QED
    BY <1>2, <1>4, <1>7, <2>1, <2>2, <2>3, RestKeeps
<1> QED
  BY <1>5, <1>6, <1>7 DEF MovesAxis

(***************************************************************************)
(* The invariant holds.                                                    *)
(***************************************************************************)
LEMMA SessionInit == Init => SessionInv
<1> SUFFICES ASSUME Init PROVE SessionInv
  OBVIOUS
<1>1. rt = Fresh /\ io = NoIo /\ conn = FALSE /\ job = "none" /\ cmd = "none"
      /\ replies = <<>> /\ exec = "Idle" /\ pending = NoUpload
  BY DEF Init, ControllerInit
<1>2. files \in Seq(File)
  <2>1. Cardinality(Stored) \in Nat
    BY FS_CardinalityType, RuidaControllerAssumption
  <2>2. PICK n \in 0..Cardinality(Stored) : files \in [1..n -> [name : Stored, whole : {TRUE}]]
    BY DEF Init, ControllerInit
  <2>3. [name : Stored, whole : {TRUE}] \subseteq File
    BY DEF File, AnyName
  <2>4. n \in Nat
    BY <2>1
  <2>5. files \in [1..n -> File]
    BY <2>2, <2>3
  <2> QED
    BY <2>4, <2>5
<1>3. TypeInv
  BY <1>1, <1>2, FreshType, NoIoType DEF TypeInv, Exec
<1>4. WireInv /\ PartInv /\ PendInv /\ SafeInv
  BY <1>1, FreshType, NoIoType DEF WireInv, PartInv, PendInv, SafeInv
<1> QED
  BY <1>3, <1>4 DEF SessionInv

LEMMA SessionStep ==
  ASSUME Lockstep, SessionInv, [Next]_vars
  PROVE  SessionInv'
<1>1. CASE Exchange
  BY <1>1, SendKeeps, ReadAckKeeps, ReadNakKeeps, ConnectKeeps, ListGoesOnKeeps,
     BeginsKeeps, InspectFailsKeeps, AnnouncesKeeps, SendsChunkKeeps, UploadBreaksKeeps,
     VerifiesKeeps, LooksAgainKeeps, VerifyFailsKeeps, InspectsKeeps, SelectsFileKeeps,
     StartsKeeps, CommandFailsKeeps, SendsProcessKeeps, ConfirmsKeeps, WaitsKeeps,
     NotConfirmedKeeps, StatusLostKeeps, TickPollsKeeps, PollsKeeps, PollFailsKeeps,
     ClosesUploadKeeps, FindsKeeps, DeletesFileKeeps, IsGoneKeeps, AbortFailsKeeps,
     DeleteFailsKeeps, MovesAxisKeeps
  DEF Exchange
<1>2. CASE Begin
  BY <1>2, ConnectKeeps, BeginStartKeeps, BeginTickKeeps, BeginPauseKeeps,
     BeginPollKeeps, StopKeeps, BeginMoveKeeps
  DEF Begin
<1>3. CASE (Machine \/ Surroundings) /\ UNCHANGED HostVars
  BY <1>3, SurroundingsKeep
<1>5. CASE PanelAges
  BY <1>5, RemovalKeeps
<1>4. CASE UNCHANGED vars
  <2>1. UNCHANGED <<ctlVars, replies, svcVars, rt, io>>
    BY <1>4 DEF vars, svcVars
  <2> QED
    BY <2>1
    DEF SessionInv, TypeInv, WireInv, PartInv, PendInv, SafeInv, Told, ExpectsReply,
        OwnedRun, JobOnMachine, ctlVars, svcVars
<1> QED
  BY <1>1, <1>2, <1>3, <1>4, <1>5 DEF Next, HostVars

\* The line, the operation, the runtime and the controller agree, whatever is lost and
\* whoever uses the panel (exchange, RuidaStorageClient and RuidaRuntime).
THEOREM SessionCorrect ==
  ASSUME Lockstep
  PROVE  Spec => []SessionInv
<1>1. SessionInv /\ [Next]_vars => SessionInv'
  BY SessionStep
<1> QED
  BY <1>1, SessionInit, PTL DEF Spec

\* While the controller runs or holds a job of this session, the snapshot says that output
\* may be active (owned_output_unresolved, set by start and cleared by apply_status).
THEOREM RuidaOutputKnown ==
  ASSUME Lockstep
  PROVE  Spec => []OutputKnown
<1>1. SessionInv => OutputKnown
  BY DEF SessionInv, SafeInv, OutputKnown, OwnedRun
<1> QED
  BY <1>1, SessionCorrect, PTL

\* A phase that says the job is over is never entered while the controller has it
\* (apply_status, stop_owned, delete_scoped, begin_upload).
THEOREM RuidaOverMeansOver ==
  ASSUME Lockstep
  PROVE  Spec => []OverMeansOver
<1>1. SessionInv => OverMeansOver
  BY DEF SessionInv, SafeInv, OverMeansOver, OwnedRun, Over
<1> QED
  BY <1>1, SessionCorrect, PTL

\* While the controller takes every datagram for the file, the session sends nothing but
\* chunks and the terminator (advance_upload, abort_upload).
THEOREM RuidaNothingSwallowed ==
  ASSUME Lockstep
  PROVE  Spec => []NothingSwallowed
<1>1. SessionInv => NothingSwallowed
  BY DEF SessionInv, PartInv, PendInv, NothingSwallowed
<1> QED
  BY <1>1, SessionCorrect, PTL

(***************************************************************************)
(* What an operation does to the session, when it neither sends, nor lists *)
(* nor moves a file on to its next stage.                                  *)
(***************************************************************************)
Unlinked == {"none", "enq", "card", "connected"}
Indexed == Listings \cup {"select", "delete"}

\* Without a session nothing is under way but a connection.
LinkInv == io.part \in Unlinked \/ conn

\* It keeps the file it is about, and its phase only goes where that file stays the same.
Steady ==
  /\ rt'.phase \in OwningPhase => rt.phase \in OwningPhase
  /\ rt'.phase = "Uploaded" => rt.phase = "Uploaded"
  /\ rt'.phase = "Completed" =>
       rt.phase = "Completed" \/ (rt.phase \in OwningPhase /\ rt.observed_part_end)
  /\ rt'.phase \in Receipted => rt.phase \in Receipted \cup OwningPhase
  /\ rt'.phase \in Receipted \cup OwningPhase => rt'.receipt = rt.receipt
  /\ rt'.phase \in OwningPhase /\ rt'.observed_part_end =>
       \/ rt.observed_part_end
       \/ replies # <<>> /\ Head(replies) = <<"status", "PartEnd">>
  /\ rt'.phase = "Uploading" => rt.phase = "Uploading" /\ rt'.cursor = rt.cursor

\* Its next exchange takes no index from an earlier listing.
Restarts ==
  /\ io'.await # "ack"
  /\ io'.part \in Indexed => io'.part \in Listings /\ io'.listed = <<>>
  /\ io'.stale => io.stale

\* It starts nothing: what it selected, it looks at first.
Withholds ==
  /\ io'.part = "selected" => io.part = "select" /\ replies = <<Ack>> /\ rt' = rt
  /\ io'.part = "process" => rt'.phase # "Starting"

HostStep ==
  /\ HostOnly /\ Steady /\ Restarts /\ Withholds /\ LinkInv'
  /\ conn' => conn \/ rt'.phase = "Ready"

Elsewhere == {"Disconnected", "Ready", "BusyUnowned", "ManualMotion", "RecoveryRequired"}

LEMMA SteadySame ==
  ASSUME rt' = rt
  PROVE  Steady
<1>1. /\ rt'.phase = rt.phase /\ rt'.receipt = rt.receipt /\ rt'.cursor = rt.cursor
      /\ rt'.observed_part_end = rt.observed_part_end
  OBVIOUS
<1> QED
  BY <1>1 DEF Steady

LEMMA SteadyElsewhere ==
  ASSUME rt'.phase \in Elsewhere
  PROVE  Steady
  BY DEF Steady, Elsewhere, OwningPhase, Receipted

LEMMA EndMoves ==
  ASSUME HostOnly, Steady, io' = NoIo, conn' => conn \/ rt'.phase = "Ready"
  PROVE  HostStep
  BY DEF HostStep, NoIo, Restarts, Withholds, LinkInv, Indexed, Listings, Unlinked

LEMMA ErrsMove ==
  ASSUME HostOnly, Errs, rt' = rt \/ rt'.phase \in Elsewhere
  PROVE  HostStep
<1>1. io' = NoIo /\ (conn' => conn)
  BY DEF Errs
<1> QED
  BY <1>1, EndMoves, SteadySame, SteadyElsewhere

LEMMA LeavesMove ==
  ASSUME HostOnly, NEW state, Leaves(state), Steady
  PROVE  HostStep
<1>1. io' = NoIo /\ (conn' => conn)
  BY DEF Leaves
<1> QED
  BY <1>1, EndMoves

LEMMA EnterMoves ==
  ASSUME HostOnly, Steady, LinkInv, NEW p, NEW tries, Enter(p, tries), conn' = conn,
         p \notin {"select", "delete", "selected"},
         p = "process" => rt'.phase # "Starting",
         io.part \notin Unlinked \/ p \in Unlinked \/ conn
  PROVE  HostStep
<1>1. /\ io'.part = p /\ io'.await = "send" /\ (p \in Listings => io'.listed = <<>>)
      /\ io'.stale => io.stale
  BY DEF Enter
<1>4. Withholds
  BY <1>1 DEF Withholds
<1>2. Restarts
  BY <1>1 DEF Restarts, Indexed, Listings
<1>3. LinkInv'
  BY <1>1 DEF LinkInv
<1> QED
  BY <1>2, <1>3, <1>4 DEF HostStep

LEMMA GoesMove ==
  ASSUME HostOnly, Steady, LinkInv, NEW p, Goes(p),
         p \notin {"select", "delete", "selected", "process"},
         io.part \notin Unlinked \/ p \in Unlinked
  PROVE  HostStep
<1>1. Enter(p, 1) /\ conn' = conn
  BY DEF Goes, svcVars
<1> QED
  BY <1>1, EnterMoves

LEMMA AgainMoves ==
  ASSUME HostOnly, Steady, LinkInv, Again,
         io.part \notin {"select", "delete", "selected", "process"}, io.part \notin Unlinked
  PROVE  HostStep
<1>1. Enter(io.part, io.tries + 1) /\ conn' = conn
  BY DEF Again, svcVars
<1> QED
  BY <1>1, EnterMoves

\* A status that was told.
LEMMA StatusMoves ==
  ASSUME rt \in Runtimes, NEW s \in Exec, rt' = apply_status(s), replies # <<>>,
         Head(replies) = <<"status", s>>
  PROVE  Steady
<1>1. CASE s = "Unknown" \/ s = "PartEnd"
  BY <1>1 DEF apply_status, PartEndSeen, Recovery, To, Runtimes, Steady, Receipted,
              OwningPhase, Owns
<1>2. CASE s = "Idle"
  <2>1. rt' = IdleSeen
    BY <1>2 DEF apply_status
  <2>2. CASE rt.phase \in {"BusyUnowned", "ManualMotion"}
    <3>1. rt'.phase \in Elsewhere
      BY <2>1, <2>2 DEF IdleSeen, Verified, Owns, OwningPhase, Recovery, To, Runtimes, Elsewhere
    <3> QED
      BY <3>1, SteadyElsewhere
  <2>3. CASE Verified
    <3>1. /\ rt'.phase = "Completed" /\ rt'.receipt = rt.receipt
          /\ rt.phase \in OwningPhase /\ rt.observed_part_end
      BY <2>1, <2>3 DEF IdleSeen, Verified, To, Runtimes, OwningPhase, Owns
    <3> QED
      BY <3>1 DEF Steady, OwningPhase, Receipted
  <2>4. CASE rt.phase = "Stopping"
    <3>1. rt'.phase = "Stopped" /\ rt'.receipt = rt.receipt
      BY <2>1, <2>4 DEF IdleSeen, Verified, To, Runtimes, OwningPhase, Owns
    <3> QED
      BY <2>4, <3>1 DEF Steady, OwningPhase, Receipted
  <2>5. CASE Owns /\ rt.phase \notin {"Starting", "Stopping"} /\ ~Verified
    <3>1. rt'.phase \in Elsewhere
      BY <2>1, <2>5
      DEF IdleSeen, Recovery, To, Runtimes, Elsewhere, Owns, OwningPhase
    <3> QED
      BY <3>1, SteadyElsewhere
  <2>6. CASE /\ rt.phase \notin {"BusyUnowned", "ManualMotion", "Stopping"}
             /\ ~Verified /\ ~(Owns /\ rt.phase # "Starting")
    <3>1. rt' = rt
      BY <2>1, <2>6 DEF IdleSeen
    <3> QED
      BY <3>1, SteadySame
  <2> QED
    BY <2>2, <2>3, <2>4, <2>5, <2>6
<1>3. CASE s \in {"Running", "Paused", "ManualMotion"}
  <2>1. rt' = ActivitySeen(s)
    BY <1>3 DEF apply_status
  <2>2. CASE ActivitySeen(s) = rt
    BY <2>1, <2>2, SteadySame
  <2>3. CASE ActivitySeen(s) \in {To("RecoveryRequired"), To("BusyUnowned")}
    <3>1. rt'.phase \in Elsewhere
      BY <2>1, <2>3 DEF Elsewhere, To, Runtimes
    <3> QED
      BY <3>1, SteadyElsewhere
  <2>4. CASE rt.phase \in {"Starting", "Resuming", "Running", "Pausing", "Paused"}
    <3>1. /\ rt'.phase \in {"Starting", "Resuming", "Running", "Pausing", "Paused"}
          /\ rt'.receipt = rt.receipt /\ rt'.observed_part_end = rt.observed_part_end
      BY <2>1, <2>4 DEF ActivitySeen, To, Runtimes
    <3>2. ~(rt'.phase \in Receipted) /\ rt'.phase \notin {"Uploading", "Uploaded", "Completed"}
      BY <3>1 DEF Receipted
    <3>3. rt.phase \in OwningPhase
      BY <2>4 DEF OwningPhase
    <3> QED
      BY <3>1, <3>2, <3>3 DEF Steady
  <2> QED
    BY <2>2, <2>3, <2>4 DEF ActivitySeen, Recovery
<1> QED
  BY <1>1, <1>2, <1>3 DEF Exec

\* The exchanges that fail.
LEMMA FailuresMove ==
  ASSUME Lockstep, SessionInv,
         \/ ConnectBreaks \/ BeginBreaks \/ UploadBreaks \/ VerifyFails \/ InspectFails
         \/ SelectFails \/ ProcessFails \/ NotConfirmed \/ ConfirmBreaks
         \/ TickLosesStatus \/ CloseBreaks \/ AbortFails \/ MoveBreaks
  PROVE  HostStep
<1>1. rt \in Runtimes /\ WireInv
  BY DEF SessionInv, TypeInv
<1>2. /\ \A p \in Parts : Breaks(p) => HostOnly
      /\ \A p \in Parts : Lists(p) => HostOnly
      /\ \A p \in Parts : \A reply : Gives(p, reply) => HostOnly
  BY <1>1, BreaksEnds, ListsEnds, GivesEnds
<1>3. Errs /\ HostOnly
  BY <1>2, NotGoneEnds
  DEF ConnectBreaks, BeginBreaks, UploadBreaks, VerifyFails, InspectFails, SelectFails,
      ProcessFails, NotConfirmed, ConfirmBreaks, TickLosesStatus, CloseBreaks, AbortFails,
      MoveBreaks, Parts, Listings, Statuses
<1>4. rt' = rt \/ rt'.phase \in Elsewhere
  <2>1. CASE \/ ConnectBreaks \/ BeginBreaks \/ UploadBreaks \/ VerifyFails \/ InspectFails
             \/ SelectFails \/ ProcessFails \/ CloseBreaks \/ AbortFails \/ MoveBreaks
    BY <1>1, <2>1
    DEF ConnectBreaks, BeginBreaks, UploadBreaks, VerifyFails, InspectFails, SelectFails,
        ProcessFails, CloseBreaks, AbortFails, MoveBreaks, Recovery, To, Runtimes, Elsewhere
  <2>2. CASE NotConfirmed
    <3>1. PICK s \in Exec : rt' = [apply_status(s) EXCEPT !.phase = "RecoveryRequired"]
      BY <2>2 DEF NotConfirmed
    <3>2. apply_status(s) \in Runtimes
      BY <1>1, StatusSeen
    <3> QED
      BY <3>1, <3>2 DEF Runtimes, Elsewhere
  <2>3. CASE ConfirmBreaks \/ TickLosesStatus
    BY <1>1, <2>3, Recovers DEF ConfirmBreaks, TickLosesStatus, AfterLoss, Elsewhere
  <2> QED
    BY <2>1, <2>2, <2>3
<1> QED
  BY <1>3, <1>4, ErrsMove

\* The exchanges that lead to another and leave the runtime alone.
LEMMA ExchangesMove ==
  ASSUME Lockstep, SessionInv, LinkInv,
         \/ Enquires \/ LooksAgain \/ SelectsFile \/ SendsProcess \/ ClosesUpload
         \/ DeletesFile
  PROVE  HostStep
<1>1. rt \in Runtimes /\ WireInv
  BY DEF SessionInv, TypeInv
<1>2. rt' = rt /\ Steady
  BY SteadySame
  DEF Enquires, LooksAgain, SelectsFile, SendsProcess, ClosesUpload, DeletesFile
<1>3. CASE Enquires
  <2>1. HostOnly /\ (Goes("card") \/ Goes("connected"))
    BY <1>1, <1>3, DoneEnds, GivesEnds DEF Enquires
  <2> QED
    BY <1>2, <2>1, GoesMove DEF Unlinked
<1>4. CASE LooksAgain
  <2>1. HostOnly /\ io.part \in {"verify", "find", "gone"} /\ Again
    BY <1>1, <1>4, ListsEnds DEF LooksAgain
  <2> QED
    BY <1>2, <2>1, AgainMoves DEF Unlinked
<1>5. CASE SendsProcess \/ ClosesUpload \/ DeletesFile
  <2>1. /\ HostOnly /\ io.part \in {"process", "eof", "delete"}
        /\ Goes("confirm") \/ Goes("find") \/ Goes("gone")
    BY <1>1, <1>5, DoneEnds DEF SendsProcess, ClosesUpload, DeletesFile
  <2> QED
    BY <1>2, <2>1, GoesMove DEF Unlinked
<1>6. CASE SelectsFile
  <2>1. HostOnly /\ io.part = "select" /\ replies = <<Ack>> /\ Goes("selected")
    BY <1>1, <1>6, DoneEnds DEF SelectsFile
  <2>2. /\ io'.part = "selected" /\ io'.await = "send" /\ conn' = conn
        /\ io'.stale => io.stale
    BY <2>1 DEF Goes, Enter, svcVars
  <2>3. conn
    BY <2>1 DEF LinkInv, Unlinked
  <2> QED
    BY <1>2, <2>1, <2>2, <2>3
    DEF HostStep, Restarts, Withholds, LinkInv, Indexed, Listings
<1> QED
  BY <1>3, <1>4, <1>5, <1>6

\* The exchanges that tell a status.
LEMMA StatusesMove ==
  ASSUME Lockstep, SessionInv, LinkInv,
         Connects \/ Confirms \/ Waits \/ TickPolls \/ Polls
  PROVE  HostStep
<1>1. rt \in Runtimes /\ WireInv
  BY DEF SessionInv, TypeInv
<1>2. CASE Connects
  <2>1. PICK s \in Exec :
          /\ Gives("connected", <<"status", s>>)
          /\ IF s = "Idle"
             THEN /\ rt' = To("Ready") /\ conn' = TRUE
                  /\ cmd' = "none" /\ io' = NoIo /\ UNCHANGED job
             ELSE Errs /\ UNCHANGED rt
    BY <1>2 DEF Connects
  <2>2. HostOnly
    BY <1>1, <2>1, GivesEnds
  <2>3. CASE s = "Idle"
    <3>1. rt'.phase = "Ready" /\ io' = NoIo
      BY <1>1, <2>1, <2>3 DEF To, Runtimes
    <3> QED
      BY <2>2, <3>1, EndMoves, SteadyElsewhere DEF Elsewhere
  <2>4. CASE s # "Idle"
    BY <2>1, <2>2, <2>4, ErrsMove
  <2> QED
    BY <2>3, <2>4
<1>3. CASE Confirms \/ Waits \/ TickPolls \/ Polls
  <2>1. PICK s \in Exec, p \in {"confirm", "status"} :
          /\ Gives(p, <<"status", s>>)
          /\ rt' = apply_status(s)
          /\ \/ Errs \/ Again \/ Goes("scoped")
             \/ \E state : Leaves(state)
    BY <1>3 DEF Confirms, Waits, TickPolls, Polls
  <2>2. HostOnly /\ io.part = p /\ replies # <<>> /\ Head(replies) = <<"status", s>>
    BY <1>1, <2>1, GivesEnds DEF Gives, Reads
  <2>3. Steady
    BY <1>1, <2>1, <2>2, StatusMoves
  <2>4. CASE Errs
    BY <2>2, <2>3, <2>4, EndMoves DEF Errs
  <2>5. CASE Again \/ Goes("scoped")
    BY <2>2, <2>3, <2>5, AgainMoves, GoesMove DEF Unlinked
  <2>6. CASE \E state : Leaves(state)
    BY <2>2, <2>3, <2>6, LeavesMove
  <2> QED
    BY <2>1, <2>4, <2>5, <2>6
<1> QED
  BY <1>2, <1>3

LEMMA HaltsMove ==
  ASSUME SessionInv, HostOnly, conn, LinkInv, NEW c, NEW r, Halts(c, r),
         r = rt \/ r.phase = "RecoveryRequired"
  PROVE  HostStep
<1>1. rt \in Runtimes
  BY DEF SessionInv, TypeInv
<1>2. CASE r.phase = "RecoveryRequired"
  <2>1. io' = NoIo /\ rt' = r
    BY <1>2 DEF Halts, OwningPhase
  <2> QED
    BY <1>2, <2>1, EndMoves, SteadyElsewhere DEF Elsewhere
<1>3. CASE r = rt
  <2>1. \/ io' = NoIo
        \/ \E p \in {"process", "eof", "find", "scoped"} : Enter(p, 1) /\ conn' = conn
    BY <1>3 DEF Halts
  <2>2. Steady
    <3>1. CASE rt.phase \in OwningPhase \ {"Stopping"}
      <4>1. rt' = [rt EXCEPT !.phase = "Stopping"]
        BY <1>3, <3>1 DEF Halts, OwningPhase
      <4>2. rt'.phase = "Stopping" /\ rt'.receipt = rt.receipt
            /\ rt'.observed_part_end = rt.observed_part_end
        BY <1>1, <4>1 DEF Runtimes
      <4> QED
        BY <3>1, <4>2 DEF Steady, Receipted
    <3>2. CASE rt.phase \notin OwningPhase \ {"Stopping"}
      <4>1. rt' = rt \/ rt' = [rt EXCEPT !.phase = "Ready", !.cursor = NoCursor]
        BY <1>3, <3>2 DEF Halts
      <4>2. rt' = rt \/ rt'.phase = "Ready"
        BY <1>1, <4>1 DEF Runtimes
      <4> QED
        BY <4>2, SteadySame, SteadyElsewhere DEF Elsewhere
    <3> QED
      BY <3>1, <3>2
  <2>3. rt'.phase # "Starting"
    <3>1. CASE rt.phase \in OwningPhase \ {"Stopping"}
      <4>1. rt' = [rt EXCEPT !.phase = "Stopping"]
        BY <1>3, <3>1 DEF Halts, OwningPhase
      <4> QED
        BY <1>1, <4>1 DEF Runtimes
    <3>2. CASE rt.phase \notin OwningPhase \ {"Stopping"}
      <4>1. rt' = rt \/ rt' = [rt EXCEPT !.phase = "Ready", !.cursor = NoCursor]
        BY <1>3, <3>2 DEF Halts
      <4> QED
        BY <1>1, <3>2, <4>1 DEF Runtimes, OwningPhase
    <3> QED
      BY <3>1, <3>2
  <2> QED
    BY <2>1, <2>2, <2>3, EndMoves, EnterMoves
<1> QED
  BY <1>2, <1>3

LEMMA PollFailsMoves ==
  ASSUME Lockstep, SessionInv, LinkInv, PollFails
  PROVE  HostStep
<1>1. PICK r \in {AfterLoss, Recovery} :
        /\ \/ Breaks("status") /\ r = AfterLoss
           \/ \E s \in Exec : Gives("status", <<"status", s>>) /\ Rejected(s) /\ r = Recovery
        /\ IF io.tries = 1 THEN Again /\ rt' = r ELSE Halts("disconnect", r)
  BY DEF PollFails
<1>2. HostOnly /\ io.part = "status" /\ rt \in Runtimes
  BY <1>1, BreaksEnds, GivesEnds DEF SessionInv, TypeInv
<1>3. r = rt \/ r.phase = "RecoveryRequired"
  BY <1>1, <1>2, Recovers DEF AfterLoss
<1>4. conn
  BY <1>2 DEF LinkInv, Unlinked
<1>5. CASE io.tries = 1
  <2>1. Steady
    BY <1>1, <1>3, <1>5, SteadySame, SteadyElsewhere DEF Elsewhere
  <2> QED
    BY <1>1, <1>2, <1>5, <2>1, AgainMoves DEF Unlinked
<1>6. CASE io.tries # 1
  BY <1>1, <1>2, <1>3, <1>4, <1>6, HaltsMove
<1> QED
  BY <1>5, <1>6

\* The operations that begin.
LEMMA BeginningsMove ==
  ASSUME SessionInv, LinkInv, Begin
  PROVE  HostStep
<1>1. /\ cmd = "none" /\ io.part = "none" /\ replies = <<>> /\ rt \in Runtimes
      /\ UNCHANGED ctlVars
  BY Free
  DEF Begin, BeginConnect, BeginStart, BeginTick, BeginPause, BeginPoll, PollRefused,
      BeginCancel, BeginStop, BeginMove
<1>2. HostOnly
  BY <1>1
  DEF Begin, BeginConnect, BeginStart, BeginTick, BeginPause, BeginPoll, PollRefused,
      BeginCancel, BeginStop, BeginMove, HostOnly
<1>3. job # "none" => conn
  BY <1>1 DEF SessionInv, PartInv
<1>4. CASE BeginConnect
  <2>1. rt'.phase \in Elsewhere /\ Enter("enq", 1) /\ conn' = conn
    BY <1>4, FreshType DEF BeginConnect, Elsewhere
  <2> QED
    BY <1>2, <2>1, SteadyElsewhere, EnterMoves DEF Unlinked
<1>5. CASE BeginStart \/ BeginPoll
  <2>1. rt' = rt /\ conn /\ conn' = conn /\ (Enter("begin", 1) \/ Enter("status", 1))
    BY <1>5 DEF BeginStart, BeginPoll
  <2> QED
    BY <1>2, <2>1, SteadySame, EnterMoves
<1>6. CASE BeginTick
  <2>1. rt' = rt /\ conn /\ conn' = conn
    BY <1>3, <1>6 DEF BeginTick
  <2>2. CASE rt.ambiguous
    <3>1. io' = io
      BY <1>6, <2>2 DEF BeginTick
    <3> QED
      BY <1>1, <1>2, <2>1, <3>1, SteadySame
      DEF HostStep, Restarts, Withholds, LinkInv, Indexed, Listings, SessionInv, PartInv
  <2>3. CASE ~rt.ambiguous
    <3>1. \E p \in {"status", "announce", "chunk", "verify"} : Enter(p, 1)
      BY <1>6, <2>3 DEF BeginTick, UploadStep
    <3> QED
      BY <1>2, <2>1, <3>1, SteadySame, EnterMoves
  <2> QED
    BY <2>2, <2>3
<1>7. CASE BeginPause
  <2>1. conn /\ conn' = conn /\ Enter("process", 1)
    BY <1>3, <1>7 DEF BeginPause
  <2>2. PICK p \in {"Pausing", "Resuming"} : rt' = To(p) /\ rt.phase \in {"Running", "Paused"}
    BY <1>7 DEF BeginPause
  <2>3. rt'.phase = p /\ rt'.receipt = rt.receipt
        /\ rt'.observed_part_end = rt.observed_part_end
    BY <1>1, <2>2 DEF To, Runtimes
  <2>4. Steady
    BY <2>2, <2>3 DEF Steady, OwningPhase, Receipted
  <2>5. rt'.phase # "Starting"
    BY <2>2, <2>3
  <2> QED
    BY <1>2, <2>1, <2>4, <2>5, EnterMoves
<1>8. CASE PollRefused \/ BeginCancel \/ BeginStop
  <2>1. conn /\ \E c : Halts(c, rt)
    BY <1>3, <1>8 DEF PollRefused, BeginCancel, BeginStop
  <2> QED
    BY <1>2, <2>1, HaltsMove
<1>9. CASE BeginMove
  <2>1. conn /\ conn' = conn /\ (Enter("home", 1) \/ Enter("speed", 1))
        /\ (rt' = rt \/ rt' = To("ManualMotion"))
    BY <1>9 DEF BeginMove
  <2>2. Steady
    <3>1. rt' = rt \/ rt'.phase \in Elsewhere
      BY <1>1, <2>1 DEF To, Runtimes, Elsewhere
    <3> QED
      BY <3>1, SteadySame, SteadyElsewhere
  <2> QED
    BY <1>2, <2>1, <2>2, EnterMoves
<1> QED
  BY <1>4, <1>5, <1>6, <1>7, <1>8, <1>9 DEF Begin

\* The exchanges that end an operation, or a move.
LEMMA EndingsMove ==
  ASSUME Lockstep, SessionInv, LinkInv, IsGone \/ DeleteFails \/ MovesAxis
  PROVE  HostStep
<1>1. rt \in Runtimes /\ WireInv
  BY DEF SessionInv, TypeInv
<1>2. CASE IsGone
  <2>1. HostOnly /\ Leaves("none")
    BY <1>1, <1>2, ListsEnds DEF IsGone
  <2>2. rt'.phase \in Elsewhere
    BY <1>1, <1>2 DEF IsGone, To, Runtimes, Elsewhere
  <2> QED
    BY <2>1, <2>2, LeavesMove, SteadyElsewhere
<1>3. CASE DeleteFails
  <2>1. HostOnly /\ rt' = rt /\ (Errs \/ Leaves("none"))
    BY <1>3, NotGoneEnds DEF DeleteFails
  <2> QED
    BY <2>1, ErrsMove, LeavesMove, SteadySame
<1>4. CASE MovesAxis
  <2>1. /\ HostOnly /\ io.part \in {"home", "speed", "move"}
        /\ rt' = rt \/ rt' = To("ManualMotion")
        /\ Leaves(job) \/ Goes("move") \/ Again
    BY <1>1, <1>4, DoneEnds DEF MovesAxis
  <2>2. Steady
    <3>1. rt' = rt \/ rt'.phase \in Elsewhere
      BY <1>1, <2>1 DEF To, Runtimes, Elsewhere
    <3> QED
      BY <3>1, SteadySame, SteadyElsewhere
  <2>3. io.part \notin Unlinked
        /\ io.part \notin {"select", "delete", "selected", "process"}
    BY <2>1 DEF Unlinked
  <2> QED
    BY <2>1, <2>2, <2>3, LeavesMove, GoesMove, AgainMoves
<1> QED
  BY <1>2, <1>3, <1>4

\* The operation goes on with a new listing, or without one.
Onward == HostOnly /\ Restarts /\ LinkInv' /\ (conn' => conn)

\* The exchanges that move a file on to its next stage.
LEMMA StagesMove ==
  ASSUME Lockstep, SessionInv, LinkInv,
         Begins \/ Announces \/ SendsChunk \/ Verifies \/ Starts
  PROVE  Onward
<1>1. WireInv
  BY DEF SessionInv
<1>2. /\ HostOnly /\ io.part \notin Unlinked /\ io.part \notin {"select", "delete"}
      /\ \/ Errs \/ Again \/ Goes("inspect") \/ Goes("process")
         \/ \E state : Leaves(state)
  <2>1. CASE Begins
    <3>1. HostOnly /\ io.part = "begin"
      BY <1>1, <2>1, ListsEnds DEF Begins
    <3> QED
      BY <2>1, <3>1 DEF Begins, Unlinked
  <2>2. CASE Announces
    <3>1. HostOnly /\ io.part = "announce"
      BY <1>1, <2>2, DoneEnds DEF Announces
    <3> QED
      BY <2>2, <3>1 DEF Announces, Unlinked
  <2>3. CASE SendsChunk
    <3>1. HostOnly /\ io.part = "chunk"
      BY <1>1, <2>3, DoneEnds DEF SendsChunk
    <3> QED
      BY <2>3, <3>1 DEF SendsChunk, Unlinked
  <2>4. CASE Verifies
    <3>1. HostOnly /\ io.part = "verify"
      BY <1>1, <2>4, ListsEnds DEF Verifies
    <3> QED
      BY <2>4, <3>1 DEF Verifies, Unlinked
  <2>5. CASE Starts
    <3>1. HostOnly /\ io.part = "selected"
      BY <1>1, <2>5, GivesEnds DEF Starts
    <3> QED
      BY <2>5, <3>1 DEF Starts, Unlinked
  <2> QED
    BY <2>1, <2>2, <2>3, <2>4, <2>5
<1>3. CASE io' = NoIo /\ (conn' => conn)
  BY <1>2, <1>3 DEF Onward, NoIo, Restarts, LinkInv, Indexed, Listings, Unlinked
<1>4. ASSUME NEW p, NEW tries, Enter(p, tries), conn' = conn, p \notin {"select", "delete"}
      PROVE  Onward
  <2>1. /\ io'.part = p /\ io'.await = "send" /\ (p \in Listings => io'.listed = <<>>)
        /\ io'.stale => io.stale
    BY <1>4 DEF Enter
  <2>2. Restarts /\ LinkInv'
    BY <1>2, <1>4, <2>1 DEF Restarts, Indexed, LinkInv
  <2> QED
    BY <1>2, <1>4, <2>2 DEF Onward
<1>5. CASE Errs \/ \E state : Leaves(state)
  BY <1>3, <1>5 DEF Errs, Leaves
<1>6. CASE Again \/ Goes("inspect") \/ Goes("process")
  BY <1>2, <1>4, <1>6 DEF Again, Goes, svcVars
<1> QED
  BY <1>2, <1>5, <1>6

(***************************************************************************)
(* The files: what is listed is so when an index is taken from it, unless  *)
(* a file was removed at the panel since.                                  *)
(***************************************************************************)

\* What was listed is still so.
Agrees(list) == \A i \in DOMAIN list : i \in DOMAIN files /\ list[i] = files[i].name

\* A name told is that of the file with that index.
NameTold(reply) ==
  reply[1] = "name" => reply[2] \in DOMAIN files /\ reply[3] = files[reply[2]].name

ListInv ==
  /\ io.stale => "delete" \in Faults
  /\ ~io.stale =>
       /\ \A i \in DOMAIN replies : NameTold(replies[i])
       /\ io.part \in Indexed /\ (io.part = "delete" => io.await = "send" \/ replies = <<Nak>>)
            => Agrees(io.listed)
  /\ io.part = "select" => Matches(io.listed, rt.receipt) # {}
  /\ io.part = "delete" => Matches(io.listed, Deleting) # {}

\* Whose file is on the controller knows its name.
ReceiptInv == rt.phase \in Receipted \cup OwningPhase => rt.receipt \in Names

StoreInv == LinkInv /\ ListInv /\ ReceiptInv

\* Removing a file moves the later ones one place down.
LEMMA WithoutIs ==
  ASSUME files \in Seq(File), NEW i \in DOMAIN files
  PROVE  /\ Len(files) \in Nat /\ DOMAIN files = 1..Len(files)
         /\ DOMAIN Without(i) = 1..(Len(files) - 1)
         /\ \A m \in 1..(Len(files) - 1) :
              Without(i)[m] = IF m < i THEN files[m] ELSE files[m + 1]
<1> DEFINE n == Len(files)
           before == SubSeq(files, 1, i - 1)
           after == SubSeq(files, i + 1, n)
<1>1. n \in Nat /\ DOMAIN files = 1..n /\ i \in 1..n /\ \A m \in 1..n : files[m] \in File
  BY LenProperties
<1>2. /\ before \in Seq(File) /\ Len(before) = i - 1
      /\ \A m \in 1..(i - 1) : before[m] = files[m]
  <2>1. \A m \in 1..(i - 1) : files[m] \in File
    BY <1>1
  <2>2. /\ before \in Seq(File)
        /\ Len(before) = IF 1 <= i - 1 THEN (i - 1) - 1 + 1 ELSE 0
        /\ \A m \in 1..((i - 1) - 1 + 1) : before[m] = files[1 + m - 1]
    BY <1>1, <2>1, SubSeqProperties
  <2> HIDE DEF before
  <2> QED
    BY <1>1, <2>2
<1>3. /\ after \in Seq(File) /\ Len(after) = n - i
      /\ \A m \in 1..(n - i) : after[m] = files[i + m]
  <2>1. \A m \in (i + 1)..n : files[m] \in File
    BY <1>1
  <2>2. /\ after \in Seq(File)
        /\ Len(after) = IF i + 1 <= n THEN n - (i + 1) + 1 ELSE 0
        /\ \A m \in 1..(n - (i + 1) + 1) : after[m] = files[(i + 1) + m - 1]
    BY <1>1, <2>1, SubSeqProperties
  <2>3. /\ (IF i + 1 <= n THEN n - (i + 1) + 1 ELSE 0) = n - i
        /\ n - (i + 1) + 1 = n - i
        /\ \A m \in 1..(n - i) : (i + 1) + m - 1 = i + m
    BY <1>1
  <2> HIDE DEF after
  <2> QED
    BY <2>2, <2>3
<1>4. Without(i) = before \o after
  BY DEF Without
<1> HIDE DEF before, after
<1>5. /\ Without(i) \in Seq(File) /\ Len(Without(i)) = n - 1
      /\ \A m \in 1..(n - 1) :
           Without(i)[m] = IF m <= i - 1 THEN before[m] ELSE after[m - (i - 1)]
  <2>1. /\ before \o after \in Seq(File) /\ Len(before \o after) = Len(before) + Len(after)
        /\ \A m \in 1..(Len(before) + Len(after)) :
             (before \o after)[m] =
               IF m <= Len(before) THEN before[m] ELSE after[m - Len(before)]
    BY <1>2, <1>3, ConcatProperties
  <2>2. (i - 1) + (n - i) = n - 1
    BY <1>1
  <2> QED
    BY <1>2, <1>3, <1>4, <2>1, <2>2
<1>6. DOMAIN Without(i) = 1..(n - 1)
  BY <1>5, LenProperties
<1>7. ASSUME NEW m \in 1..(n - 1)
      PROVE  Without(i)[m] = IF m < i THEN files[m] ELSE files[m + 1]
  <2>1. CASE m < i
    <3>1. m <= i - 1 /\ m \in 1..(i - 1)
      BY <1>1, <2>1
    <3> QED
      BY <1>2, <1>5, <2>1, <3>1
  <2>2. CASE ~(m < i)
    <3>1. ~(m <= i - 1) /\ m - (i - 1) \in 1..(n - i) /\ i + (m - (i - 1)) = m + 1
      BY <1>1, <2>2
    <3> QED
      BY <1>3, <1>5, <2>2, <3>1
  <2> QED
    BY <2>1, <2>2
<1> QED
  BY <1>1, <1>6, <1>7

\* Removing a file keeps the others, and adds none.
LEMMA WithoutKeeps ==
  ASSUME files \in Seq(File), NEW i \in DOMAIN files
  PROVE  /\ \A k \in DOMAIN files \ {i} : \E j \in DOMAIN Without(i) : Without(i)[j] = files[k]
         /\ \A j \in DOMAIN Without(i) : \E k \in DOMAIN files : Without(i)[j] = files[k]
<1> DEFINE n == Len(files)
<1>1. /\ n \in Nat /\ DOMAIN files = 1..n /\ i \in 1..n /\ DOMAIN Without(i) = 1..(n - 1)
      /\ \A m \in 1..(n - 1) : Without(i)[m] = IF m < i THEN files[m] ELSE files[m + 1]
  BY WithoutIs
<1> HIDE DEF n
<1>2. ASSUME NEW k \in DOMAIN files \ {i}
      PROVE  \E j \in DOMAIN Without(i) : Without(i)[j] = files[k]
  <2>1. CASE k < i
    BY <1>1, <2>1
  <2>2. CASE k > i
    <3>1. k - 1 \in 1..(n - 1) /\ ~(k - 1 < i) /\ (k - 1) + 1 = k
      BY <1>1, <2>2
    <3> QED
      BY <1>1, <3>1
  <2> QED
    BY <1>1, <2>1, <2>2
<1>3. ASSUME NEW j \in DOMAIN Without(i)
      PROVE  \E k \in DOMAIN files : Without(i)[j] = files[k]
  <2>1. j \in 1..n /\ j + 1 \in 1..n
    BY <1>1
  <2> QED
    BY <1>1, <2>1
<1> QED
  BY <1>2, <1>3

\* A file at the end changes nothing before it.
LEMMA AppendKeeps ==
  ASSUME files \in Seq(File), NEW file \in File
  PROVE  /\ \A i \in DOMAIN files :
              i \in DOMAIN Append(files, file) /\ Append(files, file)[i] = files[i]
         /\ \A i \in DOMAIN Append(files, file) :
              i \in DOMAIN files \/ Append(files, file)[i] = file
  OBVIOUS

\* An index taken from a listing that agrees is that of the file looked for.
LEMMA IndexAgrees ==
  ASSUME NEW n, Agrees(io.listed), Matches(io.listed, n) # {}
  PROVE  IndexListed(n) \in DOMAIN files /\ files[IndexListed(n)].name = n
<1>1. IndexListed(n) \in Matches(io.listed, n)
  BY DEF IndexListed
<1> QED
  BY <1>1 DEF Matches, Agrees

\* What is selected or deleted is the file that was looked for.
LEMMA RequestIsOurs ==
  ASSUME SessionInv, StoreInv, io.await = "send", ~io.stale
  PROVE  /\ Request[1] = "select" =>
              /\ io.part = "select" /\ Request[2] \in DOMAIN files
              /\ files[Request[2]].name = rt.receipt /\ rt.receipt \in Names
         /\ Request[1] = "delete" =>
              /\ io.part = "delete" /\ Request[2] \in DOMAIN files
              /\ files[Request[2]].name \in Names
<1>1. io.part \in Parts
  BY DEF SessionInv, TypeInv, Operations
<1>2. CASE io.part = "select"
  <2>1. Request = <<"select", IndexListed(rt.receipt)>>
    BY <1>2 DEF Request, Statuses, Listings
  <2>2. Agrees(io.listed) /\ Matches(io.listed, rt.receipt) # {}
    BY <1>2 DEF StoreInv, ListInv, Indexed
  <2>3. rt.receipt \in Names
    BY <1>2 DEF StoreInv, ReceiptInv, SessionInv, PartInv, Receipted
  <2> QED
    BY <1>2, <2>1, <2>2, <2>3, IndexAgrees
<1>3. CASE io.part = "delete"
  <2>1. Request = <<"delete", IndexListed(Deleting)>>
    BY <1>3 DEF Request, Statuses, Listings
  <2>2. Agrees(io.listed) /\ Matches(io.listed, Deleting) # {}
    BY <1>3 DEF StoreInv, ListInv, Indexed
  <2>3. Deleting \in Names
    BY <1>3 DEF StoreInv, ReceiptInv, SessionInv, PartInv, Deleting
  <2> QED
    BY <1>3, <2>1, <2>2, <2>3, IndexAgrees
<1>4. CASE io.part \notin {"select", "delete"}
  BY <1>1, <1>4 DEF Request, Statuses, Listings, Parts, ProcessAction
<1> QED
  BY <1>2, <1>3, <1>4

\* A listing is not told wrong by a datagram that does not delete.
LEMMA AgreesStays ==
  ASSUME TypeInv, NEW list, Agrees(list), NEW d, Receives(d), d[1] # "delete"
  PROVE  Agrees(list)'
<1>1. files \in Seq(File)
  BY DEF TypeInv
<1>2. files' = files \/ \E file \in File : files' = Append(files, file)
  <2>1. CASE pending # NoUpload
    <3> DEFINE whole == pending.whole /\ d = <<"chunk", pending.next + 1>>
    <3>1. files' = files \/ files' = Append(files, [name |-> pending.name, whole |-> whole])
      BY <2>1 DEF Receives, TakesAsData
    <3>2. [name |-> pending.name, whole |-> whole] \in File
      BY <2>1 DEF File, TypeInv, AnyName
    <3> QED
      BY <3>1, <3>2
  <2>2. CASE pending = NoUpload
    BY <2>2
    DEF Receives, Reports, OpensUpload, Deletes, Selects, Processes, Moves, Refuses,
        Runs, Turns, ctlVars
  <2> QED
    BY <2>1, <2>2
<1> QED
  BY <1>1, <1>2, AppendKeeps DEF Agrees

LEMMA SendKeepsStore ==
  ASSUME SessionInv, StoreInv, Send
  PROVE  StoreInv'
<1>1. /\ io.await = "send" /\ io' = Sends /\ UNCHANGED <<svcVars, rt, counts>>
      /\ TypeInv /\ replies = <<>>
  BY DEF Send, SessionInv, WireInv
<1>2. /\ io.part \in Parts /\ rt' = rt /\ conn' = conn
      /\ io'.part = io.part /\ io'.await = "ack" /\ io'.listed = io.listed
      /\ io'.stale = io.stale
  <2>1. io \in Operations
    BY <1>1 DEF TypeInv
  <2> QED
    BY <1>1, <2>1 DEF Sends, svcVars, Operations
<1>3. LinkInv' /\ ReceiptInv'
  BY <1>2 DEF StoreInv, LinkInv, ReceiptInv
<1>4. /\ Matches(io.listed, rt.receipt)' = Matches(io.listed, rt.receipt)
      /\ Matches(io.listed, Deleting)' = Matches(io.listed, Deleting)
  BY <1>2 DEF Matches, Deleting
<1>5. CASE io.stale
  BY <1>2, <1>3, <1>4, <1>5 DEF StoreInv, ListInv
<1>6. CASE ~io.stale /\ Receives(Request)
  <2>1. replies' # <<Nak>> /\ \A i \in DOMAIN replies' : NameTold(replies[i])'
    <3>1. CASE replies' = <<Ack>> \/ replies' = <<Err>>
      BY <3>1 DEF NameTold, Ack, Err, Nak
    <3>2. ASSUME NEW r, replies' = <<Ack, r>>, UNCHANGED ctlVars, r[1] = Request[1],
                 r[1] = "name" => /\ Request[2] \in DOMAIN files
                                  /\ r = <<"name", Request[2], NameAt(Request[2])>>
          PROVE  replies' # <<Nak>> /\ \A i \in DOMAIN replies' : NameTold(replies[i])'
      <4>1. NameTold(r)'
        BY <3>2 DEF NameTold, NameAt, ctlVars
      <4>2. NameTold(Ack)'
        BY DEF NameTold, Ack
      <4> QED
        BY <3>2, <4>1, <4>2
    <3>3. Plain(Request)
      BY <1>2, RequestOf
    <3> QED
      BY <1>1, <1>6, <3>1, <3>2, <3>3, Answered
  <2>2. io.part \in Indexed /\ io.part # "delete" => Agrees(io.listed)'
    <3> SUFFICES ASSUME io.part \in Indexed, io.part # "delete"
                 PROVE  Agrees(io.listed)'
      OBVIOUS
    <3>1. Agrees(io.listed) /\ Request[1] # "delete"
      BY <1>1, <1>6, RequestIsOurs DEF StoreInv, ListInv
    <3>2. \A i \in DOMAIN io.listed : i \in DOMAIN files' /\ io.listed[i] = files'[i].name
      BY <1>1, <1>6, <3>1, AgreesStays DEF Agrees
    <3> QED
      BY <1>2, <3>2 DEF Agrees
  <2>3. ListInv'
    BY <1>2, <1>4, <1>6, <2>1, <2>2 DEF ListInv, StoreInv
  <2> QED
    BY <1>3, <2>3 DEF StoreInv
<1>7. CASE ~io.stale /\ UNCHANGED ctlVars /\ replies' \in {<<>>, <<Nak>>}
  <2>1. \A i \in DOMAIN replies' : NameTold(replies[i])'
    BY <1>7 DEF NameTold, Nak
  <2>2. io.part \in Indexed => Agrees(io.listed)'
    BY <1>1, <1>2, <1>7 DEF StoreInv, ListInv, Agrees, ctlVars
  <2>3. ListInv'
    BY <1>2, <1>4, <1>7, <2>1, <2>2 DEF ListInv, StoreInv
  <2> QED
    BY <1>3, <2>3 DEF StoreInv
<1> QED
  BY <1>1, <1>5, <1>6, <1>7, OnQuietLine DEF Send, Answers

\* In lockstep the surroundings only take from the line.
LEMMA LineAround ==
  ASSUME Lockstep, WireInv, Machine \/ Surroundings
  PROVE  \/ replies' = replies
         \/ replies' = <<>>
         \/ replies = <<Ack, replies[2]>> /\ replies' \in {<<Ack>>, <<replies[2]>>}
<1>1. CASE LosesReply
  <2>1. PICK i \in DOMAIN replies :
          replies' = SubSeq(replies, 1, i - 1) \o SubSeq(replies, i + 1, Len(replies))
    BY <1>1 DEF LosesReply
  <2>2. CASE replies = <<>>
    BY <2>1, <2>2
  <2>3. ASSUME NEW a, replies = <<a>>
        PROVE  replies' = <<>>
    BY <2>1, <2>3
  <2>4. ASSUME NEW a, NEW b, replies = <<a, b>>
        PROVE  replies' \in {<<a>>, <<b>>}
    BY <2>1, <2>4, LosesOne
  <2> QED
    BY <2>2, <2>3, <2>4 DEF WireInv
<1>2. ~DeliversTwice /\ ~Swaps
  BY DEF DeliversTwice, Swaps, Fault, Lockstep
<1> QED
  BY <1>1, <1>2
  DEF Machine, Surroundings, Resets, AtPanel, PanelPauses, PanelResumes, PanelStops,
      PanelStarts, PanelCopies, PanelShowsUnknown

LEMMA AroundKeepsStore ==
  ASSUME Lockstep, SessionInv, StoreInv,
         (Machine \/ Surroundings) /\ UNCHANGED HostVars
  PROVE  StoreInv'
<1>1. rt' = rt /\ io' = io /\ conn' = conn
  BY DEF HostVars, svcVars
<1>2. /\ files \in Seq(File)
      /\ files' = files \/ \E file \in File : files' = Append(files, file)
  <2>1. CASE PanelCopies
    <3>1. PICK n \in Stored : files' = Append(files, [name |-> n, whole |-> TRUE])
      BY <2>1 DEF PanelCopies
    <3>2. [name |-> n, whole |-> TRUE] \in File
      BY DEF File, AnyName
    <3> QED
      BY <3>1, <3>2 DEF SessionInv, TypeInv
  <2>2. CASE ~PanelCopies
    <3>1. files' = files
      BY <2>2
      DEF Machine, Surroundings, FinishesRun, Settles, Turns, LosesReply, DeliversTwice,
          Swaps, Resets, PanelPauses, PanelResumes, PanelStops, PanelStarts,
          PanelShowsUnknown, AtPanel, Fault, Runs, ctlVars
    <3> QED
      BY <3>1 DEF SessionInv, TypeInv
  <2> QED
    BY <2>1, <2>2
<1>3. \A i \in DOMAIN files : i \in DOMAIN files' /\ files'[i] = files[i]
  BY <1>2, AppendKeeps
<1>4. \/ replies' = replies
      \/ replies' = <<>>
      \/ replies = <<Ack, replies[2]>> /\ replies' \in {<<Ack>>, <<replies[2]>>}
  BY LineAround DEF SessionInv, HostVars
<1>5. \A reply : NameTold(reply) => NameTold(reply)'
  BY <1>3 DEF NameTold
<1>6. ~io.stale =>
      /\ \A i \in DOMAIN replies' : NameTold(replies[i])'
      /\ replies' = <<Nak>> => replies = <<Nak>>
  <2> SUFFICES ASSUME ~io.stale
               PROVE  /\ \A i \in DOMAIN replies' : NameTold(replies[i])'
                      /\ replies' = <<Nak>> => replies = <<Nak>>
    OBVIOUS
  <2> USE DEF StoreInv, ListInv
  <2>1. CASE replies' = replies
    BY <1>5, <2>1
  <2>2. CASE replies' = <<>>
    BY <2>2
  <2>3. CASE replies = <<Ack, replies[2]>> /\ replies' \in {<<Ack>>, <<replies[2]>>}
    <3>1. replies[2] \notin Bare
      BY <2>3, Tuples DEF SessionInv, WireInv
    <3>2. NameTold(Ack) /\ NameTold(replies[2])
      BY <2>3 DEF NameTold, Ack
    <3>3. NameTold(Ack)' /\ \A r : r = replies[2] => NameTold(r)'
      BY <1>5, <3>2
    <3>4. PICK r \in {Ack, replies[2]} : replies' = <<r>>
      BY <2>3
    <3>5. r # Nak /\ NameTold(r)'
      BY <3>1, <3>3, <3>4 DEF Bare, Ack, Nak
    <3>6. \A i \in DOMAIN replies' : replies'[i] = r
      BY <3>4
    <3>7. \A i \in DOMAIN replies' : NameTold(replies[i])'
      BY <3>5, <3>6 DEF NameTold
    <3> QED
      BY <3>4, <3>5, <3>7
  <2> QED
    BY <1>4, <2>1, <2>2, <2>3
<1>7. Agrees(io.listed) => Agrees(io.listed)'
  BY <1>1, <1>3 DEF Agrees
<1>8. ListInv'
  BY <1>1, <1>6, <1>7 DEF StoreInv, ListInv, Matches, Deleting
<1> QED
  BY <1>1, <1>8 DEF StoreInv, LinkInv, ReceiptInv

\* A removal at the panel makes a listing old that has been begun.
LEMMA RemovalKeepsStore ==
  ASSUME SessionInv, StoreInv, PanelAges
  PROVE  StoreInv'
<1>1. /\ rt' = rt /\ conn' = conn /\ replies' = replies
      /\ io'.part = io.part /\ io'.await = io.await /\ io'.listed = io.listed
  BY DEF PanelAges, PanelRemoves, AtPanel, svcVars, SessionInv, TypeInv, Operations
<1>2. "delete" \in Faults
  BY DEF PanelAges, PanelRemoves, AtPanel, Fault
<1>3. io'.stale \/ (io.listed = <<>> /\ replies = <<>>)
  BY DEF PanelAges, Awaits, SessionInv, TypeInv, Operations, WireInv
<1>4. ListInv'
  BY <1>1, <1>2, <1>3 DEF StoreInv, ListInv, Matches, Deleting, Agrees
<1> QED
  BY <1>1, <1>4 DEF StoreInv, LinkInv, ReceiptInv

\* An acknowledgement before a reply, and a datagram that is to be sent again.
LEMMA ReadsKeepStore ==
  ASSUME SessionInv, StoreInv, ReadAck \/ ReadNak
  PROVE  StoreInv'
<1>1. /\ replies # <<>> /\ replies' = Tail(replies) /\ UNCHANGED <<ctlVars, svcVars, rt>>
      /\ Head(replies) \in {Ack, Nak} /\ io.await = "ack" /\ io \in Operations
  BY DEF ReadAck, ReadNak, Reads, SessionInv, TypeInv
<1>2. /\ io'.part = io.part /\ io'.listed = io.listed /\ rt' = rt /\ conn' = conn
      /\ io'.stale = io.stale
      /\ io.part = "delete" => ReadNak
  BY <1>1 DEF ReadAck, ReadNak, ExpectsReply, Statuses, Listings, Operations, svcVars
<1>3. ReadNak => replies = <<Nak>>
  BY <1>1, Tuples DEF ReadNak, Reads, SessionInv, WireInv, Ack, Nak
<1>5. ~io.stale => \A i \in DOMAIN replies' : NameTold(replies[i])'
  <2> SUFFICES ASSUME ~io.stale
               PROVE  \A i \in DOMAIN replies' : NameTold(replies[i])'
    OBVIOUS
  <2>1. CASE replies = <<Head(replies)>>
    BY <1>1, <2>1, Tuples
  <2>2. CASE replies = <<Ack, replies[2]>>
    <3>3. PICK r : replies = <<Ack, r>> /\ r = replies[2]
      BY <2>2
    <3>4. 2 \in DOMAIN replies
      BY <3>3
    <3>1. replies' = <<replies[2]>> /\ NameTold(replies[2])
      BY <1>1, <3>3, <3>4, Tuples DEF StoreInv, ListInv
    <3>2. \A i \in DOMAIN replies' : replies'[i] = replies[2]
      BY <3>1
    <3> QED
      BY <1>1, <3>1, <3>2 DEF NameTold, ctlVars
  <2> QED
    BY <1>1, <2>1, <2>2 DEF SessionInv, WireInv
<1>6. ~io.stale /\ io.part \in Indexed => Agrees(io.listed)'
  BY <1>1, <1>2, <1>3 DEF StoreInv, ListInv, Agrees, ctlVars
<1>7. ListInv'
  BY <1>2, <1>5, <1>6 DEF StoreInv, ListInv, Matches, Deleting
<1> QED
  BY <1>2, <1>7 DEF StoreInv, LinkInv, ReceiptInv

LEMMA HostKeepsStore ==
  ASSUME StoreInv, HostOnly, Restarts, LinkInv', ReceiptInv'
  PROVE  StoreInv'
<1>2. io'.part \in Indexed => io'.listed = <<>> /\ io'.part \notin {"select", "delete"}
  BY DEF Restarts, Listings
<1>3. ListInv'
  BY <1>2 DEF HostOnly, Restarts, StoreInv, ListInv, Agrees, Indexed
<1> QED
  BY <1>3 DEF StoreInv

LEMMA StepKeepsStore ==
  ASSUME StoreInv, HostStep
  PROVE  StoreInv'
<1>1. ReceiptInv'
  BY DEF StoreInv, ReceiptInv, HostStep, Steady
<1> QED
  BY <1>1, HostKeepsStore DEF HostStep

LEMMA StagesKeepStore ==
  ASSUME Lockstep, SessionInv, StoreInv,
         Begins \/ Announces \/ SendsChunk \/ Verifies \/ Starts
  PROVE  StoreInv'
<1>1. Onward
  BY StagesMove DEF StoreInv
<1>2. rt \in Runtimes /\ WireInv
  BY DEF SessionInv, TypeInv
<1>3. ReceiptInv'
  <2>1. CASE Begins
    <3>1. rt' = rt \/ rt'.phase = "Uploading"
      BY <1>2, <2>1 DEF Begins, To, Runtimes, NoCursor
    <3> QED
      BY <3>1 DEF StoreInv, ReceiptInv, Receipted, OwningPhase
  <2>2. CASE Announces \/ SendsChunk
    <3>1. rt'.phase = rt.phase /\ rt'.receipt = rt.receipt
      BY <1>2, <2>2 DEF Announces, SendsChunk, Runtimes
    <3> QED
      BY <3>1 DEF StoreInv, ReceiptInv
  <2>3. CASE Verifies
    <3>1. io.part = "verify"
      BY <1>2, <2>3, ListsEnds DEF Verifies
    <3>2. rt.cursor.name \in Names
      BY <3>1 DEF SessionInv, PartInv
    <3>3. rt'.receipt = rt.cursor.name
      BY <1>2, <2>3 DEF Verifies, To, Runtimes
    <3> QED
      BY <3>2, <3>3 DEF ReceiptInv
  <2>4. CASE Starts
    <3>1. io.part = "selected"
      BY <1>2, <2>4, GivesEnds DEF Starts
    <3>2. rt.receipt \in Names
      BY <3>1 DEF SessionInv, PartInv, StoreInv, ReceiptInv, Receipted
    <3>3. rt'.receipt = rt.receipt
      BY <1>2, <2>4 DEF Starts, Recovery, To, Runtimes
    <3> QED
      BY <3>2, <3>3 DEF ReceiptInv
  <2> QED
    BY <2>1, <2>2, <2>3, <2>4
<1> QED
  BY <1>1, <1>3, HostKeepsStore DEF Onward

\* A listing takes the names as they are told.
LEMMA NowListedAgrees ==
  ASSUME SessionInv, StoreInv, NEW p \in Listings, Gives(p, Head(replies)), ~io.stale
  PROVE  Agrees(NowListed)
<1>1. /\ io.part = p /\ replies # <<>> /\ io.listed \in Seq(AnyName)
      /\ io.await = "ack" => Head(replies) # Ack
  BY DEF Gives, Reads, SessionInv, TypeInv, Operations
<1>2. NameTold(Head(replies))
  <2>1. replies = <<Head(replies)>> \/ \E r : replies = <<Ack, r>>
    BY <1>1 DEF SessionInv, WireInv
  <2>2. 1 \in DOMAIN replies /\ Head(replies) = replies[1]
    BY <1>1, <2>1, Tuples
  <2> QED
    BY <2>2 DEF StoreInv, ListInv
<1>3. Agrees(io.listed)
  BY <1>1 DEF StoreInv, ListInv, Indexed, Listings
<1>4. CASE Head(replies)[1] = "count"
  BY <1>4 DEF NowListed, Agrees
<1>5. CASE Head(replies)[1] = "name"
  <2> DEFINE n == Head(replies)[3]
  <2>1. Head(replies)[2] = Len(io.listed) + 1
    BY <1>5, ListReply
  <2>2. Len(io.listed) + 1 \in DOMAIN files /\ n = files[Len(io.listed) + 1].name
    BY <1>2, <1>5, <2>1 DEF NameTold
  <2>3. NowListed = Append(io.listed, n)
    BY <1>5 DEF NowListed
  <2> HIDE DEF n
  <2>4. \A i \in DOMAIN Append(io.listed, n) :
          \/ i \in DOMAIN io.listed /\ Append(io.listed, n)[i] = io.listed[i]
          \/ i = Len(io.listed) + 1 /\ Append(io.listed, n)[i] = n
    BY <1>1
  <2> QED
    BY <1>3, <2>2, <2>3, <2>4 DEF Agrees
<1> QED
  BY <1>4, <1>5, ListReply

\* The listing goes on, or the next exchange takes its index from it.
LEMMA ListsKeepStore ==
  ASSUME SessionInv, StoreInv, ListGoesOn \/ Inspects \/ Finds
  PROVE  StoreInv'
<1>1. PICK p \in Listings :
        /\ Gives(p, Head(replies)) /\ HostOnly /\ io.part = p /\ rt' = rt /\ conn' = conn
        /\ io'.listed = NowListed /\ io'.stale = io.stale
        /\ \/ io'.part = p
           \/ /\ p = "inspect" /\ Unique(rt.receipt) /\ io'.part = "select"
           \/ /\ p = "find" /\ Unique(rt.cursor.name) /\ io'.part = "delete"
           \/ /\ p = "scoped" /\ Unique(rt.receipt) /\ io'.part = "delete"
  <2>1. WireInv /\ io \in Operations
    BY DEF SessionInv, TypeInv
  <2>2. CASE ListGoesOn
    <3>1. /\ io.part \in Listings /\ Gives(io.part, Head(replies)) /\ rt' = rt /\ UNCHANGED svcVars
          /\ io' = [io EXCEPT !.await = "send", !.attempt = 0,
                              !.listed = NowListed, !.total = NowTotal]
      BY <2>2 DEF ListGoesOn
    <3>2. HostOnly
      BY <2>1, <3>1, GivesEnds
    <3> HIDE DEF NowListed, NowTotal
    <3>3. io'.listed = NowListed /\ io'.part = io.part /\ io'.stale = io.stale
      BY <2>1, <3>1 DEF Operations
    <3> QED
      BY <3>1, <3>2, <3>3 DEF svcVars
  <2>3. CASE Inspects
    <3>1. Lists("inspect") /\ Unique(rt.receipt) /\ GoesListed("select") /\ rt' = rt
      BY <2>3 DEF Inspects
    <3>2. HostOnly /\ io.part = "inspect"
      BY <2>1, <3>1, ListsEnds
    <3> QED
      BY <3>1, <3>2 DEF Lists, GoesListed, svcVars, Listings
  <2>4. CASE Finds
    <3>1. PICK p \in {"find", "scoped"} :
            /\ Lists(p) /\ GoesListed("delete") /\ rt' = rt
            /\ p = "find" => Unique(rt.cursor.name)
            /\ p = "scoped" => Unique(rt.receipt)
      BY <2>4 DEF Finds
    <3>2. HostOnly /\ io.part = p
      BY <2>1, <3>1, ListsEnds
    <3> QED
      BY <3>1, <3>2 DEF Lists, GoesListed, svcVars, Listings
  <2> QED
    BY <2>2, <2>3, <2>4
<1>2. ~io.stale => Agrees(NowListed)
  BY <1>1, NowListedAgrees
<1>3. \A n : Unique(n) => Matches(NowListed, n) # {}
  BY FS_EmptySet DEF Unique
<1>4. ReceiptInv' /\ replies' = <<>>
  BY <1>1 DEF HostOnly, StoreInv, ReceiptInv
<1>5. LinkInv'
  BY <1>1 DEF StoreInv, LinkInv, Listings, Unlinked
<1>6. ~io.stale => Agrees(io.listed)'
  <2> SUFFICES ASSUME ~io.stale PROVE Agrees(io.listed)'
    OBVIOUS
  <2>1. \A i \in DOMAIN io'.listed : i \in DOMAIN files /\ io'.listed[i] = files[i].name
    BY <1>1, <1>2 DEF Agrees
  <2> QED
    BY <1>1, <2>1 DEF Agrees, HostOnly, ctlVars
<1>7. /\ io'.part = "select" => Matches(io'.listed, rt'.receipt) # {}
      /\ io'.part = "delete" => Matches(io'.listed, Deleting') # {}
  <2>1. io'.part = "select" => Unique(rt.receipt)
    BY <1>1 DEF Listings
  <2>2. io'.part = "delete" => Unique(Deleting)
    <3>1. CASE io.part = "find"
      <4>1. Deleting = rt.cursor.name
        BY <3>1 DEF Deleting, SessionInv, PartInv
      <4> QED
        BY <1>1, <3>1, <4>1
    <3>2. CASE io.part = "scoped"
      <4>1. Deleting = rt.receipt
        BY <3>2 DEF Deleting, SessionInv, PartInv, Receipted
      <4> QED
        BY <1>1, <3>2, <4>1
    <3> QED
      BY <1>1, <3>1, <3>2 DEF Listings
  <2>3. Deleting' = Deleting /\ rt' = rt
    BY <1>1 DEF Deleting
  <2> QED
    BY <1>1, <1>3, <2>1, <2>2, <2>3 DEF Matches
<1>8. ListInv'
  BY <1>1, <1>4, <1>6, <1>7 DEF StoreInv, ListInv, Matches
<1> QED
  BY <1>4, <1>5, <1>8 DEF StoreInv

LEMMA StoreInit == Init => StoreInv
<1> SUFFICES ASSUME Init PROVE StoreInv
  OBVIOUS
<1>1. rt.phase = "Disconnected" /\ io.part = "none" /\ replies = <<>> /\ ~io.stale
  BY DEF Init, ControllerInit, Fresh, NoIo
<1> QED
  BY <1>1
  DEF StoreInv, ListInv, LinkInv, ReceiptInv, Unlinked, Indexed, Listings, Receipted,
      OwningPhase

LEMMA StoreStep ==
  ASSUME Lockstep, SessionInv, StoreInv, [Next]_vars
  PROVE  StoreInv'
<1>1. LinkInv
  BY DEF StoreInv
<1>2. CASE Exchange
  BY <1>1, <1>2, SendKeepsStore, ReadsKeepStore, ListsKeepStore, StagesKeepStore,
     StepKeepsStore, FailuresMove, ExchangesMove, StatusesMove, PollFailsMoves, EndingsMove
  DEF Exchange
<1>3. CASE Begin
  BY <1>1, <1>3, BeginningsMove, StepKeepsStore
<1>4. CASE (Machine \/ Surroundings) /\ UNCHANGED HostVars
  BY <1>4, AroundKeepsStore
<1>6. CASE PanelAges
  BY <1>6, RemovalKeepsStore
<1>5. CASE UNCHANGED vars
  <2>1. UNCHANGED <<ctlVars, replies, svcVars, rt, io>>
    BY <1>5 DEF vars, svcVars
  <2> QED
    BY <2>1
    DEF StoreInv, LinkInv, ListInv, ReceiptInv, NameTold, Agrees, Matches, Deleting,
        ctlVars, svcVars
<1> QED
  BY <1>2, <1>3, <1>4, <1>5, <1>6 DEF Next, HostVars

\* What a listing says of the files is so until its index is used, unless a file is
\* removed at the panel in between (select_file, delete_file after list_files_verified).
THEOREM StoreCorrect ==
  ASSUME Lockstep
  PROVE  Spec => []StoreInv
<1>1. SessionInv /\ SessionInv' /\ StoreInv /\ [Next]_vars => StoreInv'
  BY StoreStep
<1> QED
  BY <1>1, StoreInit, SessionCorrect, PTL DEF Spec

\* In lockstep, whatever is pressed, copied or removed at the panel, the index in a select
\* or delete command is that of the file that is meant, unless the removal came after the
\* listing it was taken from had begun (queue_uploaded, delete_scoped_upload).
THEOREM RuidaIndexIsMeant ==
  ASSUME Lockstep
  PROVE  Spec => []IndexIsMeant
<1>1. SessionInv /\ StoreInv => IndexIsMeant
  <2> SUFFICES ASSUME SessionInv, StoreInv, io.part \in {"select", "delete"},
                      io.await = "send", ~io.stale
               PROVE  NameAt(Request[2]) = IF io.part = "select" THEN rt.receipt ELSE Deleting
    BY DEF IndexIsMeant
  <2>1. Agrees(io.listed)
    BY DEF StoreInv, ListInv, Indexed
  <2>2. CASE io.part = "select"
    <3>1. Request = <<"select", IndexListed(rt.receipt)>>
      BY <2>2 DEF Request, Statuses, Listings
    <3>2. Matches(io.listed, rt.receipt) # {}
      BY <2>2 DEF StoreInv, ListInv
    <3> QED
      BY <2>1, <2>2, <3>1, <3>2, IndexAgrees DEF NameAt
  <2>3. CASE io.part = "delete"
    <3>1. Request = <<"delete", IndexListed(Deleting)>>
      BY <2>3 DEF Request, Statuses, Listings
    <3>2. Matches(io.listed, Deleting) # {}
      BY <2>3 DEF StoreInv, ListInv
    <3> QED
      BY <2>1, <2>3, <3>1, <3>2, IndexAgrees DEF NameAt
  <2> QED
    BY <2>2, <2>3
<1> QED
  BY <1>1, SessionCorrect, StoreCorrect, PTL

(***************************************************************************)
(* The transfer: what was announced is what is stored, whole, what is      *)
(* stored is what is selected, and what is selected is what runs.          *)
(***************************************************************************)

\* Every file of that name arrived whole.
Whole(n) == \A i \in IndexOf(n) : files[i].whole

\* The upload pending is the cursor's file, as far as the cursor says it has come.
CursorInv ==
  conn /\ pending # NoUpload /\ ~rt.ambiguous =>
    /\ pending.name = rt.cursor.name
    /\ io.part # "eof" => pending.whole
    /\ io.part \in {"none", "chunk"} /\ (io.await = "ack" => replies = <<Nak>>) =>
         pending.next = rt.cursor.acked
    /\ io.part = "chunk" /\ io.await = "ack" /\ replies = <<Ack>> =>
         pending.next = rt.cursor.acked + 1
    /\ io.part = "announce" => pending.next = 0

\* The file of an upload that is through, or of a job, is stored whole.
WholeInv ==
  /\ rt.phase = "Uploading" /\ rt.cursor.stage = "AnnounceFile" => rt.cursor.acked = 0
  /\ conn /\ rt.phase = "Uploading" /\ rt.cursor.stage = "Verify" => Whole(rt.cursor.name)
  /\ conn /\ io.part = "chunk" /\ rt.cursor.acked + 1 = Chunks /\ replies = <<Ack>> =>
       Whole(rt.cursor.name)
  /\ conn /\ rt.phase \in {"Uploaded"} \cup OwningPhase => Whole(rt.receipt)

\* From the acknowledged selection to the start, no other file is selected.
Choosing ==
  \/ io.part = "selected"
  \/ io.part = "select" /\ replies = <<Ack>>
  \/ io.part = "process" /\ rt.phase = "Starting"

\* A job of this session runs its own file, and is at its end once it has run.
RunInv ==
  /\ conn /\ rt.phase \in OwningPhase =>
       /\ JobOnMachine => running.name = rt.receipt /\ running.whole
       /\ exec = "PartEnd" => rt.receipt \in ran
       /\ rt.observed_part_end => rt.receipt \in ran
       /\ \A i \in DOMAIN replies : replies[i] = <<"status", "PartEnd">> => rt.receipt \in ran
  /\ conn /\ rt.phase = "Completed" => rt.receipt \in ran
  /\ \A i \in DOMAIN replies :
       replies[i] = <<"status", "Idle">> => exec \notin {"Running", "Paused", "PartEnd"}

TransferInv ==
  /\ pending # NoUpload => IndexOf(pending.name) = {}
  /\ CursorInv
  /\ WholeInv
  /\ Choosing => selected \in {rt.receipt, NoName}
  /\ RunInv

\* Whoever is still uploading has sent nothing of the file in this step.
Carries ==
  rt'.phase = "Uploading" =>
    io.part \notin {"announce", "chunk"} /\ (io.part = "eof" => pending = NoUpload)

LEMMA HostKeepsTransfer ==
  ASSUME SessionInv, SessionInv', LinkInv, TransferInv, HostStep, Carries
  PROVE  TransferInv'
<1>1. /\ replies' = <<>> /\ UNCHANGED <<files, pending, selected, exec, running, ran>>
      /\ Steady /\ Restarts /\ Withholds
      /\ rt'.phase # "Ready" /\ conn' => conn
      /\ \A n : IndexOf(n)' = IndexOf(n) /\ (Whole(n)' <=> Whole(n))
  BY DEF HostStep, HostOnly, ctlVars, IndexOf, Whole
<1>2. CursorInv'
  <2> SUFFICES ASSUME conn', pending # NoUpload, ~rt'.ambiguous
               PROVE  CursorInv'
    BY <1>1 DEF CursorInv
  <2>1. /\ rt'.phase = "Uploading"
        /\ io'.part \in {"none", "chunk", "eof", "announce"}
        /\ io'.part = "announce" => io'.await = "ack"
    BY <1>1 DEF SessionInv, PendInv
  <2>2. conn /\ rt.phase = "Uploading" /\ rt'.cursor = rt.cursor
    BY <1>1, <2>1 DEF Steady
  <2>3. ~rt.ambiguous /\ io.part \notin {"announce", "chunk", "eof"}
    BY <2>1, <2>2 DEF SessionInv, PartInv, Carries
  <2>4. io.part = "none" /\ io.await = "none"
    BY <2>2, <2>3 DEF SessionInv, PendInv, PartInv
  <2>5. pending.name = rt.cursor.name /\ pending.whole /\ pending.next = rt.cursor.acked
    BY <2>2, <2>3, <2>4 DEF TransferInv, CursorInv
  <2>6. io'.await # "ack"
    BY <1>1 DEF Restarts
  <2> QED
    BY <1>1, <2>1, <2>2, <2>5, <2>6 DEF CursorInv
<1>3. WholeInv'
  <2>1. rt'.phase = "Uploading" => rt.phase = "Uploading" /\ rt'.cursor = rt.cursor
    BY <1>1 DEF Steady
  <2>2. rt'.phase \in {"Uploaded"} \cup OwningPhase =>
          /\ rt.phase \in {"Uploaded"} \cup OwningPhase /\ rt'.receipt = rt.receipt
          /\ rt'.phase # "Ready"
    BY <1>1 DEF Steady, OwningPhase, Receipted
  <2>3. replies' # <<Ack>>
    BY <1>1
  <2> QED
    BY <1>1, <2>1, <2>2, <2>3 DEF WholeInv, TransferInv
<1>4. Choosing' => selected' \in {rt'.receipt, NoName}
  BY <1>1 DEF Choosing, TransferInv, Withholds
<1>5. RunInv'
  <2>1. replies # <<>> => 1 \in DOMAIN replies /\ Head(replies) = replies[1]
    BY Tuples DEF SessionInv, WireInv
  <2>2. conn' /\ rt'.phase \in OwningPhase =>
          /\ conn /\ rt.phase \in OwningPhase /\ rt'.receipt = rt.receipt
          /\ rt'.observed_part_end => rt.receipt \in ran
    BY <1>1, <2>1 DEF Steady, RunInv, TransferInv, OwningPhase
  <2>3. conn' /\ rt'.phase = "Completed" => rt'.receipt \in ran
    BY <1>1 DEF Steady, RunInv, TransferInv, OwningPhase, Receipted
  <2> QED
    BY <1>1, <2>2, <2>3 DEF RunInv, TransferInv, JobOnMachine
<1> QED
  BY <1>1, <1>2, <1>3, <1>4, <1>5 DEF TransferInv

\* An acknowledged terminator has ended the upload.
LEMMA TerminatorEnds ==
  ASSUME SessionInv, LinkInv, ClosesUpload, rt.phase = "Uploading"
  PROVE  pending = NoUpload
<1>1. io.part = "eof" /\ replies = <<Ack>>
  BY DoneEnds DEF ClosesUpload, SessionInv
<1>2. conn /\ ~rt.ambiguous
  BY <1>1 DEF LinkInv, Unlinked, SessionInv, PartInv
<1> QED
  BY <1>1, <1>2 DEF SessionInv, PendInv

LEMMA StepsCarry ==
  ASSUME Lockstep, SessionInv, LinkInv,
         \/ ConnectBreaks \/ BeginBreaks \/ UploadBreaks \/ VerifyFails \/ InspectFails
         \/ SelectFails \/ ProcessFails \/ NotConfirmed \/ ConfirmBreaks
         \/ TickLosesStatus \/ CloseBreaks \/ AbortFails \/ MoveBreaks
         \/ Enquires \/ LooksAgain \/ SelectsFile \/ SendsProcess \/ ClosesUpload
         \/ DeletesFile \/ Connects \/ Confirms \/ Waits \/ TickPolls \/ Polls
         \/ PollFails \/ IsGone \/ DeleteFails \/ MovesAxis \/ Begin
  PROVE  Carries
<1>1. rt \in Runtimes /\ WireInv
  BY DEF SessionInv, TypeInv
<1>2. CASE \/ UploadBreaks \/ VerifyFails \/ SelectFails \/ ProcessFails \/ CloseBreaks
           \/ AbortFails \/ MoveBreaks \/ IsGone
  BY <1>1, <1>2
  DEF UploadBreaks, VerifyFails, SelectFails, ProcessFails, CloseBreaks, AbortFails,
      MoveBreaks, IsGone, Recovery, To, Runtimes, Carries
<1>3. CASE ClosesUpload
  <2>1. io.part = "eof" /\ rt' = rt
    BY <1>1, <1>3, DoneEnds DEF ClosesUpload
  <2> QED
    BY <1>3, <2>1, TerminatorEnds DEF Carries
<1>4. CASE Begin
  <2>1. io.part = "none"
    BY <1>4, Free
    DEF Begin, BeginConnect, BeginStart, BeginTick, BeginPause, BeginPoll, PollRefused,
        BeginCancel, BeginStop, BeginMove
  <2> QED
    BY <2>1 DEF Carries
<1>5. CASE DeleteFails
  <2>1. rt.phase # "Uploading" /\ rt' = rt
    BY <1>5 DEF DeleteFails
  <2> QED
    BY <2>1 DEF Carries
<1>6. CASE \/ ConnectBreaks \/ BeginBreaks \/ InspectFails \/ NotConfirmed \/ ConfirmBreaks
           \/ TickLosesStatus \/ Enquires \/ LooksAgain \/ SelectsFile \/ SendsProcess
           \/ DeletesFile \/ Connects \/ Confirms \/ Waits \/ TickPolls \/ Polls \/ PollFails
           \/ MovesAxis
  <2>1. \E p \in Parts \ {"none", "announce", "chunk", "eof"} :
          Done(p) \/ Breaks(p) \/ Lists(p) \/ \E reply : Gives(p, reply)
    BY <1>6
    DEF ConnectBreaks, BeginBreaks, InspectFails, NotConfirmed, ConfirmBreaks,
        TickLosesStatus, Enquires, LooksAgain, SelectsFile, SendsProcess, DeletesFile,
        Connects, Confirms, Waits, TickPolls, Polls, PollFails, MovesAxis, Parts,
        Listings, Statuses
  <2>2. io.part \notin {"announce", "chunk", "eof"}
    BY <2>1 DEF Done, Breaks, Lists, Gives
  <2> QED
    BY <2>2 DEF Carries
<1> QED
  BY <1>2, <1>3, <1>4, <1>5, <1>6

\* An upload that is pending is open between two exchanges, or at one of these.
LEMMA OpenParts ==
  ASSUME SessionInv, conn, pending # NoUpload, ~rt.ambiguous
  PROVE  /\ io.part \in {"none", "announce", "chunk", "eof"}
         /\ rt.phase = "Uploading"
         /\ io.part # "announce" => rt.cursor.stage = "Chunks"
         /\ io.part = "announce" => rt.cursor.stage = "AnnounceFile"
  BY DEF SessionInv, PendInv, PartInv

\* A file moves on to its next stage.
LEMMA StageKeeps ==
  ASSUME TransferInv, HostOnly, CursorInv', WholeInv', rt'.phase # "Completed",
         Choosing' => selected \in {rt'.receipt, NoName},
         rt'.phase \in OwningPhase =>
           ~rt'.observed_part_end /\ exec \notin {"Running", "Paused", "PartEnd"}
  PROVE  TransferInv'
<1>1. replies' = <<>> /\ UNCHANGED <<files, pending, selected, exec, running, ran>>
  BY DEF HostOnly, ctlVars
<1>2. RunInv'
  BY <1>1 DEF RunInv, JobOnMachine
<1> QED
  BY <1>1, <1>2 DEF TransferInv, IndexOf

LEMMA BeginsKeepTransfer ==
  ASSUME SessionInv, SessionInv', LinkInv, TransferInv, Begins
  PROVE  TransferInv'
<1>1. /\ HostOnly /\ io.part = "begin" /\ pending = NoUpload /\ rt \in Runtimes
      /\ rt.phase = "Ready" /\ conn
  BY ListsEnds DEF Begins, SessionInv, TypeInv, PartInv
<1>2. CASE Errs /\ rt' = rt
  <2>1. Carries
    BY <1>1, <1>2 DEF Carries
  <2>2. HostStep
    BY <1>1, <1>2, ErrsMove
  <2> QED
    BY <2>1, <2>2, HostKeepsTransfer
<1>3. ASSUME NEW n \in Names,
             rt' = [To("Uploading") EXCEPT !.cursor = [NoCursor EXCEPT !.name = n]],
             Leaves("Preparing")
      PROVE  TransferInv'
  <2>1. /\ rt'.phase = "Uploading" /\ rt'.cursor.stage = "AnnounceFile"
        /\ rt'.cursor.acked = 0 /\ io'.part = "none"
    BY <1>1, <1>3 DEF To, Runtimes, NoCursor, Leaves, NoIo
  <2>2. CursorInv'
    BY <1>1 DEF CursorInv, HostOnly, ctlVars, NoUpload
  <2>3. WholeInv'
    BY <2>1 DEF WholeInv, OwningPhase
  <2> QED
    BY <1>1, <2>1, <2>2, <2>3, StageKeeps DEF Choosing, OwningPhase
<1> QED
  BY <1>2, <1>3 DEF Begins

LEMMA AnnouncesKeepTransfer ==
  ASSUME SessionInv, LinkInv, TransferInv, Announces
  PROVE  TransferInv'
<1>1. /\ HostOnly /\ io.part = "announce" /\ rt \in Runtimes
      /\ rt.phase = "Uploading" /\ rt.cursor.stage = "AnnounceFile" /\ conn
  BY DoneEnds DEF Announces, SessionInv, TypeInv, PartInv, LinkInv, Unlinked
<1>2. io' = NoIo /\ rt' = [rt EXCEPT !.cursor.stage = "Chunks"]
  BY DEF Announces, Leaves
<1>3. /\ rt'.phase = "Uploading" /\ rt'.cursor.stage = "Chunks"
      /\ rt'.cursor.acked = rt.cursor.acked /\ rt'.cursor.name = rt.cursor.name
      /\ rt'.ambiguous = rt.ambiguous
      /\ io'.part = "none" /\ io'.await = "none"
  BY <1>1, <1>2 DEF Runtimes, Cursors, NoIo
<1>4. rt.cursor.acked = 0
  BY <1>1 DEF TransferInv, WholeInv
<1>5. CursorInv'
  <2>1. pending # NoUpload /\ ~rt.ambiguous =>
          pending.name = rt.cursor.name /\ pending.whole /\ pending.next = 0
    BY <1>1 DEF TransferInv, CursorInv
  <2> QED
    BY <1>1, <1>3, <1>4, <2>1 DEF CursorInv, HostOnly, ctlVars, NoUpload
<1>6. WholeInv'
  BY <1>3 DEF WholeInv, OwningPhase
<1> QED
  BY <1>1, <1>3, <1>5, <1>6, StageKeeps DEF Choosing, OwningPhase

LEMMA ChunksKeepTransfer ==
  ASSUME SessionInv, LinkInv, TransferInv, SendsChunk
  PROVE  TransferInv'
<1> DEFINE next == rt.cursor.acked + 1
<1>1. /\ HostOnly /\ io.part = "chunk" /\ replies = <<Ack>> /\ rt \in Runtimes
      /\ rt.phase = "Uploading" /\ rt.cursor.stage = "Chunks" /\ conn
      /\ io.await = "ack"
  BY DoneEnds DEF Done, SendsChunk, SessionInv, TypeInv, PartInv, LinkInv, Unlinked
<1>2. /\ rt' = [rt EXCEPT !.cursor.acked = next,
                          !.cursor.stage = IF next = Chunks THEN "Verify" ELSE @]
      /\ io'.part = "none" \/ (io'.part = "chunk" /\ io'.await = "send")
  BY <1>1 DEF SendsChunk, Leaves, Again, Enter, NoIo
<1>3. /\ rt'.phase = "Uploading" /\ rt'.cursor.acked = next
      /\ rt'.cursor.stage = IF next = Chunks THEN "Verify" ELSE "Chunks"
      /\ rt'.cursor.name = rt.cursor.name /\ rt'.ambiguous = rt.ambiguous
  <2>1. rt.cursor \in Cursors
    BY <1>1 DEF Runtimes
  <2>2. rt'.cursor = [rt.cursor EXCEPT !.acked = next,
                                       !.stage = IF next = Chunks THEN "Verify" ELSE @]
        /\ rt'.phase = rt.phase /\ rt'.ambiguous = rt.ambiguous
    BY <1>1, <1>2 DEF Runtimes
  <2> QED
    BY <1>1, <2>1, <2>2 DEF Cursors
<1>4. UNCHANGED <<pending, files>> /\ replies' = <<>>
  BY <1>1 DEF HostOnly, ctlVars
<1>5. CursorInv'
  <2>1. pending # NoUpload /\ ~rt.ambiguous =>
          pending.name = rt.cursor.name /\ pending.whole /\ pending.next = next
    BY <1>1 DEF TransferInv, CursorInv
  <2> QED
    BY <1>1, <1>2, <1>3, <1>4, <2>1 DEF CursorInv, NoUpload
<1>6. WholeInv'
  <2>1. next = Chunks => Whole(rt.cursor.name)
    BY <1>1 DEF TransferInv, WholeInv
  <2>2. next = Chunks => Whole(rt.cursor.name)'
    BY <1>3, <1>4, <2>1 DEF Whole, IndexOf
  <2> QED
    BY <1>3, <1>4, <2>2 DEF WholeInv, OwningPhase
<1> QED
  BY <1>1, <1>2, <1>3, <1>5, <1>6, StageKeeps DEF Choosing, OwningPhase

LEMMA VerifiesKeepTransfer ==
  ASSUME SessionInv, LinkInv, TransferInv, Verifies
  PROVE  TransferInv'
<1>1. /\ HostOnly /\ io.part = "verify" /\ pending = NoUpload /\ rt \in Runtimes
      /\ rt.phase = "Uploading" /\ rt.cursor.stage = "Verify" /\ conn
  BY ListsEnds DEF Verifies, SessionInv, TypeInv, PartInv, LinkInv, Unlinked
<1>2. rt'.phase = "Uploaded" /\ rt'.receipt = rt.cursor.name /\ io'.part = "inspect"
  BY <1>1 DEF Verifies, To, Runtimes, Goes, Enter
<1>3. Whole(rt.cursor.name)
  BY <1>1 DEF TransferInv, WholeInv
<1>4. CursorInv'
  BY <1>1 DEF CursorInv, HostOnly, ctlVars, NoUpload
<1>5. WholeInv'
  BY <1>1, <1>2, <1>3 DEF WholeInv, Whole, IndexOf, HostOnly, ctlVars
<1> QED
  BY <1>1, <1>2, <1>4, <1>5, StageKeeps DEF Choosing, OwningPhase

LEMMA StartsKeepTransfer ==
  ASSUME SessionInv, SessionInv', LinkInv, TransferInv, Starts
  PROVE  TransferInv'
<1>1. PICK s \in Exec :
        /\ Gives("selected", <<"status", s>>)
        /\ IF apply_status(s).phase = "Uploaded"
           THEN /\ rt' = [To("Starting") EXCEPT !.observed_active = FALSE,
                                                !.observed_part_end = FALSE,
                                                !.owned_output_unresolved = TRUE]
                /\ Goes("process")
           ELSE rt' = Recovery /\ Errs
  BY DEF Starts
<1>2. /\ HostOnly /\ io.part = "selected" /\ pending = NoUpload /\ rt \in Runtimes
      /\ rt.phase = "Uploaded" /\ conn /\ <<"status", s>> = Head(replies) /\ replies # <<>>
  BY <1>1, GivesEnds
  DEF Gives, Reads, SessionInv, TypeInv, PartInv, LinkInv, Unlinked
<1>3. CASE apply_status(s).phase = "Uploaded"
  <2>1. s = "Idle"
    BY <1>2, <1>3
    DEF apply_status, PartEndSeen, IdleSeen, ActivitySeen, Recovery, To, Runtimes, Owns,
        OwningPhase, Verified
  <2>2. 1 \in DOMAIN replies /\ replies[1] = <<"status", "Idle">>
    BY <1>2, <2>1, Tuples DEF SessionInv, WireInv
  <2>3. exec \notin {"Running", "Paused", "PartEnd"}
    BY <2>2 DEF TransferInv, RunInv
  <2>4. /\ rt'.phase = "Starting" /\ rt'.receipt = rt.receipt /\ ~rt'.observed_part_end
        /\ io'.part = "process"
    <3>1. /\ To("Starting") \in Runtimes /\ To("Starting").phase = "Starting"
          /\ To("Starting").receipt = rt.receipt
      BY <1>2, ToPhase DEF Phase
    <3>2. /\ rt' = [To("Starting") EXCEPT !.observed_active = FALSE,
                                          !.observed_part_end = FALSE,
                                          !.owned_output_unresolved = TRUE]
          /\ Goes("process")
      BY <1>1, <1>3
    <3>3. rt'.phase = "Starting" /\ rt'.receipt = rt.receipt /\ ~rt'.observed_part_end
      BY <3>1, <3>2 DEF Runtimes
    <3>4. io'.part = "process"
      BY <3>2 DEF Goes, Enter
    <3> QED
      BY <3>3, <3>4
  <2>5. CursorInv'
    BY <1>2 DEF CursorInv, HostOnly, ctlVars, NoUpload
  <2>6. Whole(rt.receipt)
    BY <1>2 DEF TransferInv, WholeInv
  <2>7. WholeInv'
    BY <1>2, <2>4, <2>6 DEF WholeInv, Whole, IndexOf, HostOnly, ctlVars
  <2>8. selected \in {rt.receipt, NoName}
    BY <1>2 DEF TransferInv, Choosing
  <2> QED
    BY <1>2, <2>3, <2>4, <2>5, <2>7, <2>8, StageKeeps
<1>4. CASE apply_status(s).phase # "Uploaded"
  <2>1. rt'.phase \in Elsewhere /\ Errs
    BY <1>1, <1>2, <1>4 DEF Recovery, To, Runtimes, Elsewhere
  <2>2. Carries
    BY <2>1 DEF Carries, Elsewhere
  <2> QED
    BY <1>2, <2>1, <2>2, ErrsMove, HostKeepsTransfer
<1> QED
  BY <1>3, <1>4

\* The listing goes on, or the next exchange takes its index from it.
LEMMA ListsKeepTransfer ==
  ASSUME SessionInv, LinkInv, TransferInv, ListGoesOn \/ Inspects \/ Finds
  PROVE  TransferInv'
<1>1. PICK p \in Listings :
        /\ HostOnly /\ pending = NoUpload /\ io.part = p /\ rt' = rt /\ conn' = conn
        /\ io'.part = p \/ io'.part \in {"select", "delete"}
  <2>1. WireInv /\ io \in Operations
    BY DEF SessionInv, TypeInv
  <2>2. CASE ListGoesOn
    <3>1. /\ io.part \in Listings /\ Gives(io.part, Head(replies)) /\ rt' = rt /\ UNCHANGED svcVars
          /\ io' = [io EXCEPT !.await = "send", !.attempt = 0,
                              !.listed = NowListed, !.total = NowTotal]
      BY <2>2 DEF ListGoesOn
    <3>2. HostOnly /\ pending = NoUpload
      BY <2>1, <3>1, GivesEnds
    <3> HIDE DEF NowListed, NowTotal
    <3>3. io'.part = io.part
      BY <2>1, <3>1 DEF Operations
    <3> QED
      BY <3>1, <3>2, <3>3 DEF svcVars
  <2>3. CASE Inspects \/ Finds
    <3>1. PICK p \in {"inspect", "find", "scoped"} :
            /\ Lists(p) /\ (GoesListed("select") \/ GoesListed("delete")) /\ rt' = rt
      BY <2>3 DEF Inspects, Finds
    <3>2. HostOnly /\ pending = NoUpload /\ io.part = p
      BY <2>1, <3>1, ListsEnds
    <3> QED
      BY <3>1, <3>2 DEF GoesListed, svcVars, Listings
  <2> QED
    BY <2>2, <2>3
<1>2. replies' = <<>> /\ UNCHANGED <<files, pending, selected, exec, running, ran>>
  BY <1>1 DEF HostOnly, ctlVars
<1>3. ~Choosing'
  BY <1>1, <1>2 DEF Choosing, Listings
<1>4. CursorInv' /\ WholeInv' /\ RunInv'
  BY <1>1, <1>2
  DEF CursorInv, WholeInv, RunInv, TransferInv, NoUpload, Whole, IndexOf, JobOnMachine,
      Listings
<1> QED
  BY <1>1, <1>2, <1>3, <1>4 DEF TransferInv

\* An acknowledgement before a reply, and a datagram that is to be sent again.
LEMMA ReadsKeepTransfer ==
  ASSUME SessionInv, TransferInv, ReadAck \/ ReadNak
  PROVE  TransferInv'
<1>1. /\ replies # <<>> /\ replies' = Tail(replies)
      /\ UNCHANGED <<files, pending, selected, exec, running, ran, conn, rt>>
      /\ Head(replies) \in {Ack, Nak} /\ io.await = "ack" /\ io \in Operations
  BY DEF ReadAck, ReadNak, Reads, SessionInv, TypeInv, ctlVars, svcVars
<1>2. io'.part = io.part /\ (ReadNak => io'.await = "send")
  BY <1>1 DEF ReadAck, ReadNak, Operations
<1>3. ReadAck => io.part \in Statuses \cup Listings \cup {"card"}
  BY DEF ReadAck, ExpectsReply
<1>4. /\ \A i \in DOMAIN replies' : \E j \in DOMAIN replies : replies'[i] = replies[j]
      /\ ReadNak => replies = <<Nak>> /\ replies' = <<>>
      /\ io.part \in {"chunk", "select"} => replies' = <<>>
  <2>1. CASE replies = <<Head(replies)>>
    <3>1. replies' = <<>>
      BY <1>1, <2>1, Tuples
    <3> QED
      BY <2>1, <3>1, Tuples DEF ReadNak, Reads
  <2>2. CASE replies = <<Ack, replies[2]>>
    <3>1. PICK r : replies = <<Ack, r>>
      BY <2>2
    <3>2. replies' = <<r>> /\ 2 \in DOMAIN replies /\ replies[2] = r /\ Head(replies) = Ack
      BY <1>1, <3>1, Tuples
    <3>3. \A i \in DOMAIN replies' : replies'[i] = r
      BY <3>2
    <3>4. ~ReadNak
      BY <3>2 DEF ReadNak, Reads, Ack, Nak
    <3> QED
      BY <1>3, <3>2, <3>3, <3>4 DEF Statuses, Listings
  <2> QED
    BY <1>1, <2>1, <2>2 DEF SessionInv, WireInv
<1>5. CursorInv'
  <2>1. CASE ReadAck
    <3>1. ~(conn /\ pending # NoUpload /\ ~rt.ambiguous)
      BY <1>3, <2>1, OpenParts DEF Statuses, Listings
    <3> QED
      BY <1>1, <3>1 DEF CursorInv, NoUpload
  <2>2. CASE ReadNak
    <3>1. replies = <<Nak>> /\ replies' = <<>> /\ io'.await = "send"
      BY <1>2, <1>4, <2>2
    <3> QED
      BY <1>1, <1>2, <3>1 DEF CursorInv, TransferInv, NoUpload
  <2> QED
    BY <2>1, <2>2
<1>6. WholeInv'
  BY <1>1, <1>2, <1>4 DEF WholeInv, TransferInv, Whole, IndexOf
<1>7. Choosing' => selected \in {rt.receipt, NoName}
  BY <1>1, <1>2, <1>4 DEF Choosing, TransferInv
<1>8. RunInv'
  BY <1>1, <1>4 DEF RunInv, TransferInv, JobOnMachine
<1> QED
  BY <1>1, <1>5, <1>6, <1>7, <1>8 DEF TransferInv, IndexOf

(***************************************************************************)
(* A datagram sent keeps the transfer.                                     *)
(***************************************************************************)

\* Sent to a pending upload, it is the file's next chunk or its terminator.
LEMMA SentToUpload ==
  ASSUME SessionInv, TransferInv, conn, pending # NoUpload, io.await = "send"
  PROVE  /\ rt.phase = "Uploading" /\ rt.cursor.stage = "Chunks" /\ ~rt.ambiguous
         /\ pending.name = rt.cursor.name
         /\ \/ io.part = "eof" /\ Request = <<"eof">>
            \/ /\ io.part = "chunk" /\ Request = <<"chunk", pending.next + 1>>
               /\ pending.next = rt.cursor.acked /\ pending.whole
<1>1. io.part \in Parts /\ io.part # "none"
  BY DEF SessionInv, TypeInv, Operations, PartInv
<1>2. ~rt.ambiguous
  BY <1>1 DEF SessionInv, PartInv
<1>3. /\ rt.phase = "Uploading" /\ rt.cursor.stage = "Chunks" /\ io.part \in {"chunk", "eof"}
  BY <1>1, <1>2 DEF SessionInv, PendInv
<1>4. /\ pending.name = rt.cursor.name
      /\ io.part = "chunk" => pending.next = rt.cursor.acked /\ pending.whole
  BY <1>2 DEF TransferInv, CursorInv
<1> QED
  BY <1>1, <1>2, <1>3, <1>4, RequestOf

\* An upload takes what is sent to it.
LEMMA DataKeepsTransfer ==
  ASSUME SessionInv, LinkInv, TransferInv, Send, Receives(Request), pending # NoUpload
  PROVE  TransferInv'
<1> DEFINE expected == Request = <<"chunk", pending.next + 1>>
           whole == pending.whole /\ expected
           next == IF expected THEN pending.next + 1 ELSE pending.next
           file == [name |-> pending.name, whole |-> whole]
<1>1. /\ io.await = "send" /\ replies = <<>> /\ rt' = rt /\ conn' = conn /\ TypeInv
      /\ io'.part = io.part /\ io'.await = "ack"
      /\ pending \in [name : Names, next : Nat, whole : BOOLEAN] /\ files \in Seq(File)
  BY SendsIo DEF Send, SessionInv, WireInv, svcVars, TypeInv
<1>2. /\ replies' = <<Ack>> /\ UNCHANGED <<selected, exec, running, ran>>
      /\ IF Request \in {<<"chunk", Chunks>>, <<"eof">>}
         THEN files' = Append(files, file) /\ pending' = NoUpload
         ELSE /\ pending' = [pending EXCEPT !.whole = whole, !.next = next]
              /\ files' = files
  BY <1>1, OnQuietLine DEF Receives, TakesAsData, Answers
<1>3. /\ conn => rt.phase = "Uploading" /\ io.part \in {"eof", "chunk"}
      /\ ~conn => io.part \in Unlinked
  BY <1>1, SentToUpload DEF LinkInv
<1>4. ~Choosing' /\ RunInv'
  <2>1. ~Choosing'
    BY <1>1, <1>3 DEF Choosing, Unlinked
  <2>2. \A i \in DOMAIN replies' : replies'[i] # <<"status", "Idle">>
    BY <1>2 DEF Ack
  <2> QED
    BY <1>1, <1>3, <2>1, <2>2 DEF RunInv, OwningPhase
<1>5. CASE pending' # NoUpload
  <2>1. /\ files' = files /\ pending' = [pending EXCEPT !.whole = whole, !.next = next]
        /\ Request \notin {<<"chunk", Chunks>>, <<"eof">>}
    BY <1>2, <1>5
  <2>2. IndexOf(pending.name)' = {}
    BY <1>1, <2>1 DEF TransferInv, IndexOf
  <2>3. CursorInv'
    <3> SUFFICES ASSUME conn PROVE CursorInv'
      BY <1>1 DEF CursorInv
    <3>1. /\ io.part = "chunk" /\ Request = <<"chunk", pending.next + 1>>
          /\ pending.next = rt.cursor.acked /\ pending.whole
          /\ pending.name = rt.cursor.name
      BY <1>1, <2>1, SentToUpload
    <3>2. pending'.name = rt.cursor.name /\ pending'.whole
          /\ pending'.next = rt.cursor.acked + 1
      BY <1>1, <2>1, <3>1
    <3>3. replies' # <<Nak>>
      BY <1>2 DEF Ack, Nak
    <3> QED
      BY <1>1, <3>1, <3>2, <3>3 DEF CursorInv
  <2>4. WholeInv'
    <3>1. conn /\ io.part = "chunk" => rt.cursor.acked + 1 # Chunks
      BY <1>1, <2>1, SentToUpload
    <3>2. conn => rt.cursor.stage = "Chunks" /\ rt.phase = "Uploading"
      BY <1>1, SentToUpload
    <3> QED
      BY <1>1, <3>1, <3>2 DEF WholeInv, TransferInv, OwningPhase
  <2>5. pending'.name = pending.name
    BY <1>1, <2>1
  <2> QED
    BY <1>4, <2>2, <2>3, <2>4, <2>5 DEF TransferInv, IndexOf
<1>6. CASE pending' = NoUpload
  <2>1. CursorInv'
    BY <1>6 DEF CursorInv, NoUpload
  <2>2. WholeInv'
    <3>1. conn => rt.cursor.stage = "Chunks" /\ rt.phase = "Uploading"
      BY <1>1, SentToUpload
    <3>2. ASSUME conn, io.part = "chunk" PROVE Whole(rt.cursor.name)'
      <4>1. /\ Request = <<"chunk", pending.next + 1>> /\ pending.whole
            /\ pending.name = rt.cursor.name
        BY <1>1, <3>2, SentToUpload
      <4>2. files' = Append(files, file) /\ file.whole /\ file \in File
        <5>1. pending' # [pending EXCEPT !.whole = whole, !.next = next]
          BY <1>1, <1>6, RuidaControllerAssumption DEF NoUpload
        <5> QED
          BY <1>1, <1>2, <4>1, <5>1 DEF File, AnyName
      <4>3. \A i \in DOMAIN files : files[i].name # rt.cursor.name
        BY <4>1 DEF TransferInv, IndexOf
      <4> HIDE DEF file
      <4>4. \A i \in DOMAIN files' : (i \in DOMAIN files /\ files'[i] = files[i]) \/ files'[i] = file
        BY <1>1, <4>2, AppendKeeps
      <4> QED
        BY <1>1, <4>2, <4>3, <4>4 DEF Whole, IndexOf
    <3> QED
      BY <1>1, <3>1, <3>2 DEF WholeInv, TransferInv, OwningPhase
  <2> QED
    BY <1>4, <1>6, <2>1, <2>2 DEF TransferInv
<1> QED
  BY <1>5, <1>6

\* A datagram that neither carries file data nor is acknowledged as a chunk.
LEMMA CommandFrame ==
  ASSUME TransferInv, rt' = rt, conn' = conn, io'.part = io.part, pending' = NoUpload,
         \A n : Whole(n) => Whole(n)',
         io.part = "chunk" => replies' # <<Ack>>,
         Choosing' => selected' \in {rt.receipt, NoName},
         RunInv'
  PROVE  TransferInv'
<1>1. CursorInv'
  BY DEF CursorInv, NoUpload
<1>2. WholeInv'
  BY DEF WholeInv, TransferInv
<1> QED
  BY <1>1, <1>2 DEF TransferInv

\* An answer that is no status, to a datagram that runs nothing.
LEMMA RunStays ==
  ASSUME TransferInv, UNCHANGED <<rt, conn, exec, running, ran>>,
         replies' \in {<<Ack>>, <<Err>>, <<Nak>>, <<>>}
  PROVE  RunInv'
<1>1. \A i \in DOMAIN replies' :
        replies'[i] \notin {<<"status", "PartEnd">>, <<"status", "Idle">>}
  BY DEF Ack, Err, Nak
<1> QED
  BY <1>1 DEF RunInv, TransferInv, JobOnMachine

\* What asks, selects, deletes or starts.
LEMMA RequestPart ==
  ASSUME io.part \in Parts
  PROVE  /\ io.part = "select" => Request[1] = "select"
         /\ io.part = "chunk" => Request[1] = "chunk"
         /\ Request[1] \in {"select", "delete", "announce"} => io.part = Request[1]
<1>1. CASE io.part \in Statuses \cup Listings
  BY <1>1 DEF Request, Listings, Statuses
<1>2. CASE io.part \notin Statuses \cup Listings
  BY <1>2 DEF Request, Parts, ProcessAction, Listings, Statuses
<1> QED
  BY <1>1, <1>2

\* A controller without an upload takes what is sent for a command.
LEMMA CommandKeepsTransfer ==
  ASSUME "delete" \notin Faults,
         SessionInv, StoreInv, TransferInv, Send, Receives(Request), pending = NoUpload
  PROVE  TransferInv'
<1>1. /\ io.await = "send" /\ replies = <<>> /\ rt' = rt /\ conn' = conn /\ TypeInv
      /\ io'.part = io.part /\ io'.await = "ack" /\ io.part \in Parts
      /\ files \in Seq(File)
  BY SendsIo DEF Send, SessionInv, WireInv, svcVars, TypeInv, Operations
<1>2. /\ io.part = "select" => Request[1] = "select"
      /\ io.part = "chunk" => Request[1] = "chunk"
      /\ Request[1] \in {"select", "delete", "announce"} => io.part = Request[1]
  BY <1>1, RequestPart
<1>3. io.part \notin Unlinked => conn
  BY DEF StoreInv, LinkInv
<1>4. UNCHANGED files => \A n : Whole(n) => Whole(n)'
  BY DEF Whole, IndexOf
<1>5. Ack # Err /\ Ack # Nak
  BY DEF Ack, Err, Nak
<1>12. ~io.stale
  BY DEF StoreInv, ListInv
<1>6. CASE Refuses
  <2>1. UNCHANGED ctlVars /\ replies' = <<Err>>
    BY <1>1, <1>6, OnQuietLine DEF Refuses, Answers
  <2>2. RunInv'
    BY <1>1, <2>1, RunStays DEF ctlVars
  <2>3. Choosing' => Choosing
    BY <1>1, <1>5, <2>1 DEF Choosing
  <2> QED
    BY <1>1, <1>4, <1>5, <2>1, <2>2, <2>3, CommandFrame DEF ctlVars, TransferInv
<1>7. CASE Reports(Request)
  <2>1. UNCHANGED ctlVars /\ Request[1] \notin {"select", "chunk"}
    BY <1>7 DEF Reports
  <2>2. RunInv'
    <3>1. CASE replies' = <<Ack>> \/ replies' = <<Err>>
      BY <1>1, <2>1, <3>1, RunStays DEF ctlVars
    <3>2. ASSUME NEW r, replies' = <<Ack, r>>, r[1] = "status" => r = <<"status", exec>>
          PROVE  RunInv'
      <4>1. /\ r = <<"status", "PartEnd">> => exec = "PartEnd"
            /\ r = <<"status", "Idle">> => exec = "Idle"
        BY <3>2
      <4>2. \A i \in DOMAIN replies' : replies'[i] = Ack \/ replies'[i] = r
        BY <3>2
      <4>3. Ack \notin {<<"status", "PartEnd">>, <<"status", "Idle">>}
        BY DEF Ack
      <4> QED
        BY <1>1, <2>1, <4>1, <4>2, <4>3 DEF RunInv, TransferInv, JobOnMachine, ctlVars
    <3>3. Plain(Request)
      BY <1>1, RequestOf
    <3> QED
      BY <1>1, <3>1, <3>2, <3>3, Answered
  <2>3. Choosing' => Choosing
    BY <1>1, <1>2, <2>1 DEF Choosing
  <2> QED
    BY <1>1, <1>2, <1>4, <2>1, <2>2, <2>3, CommandFrame DEF ctlVars, TransferInv
<1>8. CASE OpensUpload(Request) /\ ~Refuses
  <2>1. /\ Request[1] = "announce" /\ io.part = "announce" /\ Request[2] = rt.cursor.name
        /\ IndexOf(Request[2]) = {} /\ replies' = <<Ack>>
        /\ pending' = [name |-> Request[2], next |-> 0, whole |-> TRUE]
        /\ UNCHANGED <<files, selected, exec, speed, running>>
    BY <1>1, <1>2, <1>8, RequestOf, OnQuietLine DEF OpensUpload, Answers
  <2>2. rt.phase = "Uploading" /\ rt.cursor.stage = "AnnounceFile"
    BY <2>1 DEF SessionInv, PartInv
  <2>3. pending'.name = rt.cursor.name /\ pending'.next = 0 /\ pending'.whole
    BY <2>1
  <2>4. IndexOf(pending.name)' = {}
    BY <2>1 DEF IndexOf
  <2>5. CursorInv'
    BY <1>1, <2>1, <2>3 DEF CursorInv
  <2>6. WholeInv'
    BY <1>1, <2>1, <2>2 DEF WholeInv, TransferInv, OwningPhase
  <2>7. RunInv'
    <3>1. \A i \in DOMAIN replies' : replies'[i] # <<"status", "Idle">>
      BY <2>1 DEF Ack
    <3> QED
      BY <1>1, <2>2, <3>1 DEF RunInv, OwningPhase
  <2>8. ~Choosing'
    BY <1>1, <2>1 DEF Choosing
  <2> QED
    BY <2>4, <2>5, <2>6, <2>7, <2>8 DEF TransferInv
<1>9. CASE Deletes(Request) /\ ~Refuses
  <2>1. /\ Removes(Request[2]) /\ Request[2] \in DOMAIN files /\ replies' = <<Ack>>
        /\ io.part = "delete"
    BY <1>1, <1>2, <1>9, OnQuietLine DEF Deletes, Answers
  <2>2. UNCHANGED <<pending, exec, running, ran>> /\ files' = Without(Request[2])
    BY <2>1 DEF Removes
  <2>3. \A n : Whole(n) => Whole(n)'
    <3>1. \A j \in DOMAIN files' : \E k \in DOMAIN files : files'[j] = files[k]
      BY <1>1, <2>1, <2>2, WithoutKeeps
    <3> QED
      BY <3>1 DEF Whole, IndexOf
  <2>4. RunInv'
    BY <1>1, <2>1, <2>2, RunStays
  <2>5. ~Choosing'
    BY <1>1, <2>1 DEF Choosing
  <2> QED
    BY <1>1, <2>1, <2>2, <2>3, <2>4, <2>5, CommandFrame
<1>10. CASE Selects(Request) /\ ~Refuses
  <2>1. /\ Request[1] = "select" /\ Request[2] \in DOMAIN files /\ replies' = <<Ack>>
        /\ selected' = NameAt(Request[2]) /\ io.part = "select"
        /\ UNCHANGED <<files, pending, exec, running, ran>>
    BY <1>1, <1>2, <1>10, OnQuietLine DEF Selects, Answers
  <2>2. selected' = rt.receipt
    BY <1>1, <1>12, <2>1, RequestIsOurs DEF NameAt
  <2>3. RunInv'
    BY <1>1, <2>1, RunStays
  <2> QED
    BY <1>1, <1>4, <2>1, <2>2, <2>3, CommandFrame
<1>11. CASE (Processes(Request) \/ Moves(Request)) /\ ~Refuses
  <2>1. /\ UNCHANGED <<files, pending, selected, ran>> /\ replies' = <<Ack>>
        /\ Request[1] \notin {"select", "chunk"}
    BY <1>1, <1>11, OnQuietLine DEF Processes, Moves, Runs, Turns, Answers
  <2>2. \/ Request = <<"Start">> /\ Runs(selected, TRUE) /\ IndexOf(selected) # {}
        \/ exec' \in {"Idle", "ManualMotion"}
        \/ exec \in {"Running", "Paused"} /\ exec' \in {"Running", "Paused"} /\ running' = running
    BY <1>11 DEF Processes, Moves, Turns
  <2>3. \A i \in DOMAIN replies' :
          replies'[i] \notin {<<"status", "PartEnd">>, <<"status", "Idle">>}
    BY <2>1 DEF Ack
  <2>4. RunInv'
    <3>1. CASE Request = <<"Start">> /\ Runs(selected, TRUE) /\ IndexOf(selected) # {}
      <4>1. io.part = "process" /\ rt.phase = "Starting"
        BY <1>1, <3>1, RequestOf
      <4>2. selected = rt.receipt
        <5>1. PICK i \in DOMAIN files : files[i].name = selected
          BY <3>1 DEF IndexOf
        <5>2. files[i] \in File /\ NoName \notin AnyName
          BY <1>1, RuidaControllerAssumption DEF AnyName
        <5>3. selected # NoName
          BY <5>1, <5>2 DEF File
        <5> QED
          BY <4>1, <5>3 DEF TransferInv, Choosing
      <4>3. Whole(selected)
        BY <1>3, <4>1, <4>2 DEF TransferInv, WholeInv, OwningPhase, Unlinked
      <4>4. exec' = "Running" /\ running'.name = rt.receipt /\ running'.whole
        BY <3>1, <4>2, <4>3 DEF Runs, Whole
      <4> QED
        BY <1>1, <2>1, <2>3, <4>4 DEF RunInv, TransferInv
    <3>2. CASE exec' \in {"Idle", "ManualMotion"}
      BY <1>1, <2>1, <2>3, <3>2 DEF RunInv, TransferInv, JobOnMachine
    <3>3. CASE exec \in {"Running", "Paused"} /\ exec' \in {"Running", "Paused"} /\ running' = running
      BY <1>1, <2>1, <2>3, <3>3 DEF RunInv, TransferInv, JobOnMachine
    <3> QED
      BY <2>2, <3>1, <3>2, <3>3
  <2>5. Choosing' => Choosing
    BY <1>1, <1>2, <2>1 DEF Choosing
  <2> QED
    BY <1>1, <1>2, <1>4, <2>1, <2>4, <2>5, CommandFrame DEF TransferInv
<1> QED
  BY <1>6, <1>7, <1>8, <1>9, <1>10, <1>11 DEF Receives

LEMMA SendKeepsTransfer ==
  ASSUME "delete" \notin Faults, SessionInv, StoreInv, TransferInv, Send
  PROVE  TransferInv'
<1>1. CASE Receives(Request)
  BY <1>1, DataKeepsTransfer, CommandKeepsTransfer DEF StoreInv
<1>2. CASE UNCHANGED ctlVars /\ replies' \in {<<>>, <<Nak>>}
  <2>1. /\ io.await = "send" /\ replies = <<>> /\ rt' = rt /\ conn' = conn
        /\ io'.part = io.part /\ io'.await = "ack" /\ io.part # "none"
    BY SendsIo DEF Send, SessionInv, WireInv, svcVars, TypeInv, PartInv
  <2>2. UNCHANGED <<files, pending, selected, exec, running, ran>>
    BY <1>2 DEF ctlVars
  <2>3. replies' # <<Ack>>
    BY <1>2 DEF Ack, Nak
  <2>4. RunInv'
    BY <1>2, <2>1, <2>2, RunStays
  <2>5. CursorInv'
    BY <2>1, <2>2, <2>3 DEF CursorInv, TransferInv, NoUpload
  <2>6. WholeInv'
    BY <2>1, <2>2, <2>3 DEF WholeInv, TransferInv, Whole, IndexOf
  <2>7. Choosing' => Choosing
    BY <2>1, <2>3 DEF Choosing
  <2> QED
    BY <2>1, <2>2, <2>4, <2>5, <2>6, <2>7 DEF TransferInv, IndexOf
<1> QED
  BY <1>1, <1>2, OnQuietLine DEF Send, Answers, SessionInv, WireInv

\* The machine and what surrounds it, where nobody starts or deletes anything.
LEMMA AroundKeepsTransfer ==
  ASSUME Lockstep, {"start", "delete"} \cap Faults = {}, SessionInv, StoreInv, TransferInv,
         (Machine \/ Surroundings) /\ UNCHANGED HostVars
  PROVE  TransferInv'
<1>1. rt' = rt /\ io' = io /\ conn' = conn
  BY DEF HostVars, svcVars
<1>9. CASE PanelCopies
  <2>1. PICK n \in Stored : files' = Append(files, [name |-> n, whole |-> TRUE])
    BY <1>9 DEF PanelCopies
  <2>2. /\ pending = NoUpload /\ UNCHANGED <<pending, selected, exec, running, ran, replies>>
    BY <1>9 DEF PanelCopies, AtPanel
  <2>3. /\ files \in Seq(File) /\ DOMAIN files = 1..Len(files) /\ Len(files) \in Nat
        /\ DOMAIN files' = 1..(Len(files) + 1)
        /\ \A i \in DOMAIN files : files'[i] = files[i]
        /\ files'[Len(files) + 1].whole
    BY <2>1, LenProperties, AppendProperties DEF SessionInv, TypeInv
  <2>4. \A i \in DOMAIN files' : (i \in DOMAIN files /\ files'[i] = files[i]) \/ files'[i].whole
    BY <2>3
  <2>5. \A m : Whole(m) => Whole(m)'
    BY <2>4 DEF Whole, IndexOf
  <2>6. CursorInv'
    BY <2>2 DEF CursorInv
  <2>7. WholeInv'
    BY <1>1, <2>2, <2>5 DEF WholeInv, TransferInv
  <2>8. RunInv'
    BY <1>1, <2>2 DEF RunInv, TransferInv, JobOnMachine
  <2>9. Choosing' => Choosing
    BY <1>1, <2>2 DEF Choosing
  <2> QED
    BY <1>1, <2>2, <2>6, <2>7, <2>8, <2>9 DEF TransferInv
<1> SUFFICES ASSUME ~PanelCopies PROVE TransferInv'
  BY <1>9
<1>2. /\ files' = files /\ selected' \in {selected, NoName} /\ pending' \in {pending, NoUpload}
      /\ \/ UNCHANGED <<exec, running, ran>>
         \/ exec' \in {"Idle", "Unknown"} /\ ran' = ran
         \/ /\ exec \in {"Running", "Paused"} /\ exec' \in {"Running", "Paused"}
            /\ UNCHANGED <<running, ran>>
         \/ FinishesRun
  BY DEF Machine, Surroundings, FinishesRun, Settles, Turns, LosesReply, DeliversTwice, Swaps,
         Resets, PanelPauses, PanelResumes, PanelStops, PanelStarts,
         PanelShowsUnknown, AtPanel, Fault, Runs, ctlVars
<1>3. /\ \A i \in DOMAIN replies' : \E j \in DOMAIN replies : replies'[i] = replies[j]
      /\ replies' = <<Nak>> => replies = <<Nak>>
      /\ replies' = <<Ack>> => replies = <<Ack>> \/ ExpectsReply
  <2>1. CASE replies' = replies
    BY <2>1
  <2>2. CASE replies' = <<>>
    BY <2>2
  <2>3. CASE replies = <<Ack, replies[2]>> /\ replies' \in {<<Ack>>, <<replies[2]>>}
    <3>1. PICK r : replies = <<Ack, r>> /\ replies' \in {<<Ack>>, <<r>>}
      BY <2>3
    <3>2. r \notin Bare /\ ExpectsReply
      BY <3>1, Tuples DEF SessionInv, WireInv, Told
    <3>3. PICK q \in {Ack, r} : replies' = <<q>>
      BY <3>1
    <3>4. q # Nak
      BY <3>2 DEF Bare, Ack, Nak
    <3>5. \A i \in DOMAIN replies' : replies'[i] = q
      BY <3>3
    <3>6. 1 \in DOMAIN replies /\ 2 \in DOMAIN replies /\ replies[1] = Ack /\ replies[2] = r
      BY <3>1
    <3> QED
      BY <3>2, <3>3, <3>4, <3>5, <3>6
  <2> QED
    BY <2>1, <2>2, <2>3, LineAround DEF SessionInv, HostVars
<1>4. io.part \in {"chunk", "select"} => ~ExpectsReply
  BY DEF ExpectsReply, Statuses, Listings
<1>5. CursorInv'
  <2> SUFFICES ASSUME conn, pending # NoUpload, ~rt.ambiguous, pending' = pending
               PROVE  CursorInv'
    BY <1>1, <1>2 DEF CursorInv, NoUpload
  <2> QED
    BY <1>1, <1>3, <1>4 DEF CursorInv, TransferInv
<1>6. WholeInv'
  BY <1>1, <1>2, <1>3, <1>4 DEF WholeInv, TransferInv, Whole, IndexOf
<1>7. Choosing' => selected' \in {rt.receipt, NoName}
  BY <1>1, <1>2, <1>3, <1>4 DEF Choosing, TransferInv
<1>8. RunInv'
  <2>1. CASE UNCHANGED <<exec, running, ran>>
    BY <1>1, <1>3, <2>1 DEF RunInv, TransferInv, JobOnMachine
  <2>2. CASE exec' \in {"Idle", "Unknown"} /\ ran' = ran
    BY <1>1, <1>3, <2>2 DEF RunInv, TransferInv, JobOnMachine
  <2>3. CASE /\ exec \in {"Running", "Paused"} /\ exec' \in {"Running", "Paused"}
             /\ UNCHANGED <<running, ran>>
    BY <1>1, <1>3, <2>3 DEF RunInv, TransferInv, JobOnMachine
  <2>4. CASE FinishesRun
    <3>1. /\ exec = "Running" /\ exec' = "PartEnd" /\ running' = running
          /\ ran' = IF running.whole /\ running.name \in Names THEN ran \cup {running.name}
                                                               ELSE ran
      BY <2>4 DEF FinishesRun
    <3>2. conn /\ rt.phase \in OwningPhase => rt.receipt \in ran'
      BY <3>1 DEF TransferInv, RunInv, JobOnMachine, StoreInv, ReceiptInv
    <3>3. ran \subseteq ran'
      BY <3>1
    <3> QED
      BY <1>1, <1>3, <3>1, <3>2, <3>3 DEF RunInv, TransferInv, JobOnMachine
  <2> QED
    BY <1>2, <2>1, <2>2, <2>3, <2>4
<1> QED
  BY <1>1, <1>2, <1>5, <1>6, <1>7, <1>8 DEF TransferInv, IndexOf

LEMMA TransferInit == Init => TransferInv
<1> SUFFICES ASSUME Init PROVE TransferInv
  OBVIOUS
<1>1. /\ rt.phase = "Disconnected" /\ io.part = "none" /\ replies = <<>>
      /\ pending = NoUpload
  BY DEF Init, ControllerInit, Fresh, NoIo
<1> QED
  BY <1>1 DEF TransferInv, CursorInv, WholeInv, Choosing, RunInv, OwningPhase

LEMMA TransferStep ==
  ASSUME Lockstep, {"start", "delete"} \cap Faults = {},
         SessionInv, SessionInv', StoreInv, TransferInv, [Next]_vars
  PROVE  TransferInv'
<1>1. LinkInv
  BY DEF StoreInv
<1>2. CASE Exchange
  <2>1. CASE \/ Send \/ ReadAck \/ ReadNak \/ ListGoesOn \/ Inspects \/ Finds
             \/ Begins \/ Announces \/ SendsChunk \/ Verifies \/ Starts
    BY <1>1, <2>1, SendKeepsTransfer, ReadsKeepTransfer, ListsKeepTransfer,
       BeginsKeepTransfer, AnnouncesKeepTransfer, ChunksKeepTransfer,
       VerifiesKeepTransfer, StartsKeepTransfer
  <2>2. CASE ~(\/ Send \/ ReadAck \/ ReadNak \/ ListGoesOn \/ Inspects \/ Finds
               \/ Begins \/ Announces \/ SendsChunk \/ Verifies \/ Starts)
    <3>1. HostStep
      BY <1>1, <1>2, <2>2, FailuresMove, ExchangesMove, StatusesMove, PollFailsMoves,
         EndingsMove
      DEF Exchange
    <3>2. Carries
      BY <1>1, <1>2, <2>2, StepsCarry DEF Exchange
    <3> QED
      BY <1>1, <3>1, <3>2, HostKeepsTransfer
  <2> QED
    BY <2>1, <2>2
<1>3. CASE Begin
  BY <1>1, <1>3, BeginningsMove, StepsCarry, HostKeepsTransfer
<1>4. CASE (Machine \/ Surroundings) /\ UNCHANGED HostVars
  BY <1>4, AroundKeepsTransfer
<1>5. CASE UNCHANGED vars
  <2>1. UNCHANGED <<ctlVars, replies, svcVars, rt, io>>
    BY <1>5 DEF vars, svcVars
  <2> QED
    BY <2>1
    DEF TransferInv, CursorInv, WholeInv, Choosing, RunInv, Whole, IndexOf, JobOnMachine,
        NoUpload, ctlVars, svcVars
<1>6. ~PanelAges
  BY DEF PanelAges, PanelRemoves, AtPanel, Fault
<1> QED
  BY <1>2, <1>3, <1>4, <1>5, <1>6 DEF Next, HostVars

\* As long as nobody deletes or starts files at the panel, what was announced is what is
\* stored, selected and run (advance_upload, queue_uploaded, start).
THEOREM TransferCorrect ==
  ASSUME Lockstep, {"start", "delete"} \cap Faults = {}
  PROVE  Spec => []TransferInv
<1>1. SessionInv /\ SessionInv' /\ StoreInv /\ TransferInv /\ [Next]_vars => TransferInv'
  BY TransferStep
<1>2. Spec => []StoreInv
  BY StoreCorrect
<1> QED
  BY <1>1, <1>2, TransferInit, SessionCorrect, PTL DEF Spec

\* In lockstep, and as long as nobody deletes or starts files at the panel, a job reported
\* Completed was executed by the controller, every byte of it, to its end (apply_status).
THEOREM RuidaCompletedMeansRan ==
  ASSUME Lockstep, {"start", "delete"} \cap Faults = {}
  PROVE  Spec => []CompletedMeansRan
<1>1. TransferInv => CompletedMeansRan
  BY DEF TransferInv, RunInv, CompletedMeansRan
<1> QED
  BY <1>1, TransferCorrect, PTL
=============================================================================
