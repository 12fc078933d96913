-------------------------- MODULE RuidaController --------------------------
(***************************************************************************)
(* A Ruida controller and the UDP line to it: RuidaVirtualController       *)
(* (beambench-ruida/src/virtual_controller.rs), which the repository takes *)
(* as its definition of the machine, with what a UDP line, a reset and an  *)
(* operator at its panel may do added to it.  A datagram is answered by an *)
(* acknowledgement and, if it asks for something, by a reply; neither      *)
(* carries a sequence number.  After a file has been announced, every      *)
(* datagram is file data until one ends with the end-of-file byte.         *)
(***************************************************************************)
EXTENDS Naturals, Sequences, FiniteSets

CONSTANTS
  Names,                \* file names of Beam Bench's uploads
  Stored,               \* names of other people's files
  NoName,
  Chunks,               \* datagrams of a job
  MAX_CONTROLLER_FILES,
  PanelDeletes,         \* files the operator may delete
  Faults, MaxFaults     \* what the line, a reset and the panel may do, and how often

ASSUME RuidaControllerAssumption ==
  /\ Names \cap Stored = {} /\ NoName \notin Names \cup Stored
  /\ IsFiniteSet(Stored)
  /\ Chunks \in Nat \ {0}
  /\ MAX_CONTROLLER_FILES \in Nat
  /\ Faults \subseteq {"lost_send", "garbled", "lost_reply", "twice", "swapped",
                       "late", "reset", "pause", "resume", "stop", "start", "delete",
                       "copy", "unknown"}
  /\ PanelDeletes \subseteq Names \cup Stored
  /\ MaxFaults \in Nat

VARIABLES
  files,        \* in the order of their indices
  pending,      \* pending_upload
  selected,     \* selected_filename
  exec,         \* execution_state, which is what the status shows
  speed,        \* a jog speed has been set
  replies,      \* datagrams the host has not read
  running,      \* the file executing, and if the host started it
  ran,          \* names of uploads executed whole, to their end
  begun,        \* names of uploads the host has started
  faults

ctlVars == <<files, pending, selected, exec, speed, running, ran, begun>>

AnyName == Names \cup Stored
File == [name : AnyName, whole : BOOLEAN]
NoUpload == [name |-> NoName, next |-> 0, whole |-> FALSE]
NoRun == [name |-> NoName, whole |-> FALSE, owned |-> FALSE]

Exec == {"Idle", "Running", "Paused", "PartEnd", "ManualMotion", "Unknown"}

Ack == <<"ack">>
Nak == <<"nak">>
Err == <<"err">>

NameAt(i) == IF i \in DOMAIN files THEN files[i].name ELSE NoName
IndexOf(n) == {i \in DOMAIN files : files[i].name = n}
Without(i) == SubSeq(files, 1, i - 1) \o SubSeq(files, i + 1, Len(files))
JobOnMachine == exec \in {"Running", "Paused"}

ControllerTypeOK ==
  /\ files \in Seq(File)
  /\ Len(files) <= MAX_CONTROLLER_FILES
  /\ \A i, j \in DOMAIN files : files[i].name = files[j].name => i = j
  /\ pending = NoUpload
       \/ pending \in [name : Names, next : 0..Chunks, whole : BOOLEAN]
  /\ selected \in AnyName \cup {NoName}
  /\ exec \in Exec
  /\ speed \in BOOLEAN
  /\ running \in [name : AnyName \cup {NoName}, whole : BOOLEAN, owned : BOOLEAN]
  /\ JobOnMachine => running # NoRun
  /\ ran \subseteq Names /\ begun \subseteq Names
  /\ faults \in 0..MaxFaults

ControllerInit ==
  /\ \E n \in 0..Cardinality(Stored) :
       files \in {f \in [1..n -> [name : Stored, whole : {TRUE}]] :
                   \A i, j \in DOMAIN f : f[i].name = f[j].name => i = j}
  /\ pending = NoUpload
  /\ selected = NoName
  /\ exec = "Idle" /\ speed = FALSE
  /\ replies = <<>>
  /\ running = NoRun
  /\ ran = {} /\ begun = {}
  /\ faults = 0

-----------------------------------------------------------------------------
(* A datagram arrives. *)

Answers(rs) == replies' = replies \o rs

Refuses ==
  /\ Answers(<<Err>>)
  /\ UNCHANGED ctlVars

\* receive_upload_chunk: a command is taken for file data, and spoils the file.
TakesAsData(d) ==
  LET expected == d = <<"chunk", pending.next + 1>>
      whole == pending.whole /\ expected
  IN /\ Answers(<<Ack>>)
     /\ IF d \in {<<"chunk", Chunks>>, <<"eof">>}
        THEN /\ files' = Append(files, [name |-> pending.name, whole |-> whole])
             /\ pending' = NoUpload
        ELSE /\ pending' = [pending EXCEPT !.whole = whole,
                                           !.next = IF expected THEN @ + 1 ELSE @]
             /\ UNCHANGED files
     /\ UNCHANGED <<selected, exec, speed, running, ran, begun>>

Reports(d) ==
  /\ d[1] \in {"enq", "card", "status", "count", "name"}
  /\ CASE d = <<"enq">>    -> Answers(<<Ack>>)
       [] d = <<"card">>   -> Answers(<<Ack, <<"card">> >>)
       [] d = <<"status">> -> Answers(<<Ack, <<"status", exec>> >>)
       [] d = <<"count">>  -> Answers(<<Ack, <<"count", Len(files)>> >>)
       [] OTHER            -> Answers(IF d[2] \in DOMAIN files
                                      THEN <<Ack, <<"name", d[2], NameAt(d[2])>> >>
                                      ELSE <<Err>>)
  /\ UNCHANGED ctlVars

OpensUpload(d) ==
  /\ d[1] = "announce"
  /\ IF Len(files) >= MAX_CONTROLLER_FILES \/ IndexOf(d[2]) # {}
     THEN Refuses
     ELSE /\ Answers(<<Ack>>)
          /\ pending' = [name |-> d[2], next |-> 0, whole |-> TRUE]
          /\ ran' = ran \ {d[2]} /\ begun' = begun \ {d[2]}
          /\ UNCHANGED <<files, selected, exec, speed, running>>

Removes(i) ==
  /\ files' = Without(i)
  /\ selected' = IF selected = NameAt(i) THEN NoName ELSE selected
  /\ UNCHANGED <<pending, exec, speed, running, ran, begun>>

Deletes(d) ==
  /\ d[1] = "delete"
  /\ IF d[2] \in DOMAIN files THEN Answers(<<Ack>>) /\ Removes(d[2]) ELSE Refuses

Selects(d) ==
  /\ d[1] = "select"
  /\ IF d[2] \in DOMAIN files
     THEN /\ Answers(<<Ack>>)
          /\ selected' = NameAt(d[2])
          /\ UNCHANGED <<files, pending, exec, speed, running, ran, begun>>
     ELSE Refuses

Runs(n, owned) ==
  /\ exec' = "Running"
  /\ running' = [name |-> n, owned |-> owned,
                 whole |-> \A i \in IndexOf(n) : files[i].whole]
  /\ begun' = IF owned /\ n \in Names THEN begun \cup {n} ELSE begun
  /\ UNCHANGED <<files, pending, selected, speed, ran>>

Turns(state) ==
  /\ exec' = state
  /\ running' = IF state = "Idle" THEN NoRun ELSE running
  /\ UNCHANGED <<files, pending, selected, speed, ran, begun>>

\* apply_process_action: only Stop is accepted in every state.
Processes(d) ==
  \/ /\ d = <<"Start">>
     /\ IF exec = "Idle" /\ IndexOf(selected) # {}
        THEN Answers(<<Ack>>) /\ Runs(selected, TRUE) ELSE Refuses
  \/ /\ d = <<"Stop">>
     /\ Answers(<<Ack>>) /\ Turns("Idle")
  \/ /\ d = <<"Pause">>
     /\ IF exec = "Running" THEN Answers(<<Ack>>) /\ Turns("Paused") ELSE Refuses
  \/ /\ d = <<"Resume">>
     /\ IF exec = "Paused" THEN Answers(<<Ack>>) /\ Turns("Running") ELSE Refuses

\* apply_manual_motion_command.
Moves(d) ==
  \/ /\ d = <<"speed">>
     /\ IF exec = "Idle"
        THEN /\ Answers(<<Ack>>)
             /\ speed' = TRUE
             /\ UNCHANGED <<files, pending, selected, exec, running, ran, begun>>
        ELSE Refuses
  \/ /\ d = <<"home">>
     /\ IF exec = "Idle" THEN Answers(<<Ack>>) /\ Turns("ManualMotion") ELSE Refuses
  \/ /\ d = <<"move">>
     /\ IF exec \in {"Idle", "ManualMotion"} /\ speed
        THEN Answers(<<Ack>>) /\ Turns("ManualMotion") ELSE Refuses

\* File data with no upload pending is no command the controller knows.
Receives(d) ==
  IF pending # NoUpload THEN TakesAsData(d)
  ELSE \/ Reports(d) \/ OpensUpload(d) \/ Deletes(d) \/ Selects(d)
       \/ Processes(d) \/ Moves(d)
       \/ d[1] \in {"chunk", "eof"} /\ Refuses

-----------------------------------------------------------------------------
(* The controller goes on by itself. *)

FinishesRun ==
  /\ exec = "Running"
  /\ exec' = "PartEnd"
  /\ ran' = IF running.whole /\ running.name \in Names THEN ran \cup {running.name}
                                                       ELSE ran
  /\ UNCHANGED <<files, pending, selected, speed, running, begun>>

Settles ==
  /\ exec \in {"PartEnd", "ManualMotion"}
  /\ Turns("Idle")

-----------------------------------------------------------------------------
(* The line, a reset, the panel. *)

Fault(kind) ==
  /\ kind \in Faults
  /\ faults < MaxFaults
  /\ faults' = faults + 1

LosesReply ==
  /\ Fault("lost_reply")
  /\ \E i \in DOMAIN replies :
       replies' = SubSeq(replies, 1, i - 1) \o SubSeq(replies, i + 1, Len(replies))
  /\ UNCHANGED ctlVars

DeliversTwice ==
  /\ Fault("twice")
  /\ \E i \in DOMAIN replies :
       replies' = SubSeq(replies, 1, i) \o SubSeq(replies, i, Len(replies))
  /\ UNCHANGED ctlVars

Swaps ==
  /\ Fault("swapped")
  /\ \E i \in 1..(Len(replies) - 1) :
       replies' = [replies EXCEPT ![i] = replies[i + 1], ![i + 1] = replies[i]]
  /\ UNCHANGED ctlVars

\* reset_controller: completed files remain, everything else is forgotten.
Resets ==
  /\ Fault("reset")
  /\ pending' = NoUpload /\ selected' = NoName
  /\ exec' = "Idle" /\ speed' = FALSE /\ running' = NoRun
  /\ UNCHANGED <<files, ran, begun, replies>>

AtPanel(kind) == Fault(kind) /\ UNCHANGED replies

PanelPauses == AtPanel("pause") /\ exec = "Running" /\ Turns("Paused")
PanelResumes == AtPanel("resume") /\ exec = "Paused" /\ Turns("Running")
PanelStops == AtPanel("stop") /\ JobOnMachine /\ Turns("Idle")
PanelStarts == AtPanel("start") /\ exec = "Idle"
               /\ \E i \in DOMAIN files : Runs(NameAt(i), FALSE)
PanelRemoves == AtPanel("delete") /\ ~JobOnMachine
                /\ \E i \in DOMAIN files : NameAt(i) \in PanelDeletes /\ Removes(i)
\* A file from a memory stick goes behind the others.
PanelCopies == /\ AtPanel("copy") /\ ~JobOnMachine /\ pending = NoUpload
               /\ Len(files) < MAX_CONTROLLER_FILES
               /\ \E n \in Stored : /\ IndexOf(n) = {}
                                    /\ files' = Append(files, [name |-> n, whole |-> TRUE])
               /\ UNCHANGED <<pending, selected, exec, speed, running, ran, begun>>
\* A state whose status bits the target does not list.
PanelShowsUnknown == AtPanel("unknown") /\ exec = "Idle" /\ Turns("Unknown")
=============================================================================
