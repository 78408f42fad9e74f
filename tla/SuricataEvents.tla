----------------------------- MODULE SuricataEvents -----------------------------
(***************************************************************************)
(* The two readers of Suricata's records (k-firewalld/src/ebpf_loader.rs:  *)
(* spawn_suricata_listener, tail_eve_file; suricata.rs).  The listener     *)
(* learns flows and FTP data connections, the alert reader hands alerts    *)
(* over to be blocked.  Both take the eve socket or the file eve.json,     *)
(* each in its own way, while Suricata writes and logrotate renews.        *)
(*                                                                         *)
(* A record is a line; the file grows by parts of lines, and a position in *)
(* it is a number of parts.                                                *)
(***************************************************************************)
EXTENDS Integers, Sequences, FiniteSets, SequencesExt

CONSTANTS
    Log,       \* what Suricata reports, in order: an "alert" to block for, or something "else"
    Configs,   \* which of eve_socket and eve_file are configured
    Tries,     \* attempts to connect before the file is taken (5 in the code)
    Renewals   \* bound: how often the file is renamed or truncated

ASSUME BoundsAssumption ==
    /\ Log \in Seq({"alert", "else"})
    /\ Configs \subseteq [sock : BOOLEAN, file : BOOLEAN]
    /\ Tries \in Nat \ {0}
    /\ Renewals \in Nat

Record == DOMAIN Log
Part   == Record \X {"head", "rest"}
Parts  == BoundedSeq(Part, 2 * Len(Log))

VARIABLES
    config,    \* eve_socket, eve_file
    written,   \* the number of records Suricata has begun to write
    file,      \* what the path eve.json leads to, a sequence of parts
    moved,     \* the file that was renamed away while the alert reader had it open
    exists,    \* whether there is a file eve.json
    sock,      \* whether Suricata accepts connections
    renewals,  \* how often the file has been renewed
    listener,  \* the listener: where it is, its attempts, last_pos, len
    alerts,    \* the alert reader: where it is, its attempts, its place in which file;
               \* history: whether that was truncated
    learnt,    \* how often the listener has processed each record
    handed,    \* the alerts handed over, in order
    late,      \* history: records completed while the listener was reading
    excused,   \* history: records the listener may lose
    renewed    \* history: the file was renewed since the listener last looked at it

suricataVars == <<written, file, moved, exists, sock, renewals>>
vars == <<config, suricataVars, listener, alerts, learnt, handed, late,
          excused, renewed>>

Whole(parts)  == {r \in Record : {<<r, "head">>, <<r, "rest">>} \subseteq Range(parts)}
Begun(parts)  == {r \in Record : <<r, "head">> \in Range(parts)}
From(parts, pos) == SubSeq(parts, pos + 1, Len(parts))

\* The record Suricata is in the middle of writing, if any.
Halves(parts) == Begun(parts) \ Whole(parts)

Start == [pc |-> "start", tries |-> 0, pos |-> 0, len |-> 0]

Init ==
    /\ config \in Configs
    /\ written = 0 /\ renewals = 0
    /\ file = <<>> /\ moved = <<>>
    /\ exists \in BOOLEAN /\ sock \in {FALSE, config.sock}
    /\ listener = Start
    /\ alerts = [pc |-> "start", tries |-> 0, pos |-> 0, of |-> "path",
                 behind |-> FALSE]
    /\ learnt = [r \in Record |-> 0]
    /\ handed = <<>>
    /\ late = {} /\ excused = {}
    /\ renewed = FALSE

-----------------------------------------------------------------------------
(***************************************************************************)
(* process_suricata_event and parse_line, for the records of a reading.    *)
(***************************************************************************)
\* Each time it is processed, a flow is allowed again and an expectation armed again.
Process(records) ==
    learnt' = [r \in Record |-> IF r \in records THEN learnt[r] + 1 ELSE learnt[r]]

\* The records of a set in the order they were written.
InOrder(records) ==
    [i \in 1 .. Cardinality(records) |->
        CHOOSE r \in records : Cardinality({q \in records : q <= r}) = i]

\* parse_line
HandOver(records) ==
    handed' = handed \o InOrder({r \in records : Log[r] = "alert"})

-----------------------------------------------------------------------------
(***************************************************************************)
(* Suricata and logrotate.                                                 *)
(***************************************************************************)
Create ==
    /\ ~exists
    /\ exists' = TRUE
    /\ UNCHANGED <<config, written, file, moved, sock, renewals, listener, alerts, learnt,
                   handed, late, excused, renewed>>

WriteHead ==
    /\ exists /\ Halves(file) = {}
    /\ written < Len(Log)
    /\ written' = written + 1
    /\ file' = Append(file, <<written + 1, "head">>)
    /\ UNCHANGED <<config, moved, exists, sock, renewals, listener, alerts, learnt, handed,
                   late, excused, renewed>>

\* The line is complete; the readers that are connected have received it.
WriteRest ==
    /\ Halves(file) # {}
    /\ file' = Append(file, <<written, "rest">>)
    /\ IF listener.pc = "socket" THEN Process({written}) ELSE UNCHANGED learnt
    /\ IF alerts.pc = "socket" THEN HandOver({written}) ELSE UNCHANGED handed
    /\ late' = IF listener.pc \in {"read", "assign"} THEN late \cup {written} ELSE late
    /\ UNCHANGED <<config, written, moved, exists, sock, renewals, listener, alerts,
                   excused, renewed>>

\* What the listener has not read of the old file is lost to it.
Renew ==
    /\ exists /\ renewals < Renewals
    /\ Halves(file) = {}
    /\ renewals' = renewals + 1
    /\ file' = <<>>
    /\ excused' = excused \cup {r \in Whole(file) : learnt[r] = 0}
    /\ renewed' = TRUE
    /\ UNCHANGED <<config, written, exists, sock, listener, learnt, handed, late>>

\* Renamed, and created anew: who has it open reads the old one.
Rename ==
    /\ Renew
    /\ IF alerts.pc = "file" /\ alerts.of = "path"
       THEN moved' = file /\ alerts' = [alerts EXCEPT !.of = "moved"]
       ELSE UNCHANGED <<moved, alerts>>

Truncate ==
    /\ Renew
    /\ alerts' = IF alerts.pc = "file" /\ alerts.of = "path"
                 THEN [alerts EXCEPT !.behind = TRUE] ELSE alerts
    /\ UNCHANGED moved

Listen ==
    /\ config.sock /\ ~sock
    /\ sock' = TRUE
    /\ UNCHANGED <<config, written, file, moved, exists, renewals, listener, alerts, learnt,
                   handed, late, excused, renewed>>

Closed(reader) == IF reader.pc = "socket" THEN [reader EXCEPT !.pc = "closed"] ELSE reader

Close ==
    /\ sock
    /\ sock' = FALSE
    /\ listener' = Closed(listener)
    /\ alerts' = Closed(alerts)
    /\ UNCHANGED <<config, written, file, moved, exists, renewals, learnt, handed, late,
                   excused, renewed>>

-----------------------------------------------------------------------------
(***************************************************************************)
(* The listener.                                                           *)
(***************************************************************************)
listenerStep ==
    UNCHANGED <<config, suricataVars, alerts, handed, late>>

\* It begins at the end of the file; what is there is left out.
TailEveFile ==
    /\ listener' = [listener EXCEPT !.pc = "tail", !.tries = 0, !.pos = Len(file)]
    /\ excused' = excused \cup Begun(file)
    /\ renewed' = FALSE

Deaf == listener' = [listener EXCEPT !.pc = "dead", !.tries = 0] /\ UNCHANGED <<excused, renewed>>

ListenerConnects ==
    /\ listener.pc = "start" /\ config.sock /\ sock
    /\ listener.tries < Tries
    /\ listener' = [listener EXCEPT !.pc = "socket", !.tries = 0]
    /\ UNCHANGED <<learnt, excused, renewed>>
    /\ listenerStep

\* Mutant: it never stops trying.
ListenerFails_Endless ==
    /\ listener.pc = "start" /\ config.sock /\ ~sock
    /\ listener' = [listener EXCEPT !.tries = @ + 1]
    /\ UNCHANGED <<learnt, excused, renewed>>
    /\ listenerStep

ListenerFails ==
    /\ listener.pc = "start" /\ config.sock /\ ~sock
    /\ listener.tries < Tries
    /\ listener' = [listener EXCEPT !.tries = @ + 1]
    /\ UNCHANGED <<learnt, excused, renewed>>
    /\ listenerStep

\* The socket is given up, or none is configured.
ListenerTails ==
    /\ listener.pc = "start"
    /\ config.sock => listener.tries = Tries
    /\ IF config.file THEN TailEveFile ELSE Deaf
    /\ UNCHANGED learnt
    /\ listenerStep

\* The socket was closed: the task ends.
ListenerEnds ==
    /\ listener.pc = "closed"
    /\ Deaf
    /\ UNCHANGED learnt
    /\ listenerStep

\* Once a second the length is compared with last_pos.
Look ==
    /\ listener.pc = "tail" /\ exists
    /\ listener' = IF Len(file) > listener.pos
                   THEN [listener EXCEPT !.pc = "read", !.len = Len(file)]
                   ELSE [listener EXCEPT !.pos = IF Len(file) < @ THEN 0 ELSE @]
    /\ excused' = excused \cup Halves(file)
                    \cup (IF renewed /\ Len(file) >= listener.pos THEN Begun(file) ELSE {})
    /\ renewed' = FALSE
    /\ UNCHANGED learnt
    /\ listenerStep

\* All lines from last_pos to the end the file has by then.  A line that was cut by
\* either end is no JSON and goes unnoticed.
ReadLines ==
    /\ listener.pc = "read"
    /\ listener' = [listener EXCEPT !.pc = "assign"]
    /\ Process(Whole(From(file, listener.pos)))
    /\ UNCHANGED <<excused, renewed>>
    /\ listenerStep

\* Mutant: the length is asked for again after the reading.
AssignPos_Again ==
    /\ listener.pc = "assign"
    /\ listener' = [listener EXCEPT !.pc = "tail", !.pos = Len(file), !.len = 0]
    /\ UNCHANGED <<learnt, excused, renewed>>
    /\ listenerStep

\* last_pos becomes the length asked for before the reading.
AssignPos ==
    /\ listener.pc = "assign"
    /\ listener' = [listener EXCEPT !.pc = "tail", !.pos = listener.len, !.len = 0]
    /\ UNCHANGED <<learnt, excused, renewed>>
    /\ listenerStep

-----------------------------------------------------------------------------
(***************************************************************************)
(* The alert reader.                                                       *)
(***************************************************************************)
alertStep ==
    UNCHANGED <<config, suricataVars, listener, learnt, late, excused, renewed>>

\* Mutant: old lines are not skipped.
FileLoop_FromStart ==
    alerts' = IF exists THEN [alerts EXCEPT !.pc = "file", !.tries = 0, !.pos = 0]
              ELSE [alerts EXCEPT !.pc = "dead", !.tries = 0]

\* file_loop: it opens the file for good and goes to its end; without a file the
\* thread ends.
FileLoop ==
    alerts' = IF exists THEN [alerts EXCEPT !.pc = "file", !.tries = 0, !.pos = Len(file)]
              ELSE [alerts EXCEPT !.pc = "dead", !.tries = 0]

AlertsConnect ==
    /\ alerts.pc = "start" /\ config.sock /\ sock
    /\ config.file => alerts.tries < Tries
    /\ alerts' = [alerts EXCEPT !.pc = "socket"]
    /\ UNCHANGED handed
    /\ alertStep

\* With no file to fall back to it tries for ever.
AlertsFail ==
    /\ alerts.pc = "start" /\ config.sock /\ ~sock
    /\ config.file => alerts.tries < Tries
    /\ alerts' = [alerts EXCEPT !.tries = IF config.file THEN @ + 1 ELSE @]
    /\ UNCHANGED handed
    /\ alertStep

AlertsTail ==
    /\ alerts.pc = "start" /\ config.file
    /\ config.sock => alerts.tries = Tries
    /\ FileLoop
    /\ UNCHANGED handed
    /\ alertStep

NothingConfigured ==
    /\ alerts.pc = "start" /\ ~config.sock /\ ~config.file
    /\ alerts' = [alerts EXCEPT !.pc = "dead"]
    /\ UNCHANGED handed
    /\ alertStep

\* The socket was closed: the file is taken if there is one, and otherwise the socket
\* tried again, at most Tries times in all if a file is configured.
AlertsClosed ==
    /\ alerts.pc = "closed"
    /\ IF config.file /\ exists THEN FileLoop
       ELSE alerts' = [alerts EXCEPT !.pc = "start",
                                     !.tries = IF config.file THEN @ + 1 ELSE @]
    /\ UNCHANGED handed
    /\ alertStep

\* Mutant: the file is opened by its path each time.
Opened_ByPath == file

Opened == IF alerts.of = "path" THEN file ELSE moved

\* The lines from its place to the end, a cut one included.
ReadAlerts ==
    /\ alerts.pc = "file"
    /\ Len(Opened) > alerts.pos
    /\ HandOver(Whole(From(Opened, alerts.pos)))
    /\ alerts' = [alerts EXCEPT !.pos = Len(Opened)]
    /\ alertStep

Listener ==
    \/ ListenerConnects \/ ListenerFails \/ ListenerTails \/ ListenerEnds
    \/ Look \/ ReadLines \/ AssignPos

AlertReader ==
    \/ AlertsConnect \/ AlertsFail \/ AlertsTail \/ NothingConfigured \/ AlertsClosed
    \/ ReadAlerts

Next ==
    \/ Create \/ WriteHead \/ WriteRest \/ Rename \/ Truncate \/ Listen \/ Close
    \/ Listener \/ AlertReader

\* Both readers are tasks of their own that run again after each pause.
Fairness == WF_vars(Listener) /\ WF_vars(AlertReader)

Spec == Init /\ [][Next]_vars /\ Fairness

-----------------------------------------------------------------------------
(***************************************************************************)
(* Properties.                                                             *)
(***************************************************************************)
\* The types of the files, the two readers and what they have passed on.
TypeOK ==
    /\ config \in Configs
    /\ written \in 0 .. Len(Log)
    /\ file \in Parts /\ moved \in Parts
    /\ exists \in BOOLEAN /\ sock \in BOOLEAN /\ renewed \in BOOLEAN
    /\ renewals \in 0 .. Renewals
    /\ listener \in [pc : {"start", "socket", "closed", "tail", "read", "assign", "dead"},
                     tries : 0 .. Tries, pos : 0 .. 2 * Len(Log), len : 0 .. 2 * Len(Log)]
    /\ alerts \in [pc : {"start", "socket", "closed", "file", "dead"}, tries : 0 .. Tries,
                   pos : 0 .. 2 * Len(Log), of : {"path", "moved"},
                   behind : BOOLEAN]
    /\ learnt \in [Record -> Nat]
    /\ handed \in Seq(Record)
    /\ late \subseteq Record /\ excused \subseteq Record

\* A line the listener has gone past is processed, unless it was there before the tail
\* began, was half written when the length was taken, or the file was renewed before
\* the listener came to read it, or grew past its place before it noticed.
NoneSkipped ==
    listener.pc = "tail" /\ ~renewed =>
        \A r \in Whole(SubSeq(file, 1, listener.pos)) : learnt[r] > 0 \/ r \in excused

\* The listener processes a line twice only if it was completed between the length it
\* asked for and the end of the reading, and never more often (an FTP record that is
\* opens its data channel a second time).  The alert reader hands alerts over in the
\* order they were written and none twice, whether they come by the socket or, after
\* that was closed, from the file.
NoneTwice ==
    /\ \A r \in Record : learnt[r] <= IF r \in late THEN 2 ELSE 1
    /\ \A i, j \in DOMAIN handed : i < j => handed[i] < handed[j]

\* An alert that is complete in the file the alert reader has open, with no part read
\* yet, is handed over even if the file is renamed meanwhile; only a truncation, which
\* leaves the reader behind the end, can lose it.
AlertsHeard ==
    \A r \in Record :
        (Log[r] = "alert" /\ alerts.pc = "file" /\ r \in Whole(From(Opened, alerts.pos)))
            ~> (r \in Range(handed) \/ alerts.behind)
=============================================================================
