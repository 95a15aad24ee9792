------------------------------- MODULE Patcher --------------------------------
(***************************************************************************)
(* The scripts that patch the vLLM tree (apply_*.py): guarded by markers,  *)
(* backed up, killed or failed half-way, run again, and reverted.  A file  *)
(* is the sequence of the edits in it.                                     *)
(***************************************************************************)
EXTENDS Integers, Sequences, SequencesExt, FiniteSets, Functions

CONSTANTS
  Scripts,     \* the scripts the operator uses
  Drifts,      \* bound: the sets of edits whose anchor a tree may lack
  MaxRuns      \* bound: runs of scripts

VARIABLES
  drift,
  files, baks,     \* the files and, by script and file, the backups that exist
  proc,            \* the script that is running and its next edit, or Idle
  order,           \* scripts that were run and not reverted, the latest last
  done,            \* scripts whose last run reported success
  stopped,         \* history: scripts that an anchor or a kill has stopped between
                   \* two edits since they were last reverted
  runs

vars == <<drift, files, baks, proc, order, done, stopped, runs>>

Files == {"interface", "scheduler", "core", "utils", "sampler", "request", "encoding"}
Idle == [script |-> "none", at |-> 0]

-------------------------------------------------------------------------------
(* The edits of each script, in order.  mark: the script looks for the edit's *)
(* own marker; bak: it backs the file up first; needs: the edit of another    *)
(* script that brings the anchor; again: the anchor outlives the edit.        *)

Edit(script, n, file, mark, bak, needs, again) ==
  [id |-> <<script, n>>, file |-> file, mark |-> mark, bak |-> bak,
   needs |-> needs, again |-> again]

Edits0027 ==
  LET E(n, file, again) == Edit("apply_0027", n, file, TRUE, TRUE, {}, again)
  IN  << E(1, "interface", TRUE), E(2, "scheduler", TRUE), E(3, "scheduler", TRUE),
         E(4, "core", TRUE), E(5, "core", TRUE), E(6, "core", FALSE), E(7, "core", FALSE) >>

\* The marker of utils is the first edit's; the replaced text of the last has no
\* anchor left, and it needs the predicate of 0027.
Edits0028 ==
  << Edit("apply_0028", 1, "utils", TRUE, TRUE, {}, TRUE),
     Edit("apply_0028", 2, "utils", FALSE, FALSE, {}, TRUE),
     Edit("apply_0028", 3, "utils", FALSE, FALSE, {}, TRUE),
     Edit("apply_0028", 4, "scheduler", TRUE, TRUE, {<<"apply_0027", 2>>}, FALSE) >>

EditsDbg ==
  << Edit("apply_0028dbg", 1, "core", FALSE, TRUE, {}, FALSE),
     Edit("apply_0028dbg", 2, "core", FALSE, TRUE, {}, FALSE),
     Edit("apply_0028dbg", 3, "core", FALSE, TRUE, {<<"apply_0027", 7>>}, TRUE) >>

EditsSrc ==
  << Edit("apply_typebsrc", 1, "utils", TRUE, TRUE, {}, TRUE),
     Edit("apply_typebsrc", 2, "scheduler", TRUE, TRUE, {}, TRUE) >>

\* The third changes a line that apply_typebsrc brought.
EditsSrc2 ==
  << Edit("apply_typebsrc2", 1, "scheduler", TRUE, TRUE, {}, TRUE),
     Edit("apply_typebsrc2", 2, "scheduler", TRUE, TRUE, {}, TRUE),
     Edit("apply_typebsrc2", 3, "utils", TRUE, TRUE, {<<"apply_typebsrc", 1>>}, FALSE),
     Edit("apply_typebsrc2", 4, "utils", TRUE, TRUE, {}, TRUE) >>

EditsSrc3 == << Edit("apply_typebsrc3", 1, "request", FALSE, TRUE, {}, TRUE) >>

EditsTypebDbg == << Edit("apply_typebdbg", 1, "scheduler", FALSE, TRUE, {}, TRUE) >>

Edits0019 ==
  << Edit("apply_0019_v2", 1, "scheduler", FALSE, TRUE, {}, TRUE),
     Edit("apply_0019_v2", 2, "scheduler", FALSE, TRUE, {}, FALSE) >>

Edits0020 ==
  << Edit("apply_0020", 1, "sampler", FALSE, TRUE, {}, TRUE),
     Edit("apply_0020", 2, "sampler", FALSE, TRUE, {}, TRUE) >>

Edits0021 ==
  << Edit("apply_0021", 1, "encoding", FALSE, TRUE, {}, TRUE),
     Edit("apply_0021", 2, "encoding", FALSE, TRUE, {}, FALSE),
     Edit("apply_0021", 3, "encoding", FALSE, TRUE, {}, FALSE) >>

Edits ==
  [apply_0027 |-> Edits0027, apply_0028 |-> Edits0028, apply_0028dbg |-> EditsDbg,
   apply_typebsrc |-> EditsSrc, apply_typebsrc2 |-> EditsSrc2,
   apply_typebsrc3 |-> EditsSrc3, apply_typebdbg |-> EditsTypebDbg,
   apply_0019_v2 |-> Edits0019, apply_0020 |-> Edits0020, apply_0021 |-> Edits0021]

\* Those that change the file in memory and write it once.
WholeFile == {"apply_0028dbg", "apply_typebsrc3", "apply_typebdbg", "apply_0019_v2",
              "apply_0020", "apply_0021"}
\* Those that copy the file to the backup without looking for one.
CopiesAlways == {"apply_0019_v2", "apply_0020", "apply_0021"}

Has(f, e) == \E i \in DOMAIN f : f[i] = e.id

\* The anchor occurs exactly once.
Anchored(f, e) ==
  /\ e.id \notin drift
  /\ \A n \in e.needs : \E i \in DOMAIN f : f[i] = n
  /\ e.again \/ ~Has(f, e)

\* One marker for all edits of a file: whoever finds one, skips.
MarkedPerFile(f, e) == \E i \in DOMAIN f : f[i][1] = e.id[1]

\* No marker is looked for.
NeverMarked(f, e) == FALSE
Marked(f, e) == e.mark /\ Has(f, e)

\* Each run backs the file up anew.
BackupAnew(script, f) == [b \in DOMAIN baks \cup {<<script, f>>} |->
                            IF b = <<script, f>> THEN files[f] ELSE baks[b]]

Backup(script, f) == IF <<script, f>> \in DOMAIN baks THEN baks
                     ELSE BackupAnew(script, f)

-------------------------------------------------------------------------------
Init ==
  /\ drift \in Drifts
  /\ files = [f \in Files |-> <<>>]
  /\ baks = [b \in {} |-> <<>>]
  /\ proc = Idle
  /\ order = <<>> /\ done = {} /\ stopped = {} /\ runs = 0

Running(s) == proc.script = s
Current(s) == Edits[s][proc.at]

\* apply_0028 goes straight to the scheduler if it finds its marker in utils.
FirstEdit(s) ==
  IF s = "apply_0028" /\ Has(files["utils"], Edits[s][1]) THEN 4 ELSE 1

\* The operator: one script at a time, and an unfinished one before any other.
Start(s) ==
  /\ proc = Idle /\ runs < MaxRuns
  /\ ToSet(order) \subseteq done \cup {s}
  /\ runs' = runs + 1
  /\ proc' = [script |-> s, at |-> FirstEdit(s)]
  /\ order' = IF s \in ToSet(order) THEN order ELSE Append(order, s)
  /\ done' = done \ {s}
  /\ UNCHANGED <<drift, files, baks, stopped>>

Past(s) == proc.at > Len(Edits[s])

Succeed(s) ==
  /\ Running(s) /\ Past(s)
  /\ done' = done \cup {s}
  /\ proc' = Idle
  /\ UNCHANGED <<drift, files, baks, order, stopped, runs>>

\* An edit that is in already.
Skip(s) ==
  /\ Running(s) /\ s \notin WholeFile /\ ~Past(s)
  /\ Marked(files[Current(s).file], Current(s))
  /\ proc' = [proc EXCEPT !.at = @ + 1]
  /\ UNCHANGED <<drift, files, baks, order, done, stopped, runs>>

\* One edit: the backup if there is none, then the file.
Apply(s) ==
  /\ Running(s) /\ s \notin WholeFile /\ ~Past(s)
  /\ ~Marked(files[Current(s).file], Current(s))
  /\ Anchored(files[Current(s).file], Current(s))
  /\ baks' = IF Current(s).bak THEN Backup(s, Current(s).file) ELSE baks
  /\ files' = [files EXCEPT ![Current(s).file] = Append(@, Current(s).id)]
  /\ proc' = [proc EXCEPT !.at = @ + 1]
  /\ UNCHANGED <<drift, order, done, stopped, runs>>

\* The anchor does not match once: the script ends.  apply_0027 has made the
\* backup by then.
Fail(s) ==
  /\ Running(s) /\ s \notin WholeFile /\ ~Past(s)
  /\ ~Marked(files[Current(s).file], Current(s))
  /\ ~Anchored(files[Current(s).file], Current(s))
  /\ baks' = IF s = "apply_0027" THEN Backup(s, Current(s).file) ELSE baks
  /\ proc' = Idle
  /\ stopped' = stopped \cup {s}
  /\ UNCHANGED <<drift, files, order, done, runs>>

\* All edits of the one file, in memory.
TheFile(s) == Edits[s][1].file
All(s) == [n \in DOMAIN Edits[s] |-> Edits[s][n].id]
AllAnchored(s) == \A n \in DOMAIN Edits[s] : Anchored(files[TheFile(s)], Edits[s][n])

\* apply_0028dbg: marker, anchors, backup, file; apply_typebdbg has its backup
\* before it looks for the anchor.
SkipWhole(s) ==
  /\ Running(s) /\ s \in WholeFile \ CopiesAlways
  /\ Has(files[TheFile(s)], Edits[s][1])
  /\ done' = done \cup {s}
  /\ proc' = Idle
  /\ UNCHANGED <<drift, files, baks, order, stopped, runs>>

ApplyWhole(s) ==
  /\ Running(s) /\ s \in WholeFile \ CopiesAlways
  /\ ~Has(files[TheFile(s)], Edits[s][1])
  /\ proc' = Idle
  /\ IF AllAnchored(s)
     THEN /\ baks' = Backup(s, TheFile(s))
          /\ files' = [files EXCEPT ![TheFile(s)] = @ \o All(s)]
          /\ done' = done \cup {s}
     ELSE /\ baks' = IF s = "apply_typebdbg" THEN Backup(s, TheFile(s)) ELSE baks
          /\ UNCHANGED <<files, done>>
  /\ UNCHANGED <<drift, order, stopped, runs>>

\* apply_0020 and its like: backup, anchors, file; no marker.
CopyAndApply(s) ==
  /\ Running(s) /\ s \in CopiesAlways
  /\ baks' = BackupAnew(s, TheFile(s))
  /\ proc' = Idle
  /\ IF AllAnchored(s)
     THEN /\ files' = [files EXCEPT ![TheFile(s)] = @ \o All(s)]
          /\ done' = done \cup {s}
     ELSE UNCHANGED <<files, done>>
  /\ UNCHANGED <<drift, order, stopped, runs>>

\* The script is killed between two edits.
Kill ==
  /\ proc # Idle /\ proc.script \notin WholeFile
  /\ proc' = Idle
  /\ stopped' = stopped \cup {proc.script}
  /\ UNCHANGED <<drift, files, baks, order, done, runs>>

\* The backups of the script that was run last are moved back over its files.
\* For apply_0027 and apply_typebdbg, which have no --revert, the operator does so;
\* a plain cp would leave backups behind that are stale in the next run.
Revert(s) ==
  /\ proc = Idle /\ order # <<>> /\ Last(order) = s /\ s \notin CopiesAlways
  /\ files' = [f \in Files |-> IF <<s, f>> \in DOMAIN baks THEN baks[<<s, f>>] ELSE files[f]]
  /\ baks' = Restrict(baks, {b \in DOMAIN baks : b[1] # s})
  /\ order' = Front(order)
  /\ done' = done \ {s}
  /\ stopped' = stopped \ {s}
  /\ UNCHANGED <<drift, proc, runs>>

Next ==
  \/ \E s \in Scripts :
       Start(s) \/ Succeed(s) \/ Skip(s) \/ Apply(s) \/ Fail(s) \/ SkipWhole(s)
         \/ ApplyWhole(s) \/ CopyAndApply(s) \/ Revert(s)
  \/ Kill
  \/ proc = Idle /\ runs = MaxRuns /\ UNCHANGED vars

Spec == Init /\ [][Next]_vars

-------------------------------------------------------------------------------
(* Properties. *)

Marking == DOMAIN Edits \ CopiesAlways

\* The scripts that look for markers may be killed or fail anywhere and be run
\* again as often as one likes: no edit gets into a file twice (apply_0027.py:31).
NoEditTwice ==
  \A f \in Files : \A i, j \in DOMAIN files[f] :
    files[f][i] = files[f][j] /\ i # j => files[f][i][1] \notin Marking

\* The script looks for no marker of this edit's own: it goes by another edit's.
Unmarked(s, n) == s \notin WholeFile /\ ~Edits[s][n].mark

\* An edit of a script that reports success is missing only if the script looks
\* for no marker of its own and was stopped before (the second and the third of
\* apply_0028.py:177-188, of which run tools_together shows that they do get lost);
\* a script that writes its file once never leaves a part of its edits.
MissingOnlyIfStopped ==
  /\ \A s \in done : \A n \in DOMAIN Edits[s] :
       \/ Has(files[Edits[s][n].file], Edits[s][n])
       \/ s \in stopped /\ Unmarked(s, n)
  /\ \A s \in WholeFile :
       LET there == {n \in DOMAIN Edits[s] : Has(files[TheFile(s)], Edits[s][n])}
       IN  there = {} \/ there = DOMAIN Edits[s]

\* s was first run before t was.
Earlier(s, t) == \E i, k \in DOMAIN order : i < k /\ order[i] = s /\ order[k] = t

\* The backups nest: each is the part of its file that the scripts before its own
\* left, with none of the script's edits, although the script may have failed
\* between two edits of a file and been run again; so reverts, latest first, lead
\* back.
BackupsNest ==
  /\ \A b \in DOMAIN baks :
       b[1] \in ToSet(order) \ CopiesAlways =>
         /\ IsPrefix(baks[b], files[b[2]])
         /\ \A i \in DOMAIN files[b[2]] :
              Earlier(files[b[2]][i][1], b[1]) <=> i <= Len(baks[b])
  /\ order = <<>> => \A f \in Files : files[f] = <<>>

\* "v3 utils edits must apply together; guard by the init marker"
\* (apply_0028.py:177), with "per-edit idempotent SKIP markers" (line 30): a run
\* that reports success leaves all three in utils.
UtilsTogether ==
  "apply_0028" \in done =>
    \A n \in 1..3 : Has(files["utils"], Edits["apply_0028"][n])

===============================================================================
