----------------------------- MODULE Scripts_proofs -----------------------------
(***************************************************************************)
(* Proofs about parts that share no state: the watchdog of the canary, the *)
(* scripts that patch the tree, and the relay between two pipeline ranks   *)
(* that one of the patches builds.                                         *)
(***************************************************************************)
EXTENDS Patcher, FiniteSetTheorems, SequenceTheorems, TLAPS

CONSTANTS Interval, Slack, MaxProbe, HoldK, MaxCycles
VARIABLES cycles, events, since, hold, alert, past

Watch == INSTANCE Watchdog

-------------------------------------------------------------------------------
(* The watchdog. *)

\* Times are in whole ticks, the windows of two cycles overlap by no more than one
\* interval (60 seconds and 5), and HOLD takes at least one degraded cycle.
WatchConstants ==
  /\ Interval \in Nat /\ Slack \in Nat /\ MaxProbe \in Nat
  /\ Slack <= Interval
  /\ HoldK \in Nat \ {0}

Lines == [kind : {"Out-of-vocab", "EngineDeadError"}, age : Nat,
          counted : Nat, slow : BOOLEAN]

WatchType ==
  /\ cycles \in Nat
  /\ events \subseteq Lines
  /\ hold \in Nat
  /\ past \in Seq({"dead", "degraded", "fine"})

\* The first look sees nothing; after it the window is the interval and the slack.
WindowSet == since = IF cycles = 0 THEN 0 ELSE Interval + Slack

\* A line that was counted twice is an interval old at least, so the next window
\* ends before it.
AgesGrow ==
  \A e \in events : e.counted <= 2 /\ (e.counted = 2 => e.age >= Interval)

\* A line of a cycle with a quick probe was counted in that cycle.
QuickCounted == \A e \in events : e.counted = 0 => e.slow

\* hold is the length of the row of degraded cycles at the end.
HoldCounts ==
  /\ hold <= Len(past)
  /\ \A i \in (Len(past) - hold + 1)..Len(past) : past[i] = "degraded"
  /\ hold < Len(past) => past[Len(past) - hold] # "degraded"

\* What HOLD says of the cycle before.
AlertExact == alert = "HOLD" <=> hold >= HoldK

WatchInv == WatchType /\ WindowSet /\ AgesGrow /\ QuickCounted /\ HoldCounts /\ AlertExact

\* One cycle: the lines grow older and the fresh ones come in.
LEMMA CycleLines ==
  ASSUME WatchConstants, WatchType, WindowSet, AgesGrow, QuickCounted,
         NEW probe \in 0..MaxProbe, NEW well \in BOOLEAN,
         NEW fresh,
         \A f \in fresh : /\ f[1] \in {"Out-of-vocab", "EngineDeadError"}
                          /\ f[2] \in 0..(Interval + probe - 1),
         Watch!Cycle(probe, well, fresh)
  PROVE  events' \subseteq Lines /\ AgesGrow' /\ QuickCounted'
<1> DEFINE gap   == Interval + probe
           older == {[e EXCEPT !.age = @ + gap] : e \in events}
           new   == {[kind |-> f[1], age |-> f[2], counted |-> 0,
                      slow |-> probe > Slack \/ cycles = 0] : f \in fresh}
           lines == older \cup new
           late  == probe > Slack \/ cycles = 0
           seen  == Watch!Window(lines)
<1>1. events' = {[e EXCEPT !.counted = IF e \in seen THEN @ + 1 ELSE @] : e \in lines}
  BY DEF Watch!Cycle
<1>2. gap \in Nat /\ probe \in Nat /\ gap >= Interval
  BY DEF WatchConstants
<1>3. SUFFICES ASSUME NEW l \in lines
               PROVE  LET x == [l EXCEPT !.counted = IF l \in seen THEN @ + 1 ELSE @]
                      IN  /\ x \in Lines
                          /\ x.counted <= 2 /\ (x.counted = 2 => x.age >= Interval)
                          /\ x.counted = 0 => x.slow
  <2> DEFINE X(e) == [e EXCEPT !.counted = IF e \in seen THEN @ + 1 ELSE @]
  <2>1. \A l \in lines : /\ X(l) \in Lines
                         /\ X(l).counted <= 2 /\ (X(l).counted = 2 => X(l).age >= Interval)
                         /\ X(l).counted = 0 => X(l).slow
    BY <1>3
  <2>2. \A y \in events' : \E l \in lines : y = X(l)
    BY <1>1
  <2> HIDE DEF X
  <2>3. \A y \in events' : /\ y \in Lines
                           /\ y.counted <= 2 /\ (y.counted = 2 => y.age >= Interval)
                           /\ y.counted = 0 => y.slow
    BY <2>1, <2>2
  <2>4. events' \subseteq Lines
    BY <2>3
  <2>5. AgesGrow'
    BY <2>3 DEF AgesGrow
  <2>6. QuickCounted'
    BY <2>3 DEF QuickCounted
  <2> QED
    BY <2>4, <2>5, <2>6
<1>4. l \in seen <=> l.age < since
  BY DEF Watch!Window
<1>5. CASE l \in older
  <2>1. PICK e \in events : l = [e EXCEPT !.age = @ + gap]
    BY <1>5
  <2>2. e \in Lines
    BY DEF WatchType
  <2>3. l \in Lines /\ l.age = e.age + gap /\ l.counted = e.counted /\ l.slow = e.slow
    BY <1>2, <2>1, <2>2 DEF Lines
  <2>4. e.counted <= 2 /\ (e.counted = 2 => e.age >= Interval) /\ (e.counted = 0 => e.slow)
    BY DEF AgesGrow, QuickCounted
  <2>5. e.age \in Nat /\ e.counted \in Nat
    BY <2>2 DEF Lines
  <2>6. CASE l \in seen
    <3>1. e.counted # 2
      <4>1. l.age < since /\ since <= Interval + Interval
        BY <1>4, <2>6 DEF WindowSet, WatchConstants
      <4> QED
        BY <1>2, <2>3, <2>4, <2>5, <4>1 DEF WindowSet, WatchConstants
    <3> QED
      BY <1>2, <2>3, <2>4, <2>5, <2>6, <3>1 DEF Lines, WatchConstants
  <2>7. CASE l \notin seen
    BY <1>2, <2>3, <2>4, <2>5, <2>7 DEF Lines, WatchConstants
  <2> QED
    BY <2>6, <2>7
<1>6. CASE l \in new
  <2>1. PICK f \in fresh : l = [kind |-> f[1], age |-> f[2], counted |-> 0,
                                slow |-> probe > Slack \/ cycles = 0]
    BY <1>6
  <2>2. f[1] \in {"Out-of-vocab", "EngineDeadError"} /\ f[2] \in 0..(Interval + probe - 1)
    <3> HIDE DEF older, new, lines, late, seen, gap
    <3> QED
      BY Zenon
  <2>3. l \in Lines /\ l.age = f[2] /\ l.counted = 0
        /\ (l.slow <=> late)
    <3>1. late \in BOOLEAN
      OBVIOUS
    <3>2. l = [kind |-> f[1], age |-> f[2], counted |-> 0, slow |-> late]
      BY <2>1
    <3>3. f[2] \in Nat /\ 0 \in Nat
      BY <1>2, <2>2
    <3> HIDE DEF late
    <3> QED
      BY <2>2, <3>1, <3>2, <3>3 DEF Lines
  <2>4. l \notin seen => l.slow
    BY <1>2, <1>4, <2>2, <2>3 DEF WindowSet, WatchConstants, WatchType
  <2> QED
    BY <2>3, <2>4, <1>2 DEF Lines, WatchConstants
<1> QED
  BY <1>5, <1>6

\* So it holds in every reachable state.
THEOREM WatchInvariance ==
  ASSUME WatchConstants
  PROVE  Watch!Spec => []WatchInv
<1>1. Watch!Init => WatchInv
  BY DEF Watch!Init, WatchInv, WatchConstants, WatchType, WindowSet, AgesGrow,
         QuickCounted, HoldCounts, AlertExact
<1>2. WatchInv /\ [Watch!Next]_Watch!vars => WatchInv'
  <2> SUFFICES ASSUME WatchInv, [Watch!Next]_Watch!vars
               PROVE  WatchInv'
    OBVIOUS
  <2> USE DEF WatchInv
  <2>1. ASSUME NEW probe \in 0..MaxProbe, NEW well \in BOOLEAN, NEW fresh,
               \A f \in fresh : /\ f[1] \in {"Out-of-vocab", "EngineDeadError"}
                                /\ f[2] \in 0..(Interval + probe - 1),
               Watch!Cycle(probe, well, fresh)
        PROVE  WatchInv'
    <3>1. events' \subseteq Lines /\ AgesGrow' /\ QuickCounted'
      BY <2>1, CycleLines
    <3>2. cycles' = cycles + 1 /\ since' = Interval + Slack
      BY <2>1 DEF Watch!Cycle
    <3>3. PICK dead \in BOOLEAN, bad \in BOOLEAN :
            /\ hold' = IF dead THEN 0 ELSE IF bad THEN hold + 1 ELSE 0
            /\ alert' = IF dead THEN "DEAD"
                        ELSE IF hold' >= HoldK /\ bad THEN "HOLD" ELSE "none"
            /\ past' = Append(past, IF dead THEN "dead" ELSE IF bad THEN "degraded" ELSE "fine")
      BY <2>1 DEF Watch!Cycle, Watch!NextHold
    <3>4. WatchType' /\ WindowSet'
      BY <3>1, <3>2, <3>3 DEF WatchType, WindowSet
    <3>5. HoldCounts' /\ AlertExact'
      BY <3>3 DEF HoldCounts, AlertExact, WatchType, WatchConstants
    <3> QED
      BY <3>1, <3>4, <3>5
  <2>2. CASE UNCHANGED Watch!vars
    BY <2>2 DEF Watch!vars, WatchType, WindowSet, AgesGrow, QuickCounted, HoldCounts, AlertExact
  <2>3. CASE Watch!Next
    <3>1. CASE UNCHANGED Watch!vars
      BY <3>1, <2>2
    <3>2. CASE \E probe \in 0..MaxProbe, well \in BOOLEAN : Watch!Cycle(probe, well, {})
      BY <3>2, <2>1
    <3>3. CASE \E probe \in 0..MaxProbe, well \in BOOLEAN :
                 \E kind \in Watch!LineKinds, age \in 0..(Interval + probe - 1) :
                   Watch!Cycle(probe, well, {<<kind, age>>})
      BY <3>3, <2>1 DEF Watch!LineKinds
    <3> QED
      BY <2>3, <3>1, <3>2, <3>3 DEF Watch!Next
  <2> QED
    BY <2>2, <2>3
<1> QED
  BY <1>1, <1>2, PTL DEF Watch!Spec

\* The windows of the watchdog cover the log, and it raises HOLD after exactly
\* HOLD_K degraded cycles in a row, for every interval, slack and hold and any
\* number of cycles, if the slack is not longer than the interval: otherwise a
\* line is in three windows.
THEOREM WatchdogSound ==
  ASSUME WatchConstants
  PROVE  Watch!Spec => [](Watch!WindowsCover /\ Watch!HoldIsConsecutive)
<1>1. WatchInv => Watch!WindowsCover
  BY DEF WatchInv, AgesGrow, QuickCounted, Watch!WindowsCover
<1>2. WatchInv => Watch!HoldIsConsecutive
  BY DEF WatchInv, WatchType, HoldCounts, AlertExact, Watch!HoldIsConsecutive, WatchConstants
<1> QED
  BY <1>1, <1>2, WatchInvariance, PTL

-------------------------------------------------------------------------------
(* The patch scripts: what their edits are. *)

PatcherConstants == Scripts \subseteq DOMAIN Edits

LEMMA EditFacts ==
  ASSUME NEW s \in DOMAIN Edits
  PROVE  /\ s # "none"
         /\ DOMAIN Edits[s] = 1..Len(Edits[s]) /\ Len(Edits[s]) \in Nat \ {0}
         /\ \A n \in DOMAIN Edits[s] :
              /\ Edits[s][n].id = <<s, n>>
              /\ Edits[s][n].file \in Files
              /\ s \in WholeFile => Edits[s][n].file = Edits[s][1].file
              /\ s \notin WholeFile /\ ~(s = "apply_0028" /\ n \in {2, 3}) =>
                   Edits[s][n].mark /\ Edits[s][n].bak
              /\ s = "apply_0028" => Edits[s][n].file = IF n = 4 THEN "scheduler" ELSE "utils"
              /\ s = "apply_0028" /\ n \in {2, 3} => ~Edits[s][n].mark /\ ~Edits[s][n].bak
              /\ s # "apply_0020" => Edits[s][n].file # "sampler"
         /\ s = "apply_0028" => Len(Edits[s]) = 4
         /\ s = "apply_0020" => Edits[s][1].file = "sampler"
         /\ s \in {"apply_0019_v2", "apply_0021"} => 2 \in DOMAIN Edits[s] /\ ~Edits[s][2].again
<1>1. s \in {"apply_0027", "apply_0028", "apply_0028dbg", "apply_typebsrc",
             "apply_typebsrc2", "apply_typebsrc3", "apply_typebdbg",
             "apply_0019_v2", "apply_0020", "apply_0021"}
  BY DEF Edits
<1> USE DEF Edit, Files, WholeFile
<1>2. CASE s = "apply_0027"
  <2>1. Edits[s] = Edits0027
    BY <1>2 DEF Edits
  <2> QED
    BY <1>2, <2>1 DEF Edits0027
<1>3. CASE s = "apply_0028"
  <2>1. Edits[s] = Edits0028
    BY <1>3 DEF Edits
  <2> QED
    BY <1>3, <2>1 DEF Edits0028
<1>4. CASE s = "apply_0028dbg"
  <2>1. Edits[s] = EditsDbg
    BY <1>4 DEF Edits
  <2> QED
    BY <1>4, <2>1 DEF EditsDbg
<1>5. CASE s = "apply_typebsrc"
  <2>1. Edits[s] = EditsSrc
    BY <1>5 DEF Edits
  <2> QED
    BY <1>5, <2>1 DEF EditsSrc
<1>6. CASE s = "apply_typebsrc2"
  <2>1. Edits[s] = EditsSrc2
    BY <1>6 DEF Edits
  <2> QED
    BY <1>6, <2>1 DEF EditsSrc2
<1>7. CASE s = "apply_typebsrc3"
  <2>1. Edits[s] = EditsSrc3
    BY <1>7 DEF Edits
  <2> QED
    BY <1>7, <2>1 DEF EditsSrc3
<1>8. CASE s = "apply_typebdbg"
  <2>1. Edits[s] = EditsTypebDbg
    BY <1>8 DEF Edits
  <2> QED
    BY <1>8, <2>1 DEF EditsTypebDbg
<1>9. CASE s = "apply_0019_v2"
  <2>1. Edits[s] = Edits0019
    BY <1>9 DEF Edits
  <2> QED
    BY <1>9, <2>1 DEF Edits0019
<1>10. CASE s = "apply_0020"
  <2>1. Edits[s] = Edits0020
    BY <1>10 DEF Edits
  <2> QED
    BY <1>10, <2>1 DEF Edits0020
<1>11. CASE s = "apply_0021"
  <2>1. Edits[s] = Edits0021
    BY <1>11 DEF Edits
  <2> QED
    BY <1>11, <2>1 DEF Edits0021
<1> QED
  BY <1>1, <1>2, <1>3, <1>4, <1>5, <1>6, <1>7, <1>8, <1>9, <1>10, <1>11

-------------------------------------------------------------------------------
(* The invariant of the patch scripts. *)

Ids == (DOMAIN Edits) \X Nat

\* The n-th edit of s is in g.
In(g, s, n) == \E i \in DOMAIN g : g[i] = <<s, n>>

LEMMA HasIsIn ==
  ASSUME NEW g, NEW s \in DOMAIN Edits, NEW n \in DOMAIN Edits[s]
  PROVE  Has(g, Edits[s][n]) <=> In(g, s, n)
<1>1. Edits[s][n].id = <<s, n>>
  BY EditFacts
<1> QED
  BY <1>1 DEF Has, In

\* The edits that a script has put in when it reports success.  apply_0028 only
\* knows of the first of utils, and of that of the scheduler.
Required(s) == IF s = "apply_0028" THEN {1, 4} ELSE DOMAIN Edits[s]

LEMMA RequiredEdits ==
  ASSUME NEW s \in DOMAIN Edits
  PROVE  Required(s) \subseteq DOMAIN Edits[s] /\ 1 \in Required(s)
BY EditFacts DEF Required

\* What holds of every content that a file or one of its backups ever has.
GoodFile(g, f) ==
  /\ \A i, j \in DOMAIN g : g[i] = g[j] /\ i # j => g[i][1] \notin Marking
  /\ \A s \in WholeFile : TheFile(s) = f =>
       \A m, n \in DOMAIN Edits[s] : In(g, s, m) => In(g, s, n)
  /\ f = "utils" => \A n \in {2, 3} : In(g, "apply_0028", n) => In(g, "apply_0028", 1)

OrderType ==
  /\ order \in Seq(Scripts)
  /\ \A i, j \in DOMAIN order : order[i] = order[j] => i = j
  /\ done \subseteq ToSet(order)

ContentType ==
  /\ files \in [Files -> Seq(Ids)]
  /\ DOMAIN baks \subseteq ToSet(order) \X Files
  /\ \A b \in DOMAIN baks : baks[b] \in Seq(Ids)
  /\ \A b \in DOMAIN baks : \E n \in DOMAIN Edits[b[1]] : Edits[b[1]][n].file = b[2]

ProcType ==
  /\ proc \in [script : Scripts \cup {"none"}, at : Nat]
  /\ proc = Idle \/ /\ proc.script \in ToSet(order)
                    /\ proc.at >= 1 /\ proc.at <= Len(Edits[proc.script]) + 1
                    /\ proc.script \in WholeFile => proc.at = 1

FilesGood ==
  /\ \A f \in Files : GoodFile(files[f], f)
  /\ \A b \in DOMAIN baks : GoodFile(baks[b], b[2])

\* The edits are those of scripts that were run and not reverted.
Owned == \A f \in Files : \A i \in DOMAIN files[f] : files[f][i][1] \in ToSet(order)

\* No script edits a file before it has backed it up.
BackedUp ==
  \A s \in ToSet(order) \ CopiesAlways : \A f \in Files :
    <<s, f>> \notin DOMAIN baks => \A i \in DOMAIN files[f] : files[f][i][1] # s

\* g is the part of the content c that the scripts before the k-th of o have put in.
PartBefore(g, c, o, k) ==
  /\ Len(g) <= Len(c)
  /\ \A i \in 1..Len(g) : g[i] = c[i]
  /\ \A i \in DOMAIN c : (\E j \in 1..(k - 1) : c[i][1] = o[j]) <=> i <= Len(g)

\* A backup is what the scripts before its own have made of the file.
Nested ==
  \A k \in DOMAIN order : order[k] \notin CopiesAlways =>
    \A f \in Files : <<order[k], f>> \in DOMAIN baks =>
      PartBefore(baks[<<order[k], f>>], files[f], order, k)

Complete(s) == \A n \in Required(s) : In(files[Edits[s][n].file], s, n)

\* A script is not started before the others are done, and a backup holds what
\* they had done.
FrontComplete ==
  /\ \A s \in done : Complete(s)
  /\ \A i \in 1..(Len(order) - 1) : Complete(order[i])

BackupsComplete ==
  \A k \in DOMAIN order : \A i \in 1..(k - 1) : \A f \in Files :
    <<order[k], f>> \in DOMAIN baks =>
      \A n \in Required(order[i]) :
        Edits[order[i]][n].file = f => In(baks[<<order[k], f>>], order[i], n)

\* What the script that runs has done.
Progress ==
  proc # Idle /\ proc.script \notin WholeFile =>
    \A n \in Required(proc.script) :
      n < proc.at => In(files[Edits[proc.script][n].file], proc.script, n)

\* apply_0028 among the edits of utils: it is the latest script, and what is to
\* come is not in the file.
UtilsRun ==
  proc.script = "apply_0028" /\ proc.at <= 3 =>
    /\ order[Len(order)] = "apply_0028"
    /\ \A n \in proc.at..3 : ~In(files["utils"], "apply_0028", n)
    /\ proc.at > 1 => <<"apply_0028", "utils">> \in DOMAIN baks

PatchInv ==
  /\ OrderType /\ ContentType /\ ProcType
  /\ FilesGood /\ Owned /\ BackedUp /\ Nested
  /\ FrontComplete /\ BackupsComplete /\ Progress /\ UtilsRun

-------------------------------------------------------------------------------
(* What an edit does to the content of a file. *)

LEMMA InConcat ==
  ASSUME NEW T, NEW g \in Seq(T), NEW h \in Seq(T), NEW s, NEW n
  PROVE  In(g \o h, s, n) <=> In(g, s, n) \/ In(h, s, n)
<1>1. /\ DOMAIN (g \o h) = 1..(Len(g) + Len(h)) /\ DOMAIN g = 1..Len(g) /\ DOMAIN h = 1..Len(h)
      /\ Len(g) \in Nat /\ Len(h) \in Nat
  OBVIOUS
<1>2. \A i \in DOMAIN g : (g \o h)[i] = g[i]
  OBVIOUS
<1>3. \A i \in DOMAIN h : (g \o h)[Len(g) + i] = h[i]
  OBVIOUS
<1>4. \A i \in DOMAIN (g \o h) : i \in DOMAIN g \/ (i - Len(g) \in DOMAIN h /\ i = Len(g) + (i - Len(g)))
  BY <1>1
<1>5. \A i \in DOMAIN g : i \in DOMAIN (g \o h)
  BY <1>1
<1>6. \A i \in DOMAIN h : Len(g) + i \in DOMAIN (g \o h)
  BY <1>1
<1>7. ASSUME In(g \o h, s, n)
      PROVE  In(g, s, n) \/ In(h, s, n)
  <2>1. PICK i \in DOMAIN (g \o h) : (g \o h)[i] = <<s, n>>
    BY <1>7 DEF In
  <2>2. CASE i \in DOMAIN g
    BY <1>2, <2>1, <2>2 DEF In
  <2>3. CASE i - Len(g) \in DOMAIN h /\ i = Len(g) + (i - Len(g))
    <3>1. h[i - Len(g)] = <<s, n>>
      BY <1>3, <2>1, <2>3
    <3> QED
      BY <2>3, <3>1 DEF In
  <2> QED
    BY <1>4, <2>2, <2>3
<1>8. In(g, s, n) \/ In(h, s, n) => In(g \o h, s, n)
  BY <1>2, <1>3, <1>5, <1>6 DEF In
<1> QED
  BY <1>7, <1>8

\* A list of edits of one script, each once, and none of them in the file unless
\* the script may repeat itself.
LEMMA NothingTwice ==
  ASSUME NEW g \in Seq(Ids), NEW h \in Seq(Ids), NEW s,
         \A i \in DOMAIN h : h[i][1] = s,
         \A i, j \in DOMAIN g : g[i] = g[j] /\ i # j => g[i][1] \notin Marking,
         \A i, j \in DOMAIN h : h[i] = h[j] => i = j,
         s \in CopiesAlways \/ \A i \in DOMAIN g, j \in DOMAIN h : g[i] # h[j]
  PROVE  \A i, j \in DOMAIN (g \o h) :
           (g \o h)[i] = (g \o h)[j] /\ i # j => (g \o h)[i][1] \notin Marking
<1> DEFINE c == g \o h
<1>1. /\ DOMAIN c = 1..(Len(g) + Len(h)) /\ DOMAIN g = 1..Len(g) /\ DOMAIN h = 1..Len(h)
      /\ Len(g) \in Nat /\ Len(h) \in Nat
  OBVIOUS
<1>2. \A i \in DOMAIN c : i \in DOMAIN g => c[i] = g[i]
  OBVIOUS
<1>3. \A i \in DOMAIN c : i \notin DOMAIN g => i - Len(g) \in DOMAIN h /\ c[i] = h[i - Len(g)]
  OBVIOUS
<1> HIDE DEF c
<1> SUFFICES ASSUME NEW i \in DOMAIN c, NEW j \in DOMAIN c, c[i] = c[j], i # j
             PROVE  c[i][1] \notin Marking
  BY DEF c
<1>4. s \in CopiesAlways => s \notin Marking
  BY DEF Marking
<1>5. CASE i \in DOMAIN g /\ j \in DOMAIN g
  BY <1>2, <1>5
<1>6. CASE i \notin DOMAIN g /\ j \notin DOMAIN g
  <2>1. i - Len(g) = j - Len(g)
    BY <1>3, <1>6
  <2> QED
    BY <1>1, <2>1
<1>7. CASE i \in DOMAIN g /\ j \notin DOMAIN g
  BY <1>2, <1>3, <1>4, <1>7
<1>8. CASE i \notin DOMAIN g /\ j \in DOMAIN g
  BY <1>2, <1>3, <1>4, <1>8
<1> QED
  BY <1>5, <1>6, <1>7, <1>8

LEMMA OneEdit ==
  ASSUME NEW f \in Files, NEW g \in Seq(Ids), GoodFile(g, f),
         NEW s \in DOMAIN Edits, NEW n \in DOMAIN Edits[s], s \notin WholeFile,
         ~In(g, s, n),
         s = "apply_0028" /\ n \in {2, 3} => In(g, s, 1)
  PROVE  GoodFile(g \o <<<<s, n>>>>, f)
<1> DEFINE h == <<<<s, n>>>>
<1>1. n \in Nat /\ <<s, n>> \in Ids
  BY EditFacts DEF Ids
<1>2. h \in Seq(Ids) /\ DOMAIN h = {1} /\ h[1] = <<s, n>>
  BY <1>1
<1>3. \A i \in DOMAIN g, j \in DOMAIN h : g[i] # h[j]
  BY <1>2 DEF In
<1>4. \A r, m : In(h, r, m) <=> r = s /\ m = n
  BY <1>2 DEF In
<1> HIDE DEF h
<1>5. \A i, j \in DOMAIN (g \o h) :
        (g \o h)[i] = (g \o h)[j] /\ i # j => (g \o h)[i][1] \notin Marking
  BY <1>2, <1>3, NothingTwice DEF GoodFile
<1>6. \A r, m : In(g \o h, r, m) <=> In(g, r, m) \/ (r = s /\ m = n)
  BY <1>2, <1>4, InConcat
<1> QED
  BY <1>5, <1>6 DEF GoodFile, h

LEMMA AllEdits ==
  ASSUME NEW s \in DOMAIN Edits
  PROVE  /\ All(s) \in Seq(Ids) /\ All(s) # <<>>
         /\ \A i \in DOMAIN All(s) : All(s)[i] = <<s, i>>
         /\ \A n \in DOMAIN Edits[s] : In(All(s), s, n)
         /\ \A r, n : In(All(s), r, n) => r = s
<1>1. DOMAIN Edits[s] = 1..Len(Edits[s]) /\ Len(Edits[s]) \in Nat \ {0}
  BY EditFacts
<1>2. All(s) = [n \in 1..Len(Edits[s]) |-> <<s, n>>]
  BY <1>1, EditFacts DEF All
<1>3. All(s) \in Seq(Ids) /\ Len(All(s)) = Len(Edits[s]) /\ DOMAIN All(s) = 1..Len(Edits[s])
  BY <1>1, <1>2 DEF Ids
<1>4. \A i \in DOMAIN All(s) : All(s)[i] = <<s, i>>
  BY <1>2, <1>3
<1>5. \A n \in DOMAIN Edits[s] : In(All(s), s, n)
  BY <1>1, <1>3, <1>4 DEF In
<1>6. \A r, n : In(All(s), r, n) => r = s
  BY <1>4 DEF In
<1>7. All(s) # <<>>
  BY <1>1, <1>3
<1> QED
  BY <1>3, <1>4, <1>5, <1>6, <1>7

LEMMA WholeEdit ==
  ASSUME NEW s \in WholeFile, NEW g \in Seq(Ids), GoodFile(g, TheFile(s)),
         s \in CopiesAlways \/ ~In(g, s, 1)
  PROVE  GoodFile(g \o All(s), TheFile(s))
<1> DEFINE h == All(s)
<1>1. s \in DOMAIN Edits /\ s # "apply_0028"
  BY DEF WholeFile, Edits
<1>2. /\ h \in Seq(Ids)
      /\ \A i \in DOMAIN h : h[i] = <<s, i>>
      /\ \A n \in DOMAIN Edits[s] : In(h, s, n)
      /\ \A r, n : In(h, r, n) => r = s
  BY <1>1, AllEdits
<1>3. DOMAIN h = DOMAIN Edits[s] /\ 1 \in DOMAIN Edits[s]
  BY <1>1, EditFacts DEF All
<1>4. s \in CopiesAlways \/ \A n \in DOMAIN Edits[s] : ~In(g, s, n)
  BY <1>3 DEF GoodFile
<1>5. s \in CopiesAlways \/ \A i \in DOMAIN g, j \in DOMAIN h : g[i] # h[j]
  <2> SUFFICES ASSUME s \notin CopiesAlways, NEW i \in DOMAIN g, NEW j \in DOMAIN h
               PROVE  g[i] # h[j]
    OBVIOUS
  <2>1. h[j] = <<s, j>> /\ ~In(g, s, j)
    BY <1>2, <1>3, <1>4
  <2> QED
    BY <2>1 DEF In
<1> HIDE DEF h
<1>6. \A i, j \in DOMAIN (g \o h) :
        (g \o h)[i] = (g \o h)[j] /\ i # j => (g \o h)[i][1] \notin Marking
  <2>1. \A i, j \in DOMAIN h : h[i] = h[j] => i = j
    BY <1>2
  <2>2. \A i \in DOMAIN h : h[i][1] = s
    BY <1>2
  <2> QED
    BY <1>2, <1>5, <2>1, <2>2, NothingTwice DEF GoodFile
<1>7. \A r, m : In(g \o h, r, m) <=> In(g, r, m) \/ In(h, r, m)
  BY <1>2, InConcat
<1> QED
  BY <1>1, <1>2, <1>6, <1>7 DEF GoodFile, h

-------------------------------------------------------------------------------
(* What the scripts write. *)

\* Script s adds the edits ext to file f and may have backed it up before.  It is
\* the latest script, or one that works on a file of its own.
Writes(s, f, ext) ==
  /\ order' = order
  /\ files' = [files EXCEPT ![f] = @ \o ext]
  /\ DOMAIN baks \subseteq DOMAIN baks'
  /\ \A b \in DOMAIN baks' :
       \/ b \in DOMAIN baks /\ baks'[b] = baks[b]
       \/ /\ b = <<s, f>> /\ baks'[b] = files[f]
          /\ s \in CopiesAlways \/ b \notin DOMAIN baks
  /\ ext # <<>> => s \in CopiesAlways \/ <<s, f>> \in DOMAIN baks'
  /\ \/ s = order[Len(order)]
     \/ s \in CopiesAlways /\ (ext = <<>> \/ f = "sampler")

\* Files only grow.
LEMMA WritesExtends ==
  ASSUME ContentType, NEW s, NEW f \in Files, NEW ext \in Seq(Ids), Writes(s, f, ext)
  PROVE  /\ \A h \in Files : /\ files'[h] \in Seq(Ids)
                             /\ h # f => files'[h] = files[h]
                             /\ Len(files[h]) <= Len(files'[h])
                             /\ \A i \in DOMAIN files[h] : files'[h][i] = files[h][i]
         /\ files'[f] = files[f] \o ext
         /\ files' \in [Files -> Seq(Ids)]
         /\ \A h \in Files : \A r, n : In(files[h], r, n) => In(files'[h], r, n)
         /\ \A r, n : In(ext, r, n) => In(files'[f], r, n)
<1>1. files \in [Files -> Seq(Ids)] /\ files' = [files EXCEPT ![f] = @ \o ext]
  BY DEF ContentType, Writes
<1>2. files'[f] = files[f] \o ext /\ files[f] \in Seq(Ids)
  BY <1>1
<1>3. files[f] \o ext \in Seq(Ids) /\ Len(files[f]) <= Len(files[f] \o ext)
      /\ \A i \in DOMAIN files[f] : (files[f] \o ext)[i] = files[f][i]
  BY <1>2
<1>4. \A h \in Files : h # f => files'[h] = files[h]
  BY <1>1
<1>5. \A r, n : In(files'[f], r, n) <=> In(files[f], r, n) \/ In(ext, r, n)
  BY <1>2, InConcat
<1>6. \A h \in Files : /\ files'[h] \in Seq(Ids)
                       /\ h # f => files'[h] = files[h]
                       /\ Len(files[h]) <= Len(files'[h])
                       /\ \A i \in DOMAIN files[h] : files'[h][i] = files[h][i]
  <2> TAKE h \in Files
  <2>1. CASE h = f
    BY <1>2, <1>3, <2>1
  <2>2. CASE h # f
    BY <1>1, <1>4, <2>2
  <2> QED
    BY <2>1, <2>2
<1>7. files' \in [Files -> Seq(Ids)]
  BY <1>1, <1>2, <1>3
<1> QED
  BY <1>2, <1>4, <1>5, <1>6, <1>7

LEMMA OrderFacts ==
  ASSUME PatcherConstants, OrderType
  PROVE  /\ \A s \in ToSet(order) : s \in Scripts /\ s \in DOMAIN Edits /\ \E k \in DOMAIN order : order[k] = s
         /\ \A k \in DOMAIN order : order[k] \in ToSet(order)
         /\ DOMAIN order = 1..Len(order) /\ Len(order) \in Nat
         /\ \A i, j \in DOMAIN order : order[i] = order[j] => i = j
BY DEF PatcherConstants, OrderType, ToSet

LEMMA WritesContent ==
  ASSUME PatcherConstants, OrderType, ContentType, FilesGood, Owned, BackedUp,
         NEW s \in ToSet(order), NEW f \in Files, NEW ext \in Seq(Ids),
         \A i \in DOMAIN ext : ext[i][1] = s,
         \E n \in DOMAIN Edits[s] : Edits[s][n].file = f,
         GoodFile(files[f] \o ext, f), Writes(s, f, ext)
  PROVE  ContentType' /\ FilesGood' /\ Owned' /\ BackedUp'
<1>1. /\ \A h \in Files : /\ files'[h] \in Seq(Ids)
                          /\ h # f => files'[h] = files[h]
                          /\ \A i \in DOMAIN files[h] : files'[h][i] = files[h][i]
      /\ files'[f] = files[f] \o ext
      /\ files' \in [Files -> Seq(Ids)]
  BY WritesExtends
<1>2. order' = order
  BY DEF Writes
<1>3. \A b \in DOMAIN baks' : \/ b \in DOMAIN baks /\ baks'[b] = baks[b]
                              \/ b = <<s, f>> /\ baks'[b] = files[f]
  BY DEF Writes
<1>4. files[f] \in Seq(Ids)
  BY DEF ContentType
<1>5. ContentType'
  <2>1. \A b \in DOMAIN baks' : /\ b \in ToSet(order) \X Files
                                /\ baks'[b] \in Seq(Ids)
                                /\ \E n \in DOMAIN Edits[b[1]] : Edits[b[1]][n].file = b[2]
    <3> TAKE b \in DOMAIN baks'
    <3>1. CASE b \in DOMAIN baks /\ baks'[b] = baks[b]
      BY <3>1 DEF ContentType
    <3>2. CASE b = <<s, f>> /\ baks'[b] = files[f]
      BY <1>4, <3>2
    <3> QED
      BY <1>3, <3>1, <3>2
  <2> QED
    BY <1>1, <1>2, <2>1 DEF ContentType
<1>6. FilesGood'
  <2>1. \A h \in Files : GoodFile(files'[h], h)
    BY <1>1 DEF FilesGood
  <2>2. \A b \in DOMAIN baks' : GoodFile(baks'[b], b[2])
    <3> TAKE b \in DOMAIN baks'
    <3>1. CASE b \in DOMAIN baks /\ baks'[b] = baks[b]
      BY <3>1 DEF FilesGood
    <3>2. CASE b = <<s, f>> /\ baks'[b] = files[f]
      BY <3>2 DEF FilesGood
    <3> QED
      BY <1>3, <3>1, <3>2
  <2> QED
    BY <2>1, <2>2 DEF FilesGood
<1>7. \A h \in Files : \A i \in DOMAIN files'[h] :
        \/ i \in DOMAIN files[h] /\ files'[h][i] = files[h][i]
        \/ h = f /\ ext # <<>> /\ files'[h][i][1] = s
  <2> TAKE h \in Files
  <2> TAKE i \in DOMAIN files'[h]
  <2>1. CASE h # f
    BY <1>1, <2>1
  <2>2. CASE h = f
    <3>1. /\ Len(files[f]) \in Nat /\ Len(ext) \in Nat
          /\ DOMAIN files[f] = 1..Len(files[f]) /\ DOMAIN ext = 1..Len(ext)
          /\ DOMAIN (files[f] \o ext) = 1..(Len(files[f]) + Len(ext))
      BY <1>4
    <3>2. CASE i \in DOMAIN files[f]
      BY <1>1, <2>2, <3>2
    <3>3. CASE i \notin DOMAIN files[f]
      <4>1. i - Len(files[f]) \in DOMAIN ext
        BY <1>1, <2>2, <3>1, <3>3
      <4>2. (files[f] \o ext)[i] = ext[i - Len(files[f])]
        BY <1>1, <1>4, <2>2, <3>1, <3>3
      <4> QED
        BY <1>1, <2>2, <4>1, <4>2
    <3> QED
      BY <3>2, <3>3
  <2> QED
    BY <2>1, <2>2
<1>8. Owned'
  BY <1>2, <1>7 DEF Owned
<1>9. BackedUp'
  <2>1. DOMAIN baks \subseteq DOMAIN baks' /\ (ext # <<>> => s \in CopiesAlways \/ <<s, f>> \in DOMAIN baks')
    BY DEF Writes
  <2> QED
    BY <1>2, <1>7, <2>1 DEF BackedUp
<1> QED
  BY <1>5, <1>6, <1>8, <1>9

LEMMA WritesNested ==
  ASSUME PatcherConstants, OrderType, ContentType, Owned, BackedUp, Nested,
         NEW s \in ToSet(order), NEW f \in Files, NEW ext \in Seq(Ids),
         \A i \in DOMAIN ext : ext[i][1] = s, Writes(s, f, ext)
  PROVE  Nested'
<1>1. /\ \A h \in Files : /\ files[h] \in Seq(Ids) /\ files'[h] \in Seq(Ids)
                          /\ h # f => files'[h] = files[h]
                          /\ Len(files[h]) <= Len(files'[h])
                          /\ \A i \in DOMAIN files[h] : files'[h][i] = files[h][i]
      /\ files'[f] = files[f] \o ext
  BY WritesExtends DEF ContentType
<1>2. /\ DOMAIN order = 1..Len(order) /\ Len(order) \in Nat
      /\ \A i, j \in DOMAIN order : order[i] = order[j] => i = j
      /\ \A k \in DOMAIN order : order[k] \in ToSet(order) /\ order[k] \in DOMAIN Edits
  BY OrderFacts
<1>3. \A h \in Files : \A i \in DOMAIN files'[h] :
        i \notin DOMAIN files[h] => h = f /\ ext # <<>> /\ files'[h][i][1] = s
  <2> SUFFICES ASSUME NEW h \in Files, NEW i \in DOMAIN files'[h], i \notin DOMAIN files[h]
               PROVE  h = f /\ ext # <<>> /\ files'[h][i][1] = s
    OBVIOUS
  <2>1. h = f
    BY <1>1
  <2>2. /\ Len(files[f]) \in Nat /\ Len(ext) \in Nat
        /\ DOMAIN files[f] = 1..Len(files[f]) /\ DOMAIN ext = 1..Len(ext)
        /\ DOMAIN (files[f] \o ext) = 1..(Len(files[f]) + Len(ext))
    BY <1>1
  <2>3. i - Len(files[f]) \in DOMAIN ext
    BY <1>1, <2>1, <2>2
  <2>4. (files[f] \o ext)[i] = ext[i - Len(files[f])]
    BY <1>1, <2>1, <2>2
  <2> QED
    BY <1>1, <2>1, <2>2, <2>3, <2>4
<1>4. order' = order
  BY DEF Writes
<1> SUFFICES ASSUME NEW k \in DOMAIN order, order[k] \notin CopiesAlways, NEW h \in Files,
                    <<order[k], h>> \in DOMAIN baks'
             PROVE  PartBefore(baks'[<<order[k], h>>], files'[h], order, k)
  BY <1>4 DEF Nested
<1> DEFINE b == <<order[k], h>>
           g == baks'[b]
           Before(x) == \E j \in 1..(k - 1) : x[1] = order[j]
<1>5. \/ b \in DOMAIN baks /\ g = baks[b]
      \/ b = <<s, f>> /\ g = files[f] /\ b \notin DOMAIN baks /\ order[k] = s /\ h = f
  BY DEF Writes
<1>6. /\ Len(files[h]) \in Nat /\ DOMAIN files[h] = 1..Len(files[h])
      /\ Len(files'[h]) \in Nat /\ DOMAIN files'[h] = 1..Len(files'[h])
  BY <1>1
<1>7. CASE b \in DOMAIN baks /\ g = baks[b]
  <2>1. /\ Len(g) <= Len(files[h])
        /\ \A i \in 1..Len(g) : g[i] = files[h][i]
        /\ \A i \in DOMAIN files[h] : Before(files[h][i]) <=> i <= Len(g)
        /\ g \in Seq(Ids) /\ Len(g) \in Nat
    BY <1>7 DEF Nested, PartBefore, ContentType
  <2>2. ASSUME NEW i \in DOMAIN files'[h], i \notin DOMAIN files[h]
        PROVE  ~Before(files'[h][i])
    <3>1. h = f /\ ext # <<>> /\ files'[h][i][1] = s
      BY <1>3, <2>2
    <3>2. CASE s = order[Len(order)]
      BY <1>2, <3>1, <3>2
    <3>3. CASE s \in CopiesAlways /\ f = "sampler"
      <4>1. PICK n \in DOMAIN Edits[order[k]] : Edits[order[k]][n].file = "sampler"
        BY <1>7, <3>1, <3>3 DEF ContentType
      <4>2. order[k] = "apply_0020"
        BY <1>2, <4>1, EditFacts
      <4> QED
        BY <4>2 DEF CopiesAlways
    <3> QED
      BY <3>1, <3>2, <3>3 DEF Writes
  <2>3. \A i \in DOMAIN files'[h] : Before(files'[h][i]) <=> i <= Len(g)
    <3> TAKE i \in DOMAIN files'[h]
    <3>1. CASE i \in DOMAIN files[h]
      <4>1. files'[h][i] = files[h][i] /\ (Before(files[h][i]) <=> i <= Len(g))
        BY <1>1, <2>1, <3>1
      <4> QED
        BY <4>1
    <3>2. CASE i \notin DOMAIN files[h]
      <4>1. ~(i <= Len(g))
        BY <1>6, <2>1, <3>2
      <4> QED
        BY <2>2, <3>2, <4>1
    <3> QED
      BY <3>1, <3>2
  <2>4. Len(g) <= Len(files'[h])
    BY <1>1, <1>6, <2>1
  <2>5. ASSUME NEW i \in 1..Len(g)
        PROVE  g[i] = files'[h][i]
    <3>1. i \in DOMAIN files[h]
      BY <1>6, <2>1
    <3> QED
      BY <1>1, <2>1, <3>1
  <2> QED
    BY <2>3, <2>4, <2>5 DEF PartBefore
<1>8. CASE b = <<s, f>> /\ g = files[f] /\ b \notin DOMAIN baks /\ order[k] = s /\ h = f
  <2>1. s = order[Len(order)] /\ k = Len(order)
    BY <1>2, <1>8 DEF Writes
  <2>2. ASSUME NEW i \in DOMAIN files[h]
        PROVE  Before(files[h][i])
    <3>1. files[h][i][1] \in ToSet(order) /\ files[h][i][1] # s
      BY <1>8 DEF Owned, BackedUp
    <3>2. PICK j \in DOMAIN order : files[h][i][1] = order[j]
      BY <3>1, OrderFacts
    <3> QED
      BY <1>2, <2>1, <3>1, <3>2
  <2>3. \A i \in DOMAIN files'[h] : Before(files'[h][i]) <=> i <= Len(g)
    <3> TAKE i \in DOMAIN files'[h]
    <3>1. CASE i \in DOMAIN files[h]
      <4>1. Before(files[h][i]) /\ files'[h][i] = files[h][i]
        BY <1>1, <2>2, <3>1
      <4> QED
        BY <1>6, <1>8, <3>1, <4>1
    <3>2. CASE i \notin DOMAIN files[h]
      <4>1. files'[h][i][1] = s
        BY <1>3, <3>2
      <4>2. ~Before(files'[h][i])
        BY <1>2, <2>1, <4>1
      <4> QED
        BY <1>6, <1>8, <3>2, <4>2
    <3> QED
      BY <3>1, <3>2
  <2> QED
    BY <1>1, <1>6, <1>8, <2>3 DEF PartBefore
<1> QED
  BY <1>5, <1>7, <1>8

LEMMA WritesComplete ==
  ASSUME PatcherConstants, OrderType, ContentType, FrontComplete, BackupsComplete,
         NEW s \in ToSet(order), NEW f \in Files, NEW ext \in Seq(Ids), Writes(s, f, ext)
  PROVE  /\ \A r \in DOMAIN Edits : Complete(r) => Complete(r)'
         /\ BackupsComplete'
<1>1. \A h \in Files : \A r, n : In(files[h], r, n) => In(files'[h], r, n)
  BY WritesExtends
<1>2. /\ DOMAIN order = 1..Len(order) /\ Len(order) \in Nat
      /\ \A i, j \in DOMAIN order : order[i] = order[j] => i = j
      /\ \A k \in DOMAIN order : order[k] \in ToSet(order) /\ order[k] \in DOMAIN Edits
  BY OrderFacts
<1>3. \A r \in DOMAIN Edits : Complete(r) => Complete(r)'
  <2> SUFFICES ASSUME NEW r \in DOMAIN Edits, Complete(r), NEW n \in Required(r)
               PROVE  In(files'[Edits[r][n].file], r, n)
    BY DEF Complete, Required, In
  <2>1. Edits[r][n].file \in Files
    BY RequiredEdits, EditFacts
  <2> QED
    BY <1>1, <2>1 DEF Complete
<1>4. BackupsComplete'
  <2>1. order' = order
    BY DEF Writes
  <2> SUFFICES ASSUME NEW k \in DOMAIN order, NEW i \in 1..(k - 1), NEW h \in Files,
                      <<order[k], h>> \in DOMAIN baks',
                      NEW n \in Required(order[i]), Edits[order[i]][n].file = h
               PROVE  In(baks'[<<order[k], h>>], order[i], n)
    BY <2>1 DEF BackupsComplete, Required, In
  <2>2. \/ <<order[k], h>> \in DOMAIN baks /\ baks'[<<order[k], h>>] = baks[<<order[k], h>>]
        \/ <<order[k], h>> = <<s, f>> /\ baks'[<<order[k], h>>] = files[f]
    BY DEF Writes
  <2>3. CASE <<order[k], h>> \in DOMAIN baks /\ baks'[<<order[k], h>>] = baks[<<order[k], h>>]
    BY <2>3 DEF BackupsComplete
  <2>4. CASE <<order[k], h>> = <<s, f>> /\ baks'[<<order[k], h>>] = files[f]
    <3>1. h = f /\ i \in 1..(Len(order) - 1)
      BY <1>2, <2>4
    <3>2. In(files[h], order[i], n)
      BY <3>1 DEF FrontComplete, Complete
    <3> QED
      BY <2>4, <3>1, <3>2
  <2> QED
    BY <2>2, <2>3, <2>4
<1> QED
  BY <1>3, <1>4
\* A script that is not the latest has all its edits in.
LEMMA LatestOrComplete ==
  ASSUME PatcherConstants, OrderType, FrontComplete, NEW s \in ToSet(order)
  PROVE  s = order[Len(order)] \/ Complete(s)
<1>1. PICK k \in DOMAIN order : order[k] = s
  BY OrderFacts
<1>2. DOMAIN order = 1..Len(order) /\ Len(order) \in Nat
  BY OrderFacts
<1>3. CASE k = Len(order)
  BY <1>1, <1>3
<1>4. CASE k # Len(order)
  <2>1. k \in 1..(Len(order) - 1)
    BY <1>2, <1>4
  <2> QED
    BY <1>1, <2>1 DEF FrontComplete
<1> QED
  BY <1>3, <1>4

\* What a write preserves of the invariant, for every script.
LEMMA WritesKeep ==
  ASSUME PatcherConstants, PatchInv,
         NEW s \in ToSet(order), NEW f \in Files, NEW ext \in Seq(Ids),
         \A i \in DOMAIN ext : ext[i][1] = s,
         \E n \in DOMAIN Edits[s] : Edits[s][n].file = f,
         GoodFile(files[f] \o ext, f), Writes(s, f, ext),
         done' = done \/ (done' = done \cup {s} /\ Complete(s)')
  PROVE  /\ OrderType' /\ ContentType' /\ FilesGood' /\ Owned' /\ BackedUp' /\ Nested'
         /\ FrontComplete' /\ BackupsComplete'
<1>1. OrderType /\ ContentType /\ FilesGood /\ Owned /\ BackedUp /\ Nested
      /\ FrontComplete /\ BackupsComplete
  BY DEF PatchInv
<1>2. order' = order
  BY DEF Writes
<1>3. OrderType'
  BY <1>1, <1>2 DEF OrderType
<1>4. ContentType' /\ FilesGood' /\ Owned' /\ BackedUp'
  BY <1>1, WritesContent
<1>5. Nested'
  BY <1>1, WritesNested
<1>6. (\A r \in DOMAIN Edits : Complete(r) => Complete(r)') /\ BackupsComplete'
  BY <1>1, WritesComplete
<1>7. FrontComplete'
  <2>1. \A r \in ToSet(order) : r \in DOMAIN Edits
    BY <1>1, OrderFacts
  <2>2. \A r \in done' : Complete(r)'
    BY <1>1, <1>6, <2>1 DEF FrontComplete, OrderType
  <2>3. \A i \in 1..(Len(order) - 1) : Complete(order[i])'
    <3> TAKE i \in 1..(Len(order) - 1)
    <3>1. i \in DOMAIN order
      BY <1>1, OrderFacts
    <3>2. order[i] \in DOMAIN Edits /\ Complete(order[i])
      BY <1>1, <2>1, <3>1, OrderFacts DEF FrontComplete
    <3> QED
      BY <1>2, <1>6, <3>2
  <2> QED
    BY <1>2, <2>2, <2>3 DEF FrontComplete
<1> QED
  BY <1>3, <1>4, <1>5, <1>6, <1>7

\* A write of nothing changes no file.
LEMMA NothingWritten ==
  ASSUME ContentType, NEW f \in Files
  PROVE  files = [files EXCEPT ![f] = @ \o <<>>] /\ files[f] \o <<>> = files[f]
<1>1. files \in [Files -> Seq(Ids)]
  BY DEF ContentType
<1>2. files[f] \o <<>> = files[f]
  BY <1>1
<1> QED
  BY <1>1, <1>2

LEMMA BackupIsSafe ==
  ASSUME NEW s, NEW f,
         \/ baks' = baks
         \/ baks' = Backup(s, f)
         \/ s \in CopiesAlways /\ baks' = BackupAnew(s, f)
  PROVE  /\ DOMAIN baks \subseteq DOMAIN baks'
         /\ \A b \in DOMAIN baks' :
              \/ b \in DOMAIN baks /\ baks'[b] = baks[b]
              \/ /\ b = <<s, f>> /\ baks'[b] = files[f]
                 /\ s \in CopiesAlways \/ b \notin DOMAIN baks
         /\ baks' = Backup(s, f) => <<s, f>> \in DOMAIN baks'
BY DEF Backup, BackupAnew

-------------------------------------------------------------------------------
(* The steps. *)

\* The edit that a script which looks for markers is at, if it is not in yet.
LEMMA CurrentEdit ==
  ASSUME PatcherConstants, PatchInv, NEW s \in Scripts, Running(s), s \notin WholeFile,
         ~Past(s), ~Marked(files[Current(s).file], Current(s))
  PROVE  /\ proc.at \in DOMAIN Edits[s] /\ s \in DOMAIN Edits /\ s \in ToSet(order)
         /\ Current(s).file \in Files /\ Current(s).id = <<s, proc.at>>
         /\ ~In(files[Current(s).file], s, proc.at)
         /\ s = order[Len(order)]
         /\ s = "apply_0028" /\ proc.at \in {2, 3} =>
              In(files[Current(s).file], s, 1) /\ <<s, Current(s).file>> \in DOMAIN baks
<1> DEFINE n == proc.at
           e == Edits[s][n]
<1>1. s \in DOMAIN Edits
  BY DEF PatcherConstants
<1>2. proc.script = s /\ proc # Idle /\ s \in ToSet(order) /\ n >= 1 /\ n \in Nat
  <2>1. s # "none"
    BY <1>1, EditFacts
  <2> QED
    BY <2>1 DEF PatchInv, ProcType, Running, Idle
<1>3. n \in DOMAIN Edits[s]
  BY <1>1, <1>2, EditFacts DEF Past
<1>4. e.file \in Files /\ e.id = <<s, n>> /\ Current(s) = e
  BY <1>1, <1>3, EditFacts DEF Current
<1>5. s = order[Len(order)] \/ Complete(s)
  BY <1>2, LatestOrComplete DEF PatchInv
<1>6. CASE s = "apply_0028" /\ n \in {2, 3}
  <2>1. e.file = "utils"
    BY <1>1, <1>3, <1>6, EditFacts
  <2>2. /\ order[Len(order)] = "apply_0028"
        /\ ~In(files["utils"], "apply_0028", n)
        /\ <<"apply_0028", "utils">> \in DOMAIN baks
    BY <1>2, <1>6 DEF PatchInv, UtilsRun
  <2>3. In(files["utils"], "apply_0028", 1)
    <3>1. Edits["apply_0028"][1].file = "utils" /\ 1 \in Required("apply_0028")
      BY <1>1, <1>6, EditFacts, RequiredEdits
    <3> QED
      BY <1>2, <1>6, <3>1 DEF PatchInv, Progress
  <2> QED
    BY <1>1, <1>2, <1>3, <1>4, <1>6, <2>1, <2>2, <2>3
<1>7. CASE ~(s = "apply_0028" /\ n \in {2, 3})
  <2>1. e.mark
    BY <1>1, <1>3, <1>7, EditFacts
  <2>2. ~In(files[e.file], s, n)
    BY <1>1, <1>3, <1>4, <2>1, HasIsIn DEF Marked
  <2>3. n \in Required(s)
    BY <1>1, <1>3, <1>7, EditFacts DEF Required
  <2>4. s = order[Len(order)]
    BY <1>5, <2>2, <2>3 DEF Complete
  <2> QED
    BY <1>1, <1>2, <1>3, <1>4, <1>7, <2>2, <2>4
<1> QED
  BY <1>6, <1>7

LEMMA ApplyStep ==
  ASSUME PatcherConstants, PatchInv, NEW s \in Scripts, Apply(s)
  PROVE  PatchInv'
<1> DEFINE n == proc.at
           f == Current(s).file
           ext == <<<<s, n>>>>
<1>1. /\ n \in DOMAIN Edits[s] /\ s \in DOMAIN Edits /\ s \in ToSet(order)
      /\ f \in Files /\ Current(s).id = <<s, n>> /\ s \notin WholeFile
      /\ ~In(files[f], s, n)
      /\ s = order[Len(order)]
      /\ s = "apply_0028" /\ n \in {2, 3} => In(files[f], s, 1) /\ <<s, f>> \in DOMAIN baks
  BY CurrentEdit DEF Apply
<1>2. Current(s) = Edits[s][n] /\ f = Edits[s][n].file
  BY DEF Current
<1>3. n \in Nat /\ <<s, n>> \in Ids /\ ext \in Seq(Ids)
  <2>1. n \in Nat
    BY <1>1, EditFacts
  <2> QED
    BY <1>1, <2>1 DEF Ids
<1>4. files \in [Files -> Seq(Ids)] /\ files[f] \in Seq(Ids)
  BY <1>1 DEF PatchInv, ContentType
<1>5. files' = [files EXCEPT ![f] = @ \o ext]
  <2>1. files' = [files EXCEPT ![f] = Append(@, <<s, n>>)]
    BY <1>1 DEF Apply
  <2>2. Append(files[f], <<s, n>>) = files[f] \o ext
    BY <1>3, <1>4, AppendIsConcat
  <2> QED
    BY <1>4, <2>1, <2>2
<1>6. GoodFile(files[f] \o ext, f)
  BY <1>1, <1>4, OneEdit DEF PatchInv, FilesGood
<1>7. Writes(s, f, ext)
  <2>1. baks' = baks \/ baks' = Backup(s, f)
    BY DEF Apply
  <2>2. /\ DOMAIN baks \subseteq DOMAIN baks'
        /\ \A b \in DOMAIN baks' :
             \/ b \in DOMAIN baks /\ baks'[b] = baks[b]
             \/ /\ b = <<s, f>> /\ baks'[b] = files[f]
                /\ s \in CopiesAlways \/ b \notin DOMAIN baks
        /\ baks' = Backup(s, f) => <<s, f>> \in DOMAIN baks'
    BY <2>1, BackupIsSafe
  <2>3. <<s, f>> \in DOMAIN baks'
    <3>1. CASE s = "apply_0028" /\ n \in {2, 3}
      BY <1>1, <2>2, <3>1
    <3>2. CASE ~(s = "apply_0028" /\ n \in {2, 3})
      <4>1. Current(s).bak
        BY <1>1, <1>2, <3>2, EditFacts
      <4> QED
        BY <2>2, <4>1 DEF Apply
    <3> QED
      BY <3>1, <3>2
  <2>4. order' = order
    BY DEF Apply
  <2> QED
    BY <1>1, <1>5, <2>2, <2>3, <2>4 DEF Writes
<1>8. /\ OrderType' /\ ContentType' /\ FilesGood' /\ Owned' /\ BackedUp' /\ Nested'
      /\ FrontComplete' /\ BackupsComplete'
  <2>1. \A i \in DOMAIN ext : ext[i][1] = s
    OBVIOUS
  <2>2. done' = done
    BY DEF Apply
  <2>3. \E m \in DOMAIN Edits[s] : Edits[s][m].file = f
    BY <1>1, <1>2
  <2> HIDE DEF ext, f, n
  <2> QED
    BY <1>1, <1>3, <1>6, <1>7, <2>1, <2>2, <2>3, WritesKeep
<1>9. proc' = [proc EXCEPT !.at = n + 1] /\ order' = order /\ proc.script = s
      /\ n <= Len(Edits[s])
  <2>1. n <= Len(Edits[s])
    BY <1>1, EditFacts
  <2> QED
    BY <2>1 DEF Apply, Running
<1>10. /\ proc \in [script : Scripts \cup {"none"}, at : Nat]
       /\ proc'.script = s /\ proc'.at = n + 1
  BY <1>9 DEF PatchInv, ProcType
<1>11. ProcType'
  BY <1>1, <1>3, <1>9, <1>10 DEF ProcType
<1>12. /\ \A h \in Files : \A r, m : In(files[h], r, m) => In(files'[h], r, m)
       /\ In(files'[f], s, n)
       /\ \A h \in Files : h # f => files'[h] = files[h]
       /\ files'[f] = files[f] \o ext
  <2>1. In(ext, s, n)
    BY DEF In
  <2>2. ContentType
    BY DEF PatchInv
  <2> HIDE DEF ext, f, n
  <2> QED
    BY <1>1, <1>3, <1>7, <2>1, <2>2, WritesExtends
<1>13. Progress'
  <2> SUFFICES ASSUME NEW m \in Required(s), m < n + 1
               PROVE  In(files'[Edits[s][m].file], s, m)
    BY <1>1, <1>10 DEF Progress, Required, In
  <2>1. m \in DOMAIN Edits[s] /\ m \in Nat /\ Edits[s][m].file \in Files
    BY <1>1, RequiredEdits, EditFacts
  <2>2. CASE m = n
    BY <1>2, <1>12, <2>2
  <2>3. CASE m < n
    <3>1. proc # Idle
      BY <1>1, <1>9, EditFacts DEF Idle
    <3>2. In(files[Edits[s][m].file], s, m)
      BY <1>1, <1>9, <2>3, <3>1 DEF PatchInv, Progress
    <3> QED
      BY <1>12, <2>1, <3>2
  <2> QED
    BY <1>3, <2>1, <2>2, <2>3
<1>14. UtilsRun'
  <2> SUFFICES ASSUME s = "apply_0028", n + 1 <= 3
               PROVE  /\ order[Len(order)] = "apply_0028"
                      /\ \A m \in (n + 1)..3 : ~In(files'["utils"], "apply_0028", m)
                      /\ <<"apply_0028", "utils">> \in DOMAIN baks'
    BY <1>9, <1>10 DEF UtilsRun, In
  <2>1. f = "utils" /\ n \in {1, 2}
    BY <1>1, <1>2, <1>3, EditFacts
  <2>2. <<s, f>> \in DOMAIN baks'
    BY <1>7, <1>1 DEF Writes, CopiesAlways, WholeFile
  <2>3. \A m \in n..3 : ~In(files["utils"], "apply_0028", m)
    BY <1>9, <2>1 DEF PatchInv, UtilsRun
  <2>4. \A m : In(ext, s, m) => m = n
    BY DEF In
  <2>5. \A m : In(files'["utils"], s, m) <=> In(files["utils"], s, m) \/ In(ext, s, m)
    <3>1. /\ files'["utils"] = files["utils"] \o ext
          /\ files["utils"] \in Seq(Ids) /\ ext \in Seq(Ids)
      BY <1>3, <1>4, <1>12, <2>1
    <3> HIDE DEF ext, f, n
    <3> QED
      BY <3>1, InConcat
  <2>6. \A m \in (n + 1)..3 : ~In(files'["utils"], "apply_0028", m)
    BY <1>3, <2>3, <2>4, <2>5
  <2> QED
    BY <1>1, <2>1, <2>2, <2>6
<1> QED
  BY <1>8, <1>11, <1>13, <1>14 DEF PatchInv
\* A script that has ended leaves nothing to say of its next edit.
LEMMA IdleAfter ==
  ASSUME proc' = Idle
  PROVE  ProcType' /\ Progress' /\ UtilsRun'
<1>1. proc'.script = "none" /\ Idle \in [script : Scripts' \cup {"none"}, at : Nat]
  BY DEF Idle
<1> QED
  BY <1>1 DEF ProcType, Progress, UtilsRun

\* Steps that touch no file.
LEMMA FilesKept ==
  ASSUME PatchInv, UNCHANGED <<files, baks, order>>,
         NEW s \in ToSet(order),
         done' \subseteq done \/ (done' = done \cup {s} /\ Complete(s))
  PROVE  /\ OrderType' /\ ContentType' /\ FilesGood' /\ Owned' /\ BackedUp' /\ Nested'
         /\ FrontComplete' /\ BackupsComplete'
<1>1. OrderType' /\ ContentType' /\ FilesGood' /\ Owned' /\ BackedUp' /\ Nested'
  BY DEF PatchInv, OrderType, ContentType, FilesGood, Owned, BackedUp, Nested
<1>2. BackupsComplete'
  BY DEF PatchInv, BackupsComplete, Required, In
<1>3. \A r : Complete(r) => Complete(r)'
  BY DEF Complete, Required, In
<1>4. FrontComplete'
  BY <1>3 DEF PatchInv, FrontComplete
<1> QED
  BY <1>1, <1>2, <1>4

LEMMA FailStep ==
  ASSUME PatcherConstants, PatchInv, NEW s \in Scripts, Fail(s)
  PROVE  PatchInv'
<1> DEFINE f == Current(s).file
<1>1. /\ proc.at \in DOMAIN Edits[s] /\ s \in DOMAIN Edits /\ s \in ToSet(order)
      /\ f \in Files /\ s = order[Len(order)]
  BY CurrentEdit DEF Fail
<1>2. f = Edits[s][proc.at].file
  BY DEF Current
<1>3. files = [files EXCEPT ![f] = @ \o <<>>] /\ files[f] \o <<>> = files[f]
  BY <1>1, NothingWritten DEF PatchInv
<1>4. Writes(s, f, <<>>)
  <2>1. baks' = baks \/ baks' = Backup(s, f)
    BY DEF Fail
  <2>2. /\ DOMAIN baks \subseteq DOMAIN baks'
        /\ \A b \in DOMAIN baks' :
             \/ b \in DOMAIN baks /\ baks'[b] = baks[b]
             \/ /\ b = <<s, f>> /\ baks'[b] = files[f]
                /\ s \in CopiesAlways \/ b \notin DOMAIN baks
    BY <2>1, BackupIsSafe
  <2>3. order' = order /\ files' = files
    BY DEF Fail
  <2> QED
    BY <1>1, <1>3, <2>2, <2>3 DEF Writes
<1>5. GoodFile(files[f] \o <<>>, f)
  BY <1>1, <1>3 DEF PatchInv, FilesGood
<1>6. done' = done /\ proc' = Idle
  BY DEF Fail
<1>7. \E m \in DOMAIN Edits[s] : Edits[s][m].file = f
  BY <1>1, <1>2
<1> HIDE DEF f
<1>8. /\ OrderType' /\ ContentType' /\ FilesGood' /\ Owned' /\ BackedUp' /\ Nested'
      /\ FrontComplete' /\ BackupsComplete'
  <2>1. <<>> \in Seq(Ids) /\ \A i \in DOMAIN <<>> : <<>>[i][1] = s
    OBVIOUS
  <2> QED
    BY <1>1, <1>4, <1>5, <1>6, <1>7, <2>1, WritesKeep
<1> QED
  BY <1>6, <1>8, IdleAfter DEF PatchInv

\* The script that runs, and what it has been started for.
LEMMA RunningScript ==
  ASSUME PatcherConstants, PatchInv, NEW s \in Scripts, Running(s)
  PROVE  /\ s \in DOMAIN Edits /\ s # "none" /\ proc # Idle
         /\ s \in ToSet(order)
         /\ proc.at \in Nat /\ proc.at >= 1 /\ proc.at <= Len(Edits[s]) + 1
         /\ s \in WholeFile => proc.at = 1
<1>1. s \in DOMAIN Edits /\ s # "none"
  BY EditFacts DEF PatcherConstants
<1>2. proc # Idle
  BY <1>1 DEF Running, Idle
<1> QED
  BY <1>1, <1>2 DEF PatchInv, ProcType, Running

LEMMA SkipStep ==
  ASSUME PatcherConstants, PatchInv, NEW s \in Scripts, Skip(s)
  PROVE  PatchInv'
<1> DEFINE n == proc.at
<1>1. /\ s \in DOMAIN Edits /\ s # "none" /\ proc # Idle /\ s \in ToSet(order)
      /\ n \in Nat /\ n >= 1 /\ proc.script = s /\ s \notin WholeFile
  BY RunningScript DEF Skip, Running
<1>2. n \in DOMAIN Edits[s] /\ n <= Len(Edits[s])
  BY <1>1, EditFacts DEF Skip, Past
<1>3. UNCHANGED <<files, baks, order, done>>
  BY DEF Skip
<1>4. proc \in [script : Scripts \cup {"none"}, at : Nat]
  BY DEF PatchInv, ProcType
<1>5. proc' = [proc EXCEPT !.at = n + 1] /\ proc'.script = s /\ proc'.at = n + 1
  BY <1>1, <1>4 DEF Skip
<1>6. Edits[s][n].mark /\ In(files[Edits[s][n].file], s, n)
  BY <1>1, <1>2, HasIsIn DEF Skip, Marked, Current
<1>7. ProcType'
  BY <1>1, <1>2, <1>3, <1>4, <1>5 DEF ProcType
<1>8. Progress'
  <2> SUFFICES ASSUME NEW m \in Required(s), m < n + 1
               PROVE  In(files[Edits[s][m].file], s, m)
    BY <1>3, <1>5 DEF Progress, Required, In
  <2>1. m \in Nat
    BY <1>1, RequiredEdits, EditFacts
  <2>2. CASE m = n
    BY <1>6, <2>2
  <2>3. CASE m < n
    BY <1>1, <2>3 DEF PatchInv, Progress
  <2> QED
    BY <1>1, <2>1, <2>2, <2>3
<1>9. UtilsRun'
  <2> SUFFICES ASSUME s = "apply_0028", n + 1 <= 3
               PROVE  FALSE
    BY <1>5 DEF UtilsRun
  <2>1. Edits[s][n].file = "utils"
    BY <1>1, <1>2, EditFacts
  <2>2. ~In(files["utils"], "apply_0028", n)
    BY <1>1 DEF PatchInv, UtilsRun
  <2> QED
    BY <1>6, <2>1, <2>2
<1>10. /\ OrderType' /\ ContentType' /\ FilesGood' /\ Owned' /\ BackedUp' /\ Nested'
       /\ FrontComplete' /\ BackupsComplete'
  BY <1>1, <1>3, FilesKept
<1> QED
  BY <1>7, <1>8, <1>9, <1>10 DEF PatchInv

LEMMA SucceedStep ==
  ASSUME PatcherConstants, PatchInv, NEW s \in Scripts, Succeed(s)
  PROVE  PatchInv'
<1>1. /\ s \in DOMAIN Edits /\ proc # Idle /\ s \in ToSet(order) /\ proc.script = s
      /\ s \in WholeFile => proc.at = 1
  BY RunningScript DEF Succeed, Running
<1>2. Len(Edits[s]) \in Nat \ {0} /\ DOMAIN Edits[s] = 1..Len(Edits[s]) /\ proc.at \in Nat
  BY <1>1, EditFacts DEF PatchInv, ProcType
<1>3. s \notin WholeFile /\ \A n \in DOMAIN Edits[s] : n < proc.at
  BY <1>1, <1>2 DEF Succeed, Past
<1>4. Complete(s)
  <2> SUFFICES ASSUME NEW n \in Required(s)
               PROVE  In(files[Edits[s][n].file], s, n)
    BY DEF Complete
  <2>1. n < proc.at
    BY <1>1, <1>3, RequiredEdits
  <2> QED
    BY <1>1, <1>3, <2>1 DEF PatchInv, Progress
<1>5. UNCHANGED <<files, baks, order>> /\ done' = done \cup {s} /\ proc' = Idle
  BY DEF Succeed
<1>6. /\ OrderType' /\ ContentType' /\ FilesGood' /\ Owned' /\ BackedUp' /\ Nested'
      /\ FrontComplete' /\ BackupsComplete'
  BY <1>1, <1>4, <1>5, FilesKept
<1> QED
  BY <1>5, <1>6, IdleAfter DEF PatchInv

LEMMA KillStep ==
  ASSUME PatcherConstants, PatchInv, Kill
  PROVE  PatchInv'
<1>1. proc.script \in ToSet(order)
  BY DEF PatchInv, ProcType, Kill
<1>2. UNCHANGED <<files, baks, order, done>> /\ proc' = Idle
  BY DEF Kill
<1>3. /\ OrderType' /\ ContentType' /\ FilesGood' /\ Owned' /\ BackedUp' /\ Nested'
      /\ FrontComplete' /\ BackupsComplete'
  BY <1>1, <1>2, FilesKept
<1> QED
  BY <1>2, <1>3, IdleAfter DEF PatchInv

\* A script that writes its file once has all its edits in it or none.
LEMMA WholeIsComplete ==
  ASSUME PatcherConstants, PatchInv, NEW s \in WholeFile,
         In(files[TheFile(s)], s, 1)
  PROVE  Complete(s)
<1>1. s \in DOMAIN Edits /\ s # "apply_0028"
  BY DEF WholeFile, Edits
<1>2. TheFile(s) \in Files /\ 1 \in DOMAIN Edits[s]
      /\ \A n \in DOMAIN Edits[s] : Edits[s][n].file = TheFile(s)
  BY <1>1, EditFacts DEF TheFile
<1>3. \A n \in DOMAIN Edits[s] : In(files[TheFile(s)], s, n)
  BY <1>2 DEF PatchInv, FilesGood, GoodFile
<1> QED
  BY <1>1, <1>2, <1>3 DEF Complete, Required

LEMMA SkipWholeStep ==
  ASSUME PatcherConstants, PatchInv, NEW s \in Scripts, SkipWhole(s)
  PROVE  PatchInv'
<1>1. s \in DOMAIN Edits /\ s \in ToSet(order) /\ s \in WholeFile
  BY RunningScript DEF SkipWhole
<1>2. 1 \in DOMAIN Edits[s]
  BY <1>1, EditFacts
<1>3. Complete(s)
  BY <1>1, <1>2, HasIsIn, WholeIsComplete DEF SkipWhole
<1>4. UNCHANGED <<files, baks, order>> /\ done' = done \cup {s} /\ proc' = Idle
  BY DEF SkipWhole
<1>5. /\ OrderType' /\ ContentType' /\ FilesGood' /\ Owned' /\ BackedUp' /\ Nested'
      /\ FrontComplete' /\ BackupsComplete'
  BY <1>1, <1>3, <1>4, FilesKept
<1> QED
  BY <1>4, <1>5, IdleAfter DEF PatchInv
\* The script that writes its file once ends, with the edits in or not.
LEMMA WholeWrite ==
  ASSUME PatcherConstants, PatchInv, NEW s \in WholeFile, s \in ToSet(order),
         NEW ext \in {<<>>, All(s)}, Writes(s, TheFile(s), ext),
         ext = All(s) => s \in CopiesAlways \/ ~In(files[TheFile(s)], s, 1),
         done' = IF ext = All(s) THEN done \cup {s} ELSE done,
         proc' = Idle
  PROVE  PatchInv'
<1> DEFINE f == TheFile(s)
<1>1. s \in DOMAIN Edits /\ s # "apply_0028"
  BY DEF WholeFile, Edits
<1>2. f \in Files /\ 1 \in DOMAIN Edits[s] /\ Edits[s][1].file = f
      /\ \A n \in DOMAIN Edits[s] : Edits[s][n].file = f
  BY <1>1, EditFacts DEF TheFile
<1>3. /\ All(s) \in Seq(Ids) /\ All(s) # <<>>
      /\ \A i \in DOMAIN All(s) : All(s)[i] = <<s, i>>
      /\ \A n \in DOMAIN Edits[s] : In(All(s), s, n)
  BY <1>1, AllEdits
<1>4. ext \in Seq(Ids) /\ \A i \in DOMAIN ext : ext[i][1] = s
  <2>1. CASE ext = All(s)
    BY <1>3, <2>1
  <2>2. CASE ext = <<>>
    BY <2>2
  <2> QED
    BY <2>1, <2>2
<1>5. files[f] \in Seq(Ids) /\ GoodFile(files[f], f) /\ ContentType
  BY <1>2 DEF PatchInv, ContentType, FilesGood
<1>6. GoodFile(files[f] \o ext, f)
  <2>1. CASE ext = All(s)
    BY <1>5, <2>1, WholeEdit
  <2>2. CASE ext = <<>>
    BY <1>2, <1>5, <2>2, NothingWritten
  <2> QED
    BY <2>1, <2>2
<1>7. done' = done \/ (done' = done \cup {s} /\ Complete(s)')
  <2> SUFFICES ASSUME ext = All(s)
               PROVE  Complete(s)'
    OBVIOUS
  <2>1. \A n \in DOMAIN Edits[s] : In(files'[f], s, n)
    BY <1>2, <1>3, <1>5, WritesExtends
  <2> QED
    BY <1>1, <1>2, <2>1 DEF Complete, Required, In
<1>8. \E n \in DOMAIN Edits[s] : Edits[s][n].file = f
  BY <1>2
<1>9. /\ OrderType' /\ ContentType' /\ FilesGood' /\ Owned' /\ BackedUp' /\ Nested'
      /\ FrontComplete' /\ BackupsComplete'
  <2>1. Writes(s, f, ext)
    OBVIOUS
  <2> HIDE DEF f
  <2> QED
    BY <1>2, <1>4, <1>6, <1>7, <1>8, <2>1, WritesKeep
<1> QED
  BY <1>9, IdleAfter DEF PatchInv

LEMMA ApplyWholeStep ==
  ASSUME PatcherConstants, PatchInv, NEW s \in Scripts, ApplyWhole(s)
  PROVE  PatchInv'
<1> DEFINE f == TheFile(s)
<1>1. s \in DOMAIN Edits /\ s \in ToSet(order) /\ s \in WholeFile \ CopiesAlways
  BY RunningScript DEF ApplyWhole
<1>2. f \in Files /\ 1 \in DOMAIN Edits[s] /\ Edits[s][1].file = f
  BY <1>1, EditFacts DEF TheFile
<1>3. ~In(files[f], s, 1)
  BY <1>1, <1>2, HasIsIn DEF ApplyWhole
<1>4. s = order[Len(order)]
  <2>1. 1 \in Required(s)
    BY <1>1, RequiredEdits
  <2> QED
    BY <1>1, <1>2, <1>3, <2>1, LatestOrComplete DEF PatchInv, Complete
<1>5. baks' = baks \/ baks' = Backup(s, f)
  BY DEF ApplyWhole
<1>6. /\ DOMAIN baks \subseteq DOMAIN baks'
      /\ \A b \in DOMAIN baks' :
           \/ b \in DOMAIN baks /\ baks'[b] = baks[b]
           \/ /\ b = <<s, f>> /\ baks'[b] = files[f]
              /\ s \in CopiesAlways \/ b \notin DOMAIN baks
      /\ baks' = Backup(s, f) => <<s, f>> \in DOMAIN baks'
  BY <1>5, BackupIsSafe
<1>7. order' = order /\ proc' = Idle
  BY DEF ApplyWhole
<1>8. files = [files EXCEPT ![f] = @ \o <<>>]
  BY <1>2, NothingWritten DEF PatchInv
<1>9. All(s) # <<>>
  BY <1>1, AllEdits
<1>10. CASE AllAnchored(s)
  <2>1. Writes(s, f, All(s)) /\ done' = done \cup {s}
    BY <1>4, <1>6, <1>7, <1>10 DEF ApplyWhole, Writes
  <2> QED
    BY <1>1, <1>3, <1>7, <2>1, WholeWrite
<1>11. CASE ~AllAnchored(s)
  <2>1. Writes(s, f, <<>>) /\ done' = done
    BY <1>4, <1>6, <1>7, <1>8, <1>11 DEF ApplyWhole, Writes
  <2> QED
    BY <1>1, <1>7, <1>9, <2>1, WholeWrite
<1> QED
  BY <1>10, <1>11

LEMMA CopyAndApplyStep ==
  ASSUME PatcherConstants, PatchInv, NEW s \in Scripts, CopyAndApply(s)
  PROVE  PatchInv'
<1> DEFINE f == TheFile(s)
<1>1. s \in DOMAIN Edits /\ s \in ToSet(order) /\ s \in CopiesAlways /\ s \in WholeFile
  BY RunningScript DEF CopyAndApply, CopiesAlways, WholeFile
<1>2. f \in Files
  BY <1>1, EditFacts DEF TheFile
<1>3. baks' = BackupAnew(s, f) /\ order' = order /\ proc' = Idle
  BY DEF CopyAndApply
<1>4. /\ DOMAIN baks \subseteq DOMAIN baks'
      /\ \A b \in DOMAIN baks' :
           \/ b \in DOMAIN baks /\ baks'[b] = baks[b]
           \/ /\ b = <<s, f>> /\ baks'[b] = files[f]
              /\ s \in CopiesAlways \/ b \notin DOMAIN baks
  BY <1>1, <1>3, BackupIsSafe
<1>5. files = [files EXCEPT ![f] = @ \o <<>>]
  BY <1>2, NothingWritten DEF PatchInv
<1>6. All(s) # <<>>
  BY <1>1, AllEdits
<1>7. CASE AllAnchored(s)
  <2>1. s = order[Len(order)] \/ f = "sampler"
    <3>1. CASE s = "apply_0020"
      BY <1>1, <3>1, EditFacts DEF TheFile
    <3>2. CASE s \in {"apply_0019_v2", "apply_0021"}
      <4>1. 2 \in DOMAIN Edits[s] /\ ~Edits[s][2].again /\ Edits[s][2].file = f
        BY <1>1, <3>2, EditFacts DEF TheFile
      <4>2. ~Has(files[f], Edits[s][2])
        BY <1>7, <4>1 DEF AllAnchored, Anchored
      <4>3. ~In(files[f], s, 2)
        BY <1>1, <4>1, <4>2, HasIsIn
      <4>4. 2 \in Required(s)
        BY <3>2, <4>1 DEF Required
      <4> QED
        BY <1>1, <4>1, <4>3, <4>4, LatestOrComplete DEF PatchInv, Complete
    <3> QED
      BY <1>1, <3>1, <3>2 DEF CopiesAlways
  <2>2. Writes(s, f, All(s)) /\ done' = done \cup {s}
    BY <1>1, <1>3, <1>4, <1>7, <2>1 DEF CopyAndApply, Writes
  <2> QED
    BY <1>1, <1>3, <2>2, WholeWrite
<1>8. CASE ~AllAnchored(s)
  <2>1. Writes(s, f, <<>>) /\ done' = done
    BY <1>1, <1>3, <1>4, <1>5, <1>8 DEF CopyAndApply, Writes
  <2> QED
    BY <1>1, <1>3, <1>6, <2>1, WholeWrite
<1> QED
  BY <1>7, <1>8

\* A script that is started and was not among those that count: it is the latest.
LEMMA StartAnew ==
  ASSUME PatcherConstants, PatchInv, NEW s \in Scripts, s \notin ToSet(order),
         order' = Append(order, s), UNCHANGED <<files, baks>>, done' = done \ {s},
         ToSet(order) \subseteq done \cup {s}
  PROVE  /\ OrderType' /\ ContentType' /\ FilesGood' /\ Owned' /\ BackedUp' /\ Nested'
         /\ FrontComplete' /\ BackupsComplete'
<1> DEFINE m == Len(order)
<1>1. /\ order \in Seq(Scripts) /\ m \in Nat /\ DOMAIN order = 1..m
      /\ order' \in Seq(Scripts) /\ Len(order') = m + 1 /\ DOMAIN order' = 1..(m + 1)
      /\ \A i \in 1..m : order'[i] = order[i]
      /\ order'[m + 1] = s
  BY DEF PatchInv, OrderType
<1> HIDE DEF m
<1>2. ToSet(order') = ToSet(order) \cup {s}
  <2>1. \A i \in DOMAIN order' : order'[i] \in ToSet(order) \cup {s}
    BY <1>1 DEF ToSet
  <2>2. \A r \in ToSet(order) : \E i \in DOMAIN order' : order'[i] = r
    BY <1>1 DEF ToSet
  <2>3. \E i \in DOMAIN order' : order'[i] = s
    BY <1>1
  <2> QED
    BY <2>1, <2>2, <2>3 DEF ToSet
<1>3. \A i \in 1..m : order[i] \in ToSet(order) /\ order[i] # s
  BY <1>1 DEF ToSet
<1>4. OrderType'
  <2>1. \A i, j \in DOMAIN order' : order'[i] = order'[j] => i = j
    BY <1>1, <1>3 DEF PatchInv, OrderType
  <2>2. done' \subseteq ToSet(order')
    BY <1>2 DEF PatchInv, OrderType
  <2>3. order' \in Seq(Scripts')
    BY <1>1
  <2> QED
    BY <2>1, <2>2, <2>3 DEF OrderType
<1>5. ContentType' /\ FilesGood' /\ Owned'
  BY <1>2 DEF PatchInv, ContentType, FilesGood, Owned
<1>6. BackedUp'
  BY <1>2 DEF PatchInv, BackedUp, Owned
<1>7. \A b \in DOMAIN baks : b[1] # s
  BY DEF PatchInv, ContentType
<1>8. Nested'
  <2> SUFFICES ASSUME NEW k \in DOMAIN order', order'[k] \notin CopiesAlways, NEW f \in Files,
                      <<order'[k], f>> \in DOMAIN baks
               PROVE  PartBefore(baks[<<order'[k], f>>], files[f], order', k)
    BY DEF Nested
  <2>1. k \in 1..m /\ order'[k] = order[k]
    BY <1>1, <1>7
  <2>2. PartBefore(baks[<<order[k], f>>], files[f], order, k)
    BY <1>1, <2>1 DEF PatchInv, Nested
  <2>3. \A j \in 1..(k - 1) : order'[j] = order[j]
    BY <1>1, <2>1
  <2> QED
    BY <2>1, <2>2, <2>3 DEF PartBefore
<1>9. \A r \in done : Complete(r)
  BY DEF PatchInv, FrontComplete
<1>10. \A r : Complete(r) => Complete(r)'
  BY DEF Complete, Required, In
<1>11. \A i \in 1..m : Complete(order[i])
  BY <1>3, <1>9
<1>12. FrontComplete'
  <2>1. \A r \in done' : Complete(r)'
    BY <1>9, <1>10
  <2>2. ASSUME NEW i \in 1..(Len(order') - 1), NEW n \in Required(order'[i])
        PROVE  In(files'[Edits[order'[i]][n].file], order'[i], n)
    <3>1. i \in 1..m /\ order'[i] = order[i]
      BY <1>1
    <3>2. Complete(order[i])
      BY <1>11, <3>1
    <3> QED
      BY <2>2, <3>1, <3>2 DEF Complete
  <2> QED
    BY <2>1, <2>2 DEF FrontComplete, Complete, Required, In
<1>13. BackupsComplete'
  <2> SUFFICES ASSUME NEW k \in DOMAIN order', NEW i \in 1..(k - 1), NEW f \in Files,
                      <<order'[k], f>> \in DOMAIN baks',
                      NEW n \in Required(order'[i]), Edits[order'[i]][n].file = f
               PROVE  In(baks'[<<order'[k], f>>], order'[i], n)
    BY DEF BackupsComplete, Required, In
  <2>1. k \in 1..m /\ order'[k] = order[k]
    BY <1>1, <1>7
  <2>2. order'[i] = order[i]
    BY <1>1, <2>1
  <2> QED
    BY <1>1, <2>1, <2>2 DEF PatchInv, BackupsComplete
<1> QED
  BY <1>4, <1>5, <1>6, <1>8, <1>12, <1>13
LEMMA StartStep ==
  ASSUME PatcherConstants, PatchInv, NEW s \in Scripts, Start(s)
  PROVE  PatchInv'
<1>1. s \in DOMAIN Edits /\ s # "none"
  BY EditFacts DEF PatcherConstants
<1>2. /\ UNCHANGED <<files, baks>> /\ done' = done \ {s}
      /\ ToSet(order) \subseteq done \cup {s}
      /\ order' = IF s \in ToSet(order) THEN order ELSE Append(order, s)
      /\ proc' = [script |-> s, at |-> FirstEdit(s)]
  BY DEF Start
<1>3. /\ OrderType' /\ ContentType' /\ FilesGood' /\ Owned' /\ BackedUp' /\ Nested'
      /\ FrontComplete' /\ BackupsComplete'
  <2>1. CASE s \in ToSet(order)
    <3>1. order' = order /\ done' \subseteq done
      BY <1>2, <2>1
    <3> QED
      BY <1>2, <2>1, <3>1, FilesKept
  <2>2. CASE s \notin ToSet(order)
    BY <1>2, <2>2, StartAnew
  <2> QED
    BY <2>1, <2>2
<1>4. order \in Seq(Scripts) /\ Len(order) \in Nat /\ DOMAIN order = 1..Len(order)
  BY DEF PatchInv, OrderType
<1>5. s \in ToSet(order') /\ (s \in ToSet(order) \/ s = order'[Len(order')])
  <2>1. CASE s \in ToSet(order)
    BY <1>2, <2>1
  <2>2. CASE s \notin ToSet(order)
    <3>1. order'[Len(order')] = s /\ Len(order') \in DOMAIN order'
      BY <1>2, <1>4, <2>2
    <3> QED
      BY <3>1 DEF ToSet
  <2> QED
    BY <2>1, <2>2
<1>6. Len(Edits[s]) \in Nat \ {0} /\ DOMAIN Edits[s] = 1..Len(Edits[s])
      /\ (s = "apply_0028" => Len(Edits[s]) = 4 /\ Edits[s][1].file = "utils")
  BY <1>1, EditFacts
<1>7. \/ FirstEdit(s) = 1 /\ (s = "apply_0028" => ~In(files["utils"], s, 1))
      \/ FirstEdit(s) = 4 /\ s = "apply_0028" /\ In(files["utils"], s, 1)
  BY <1>1, <1>6, HasIsIn DEF FirstEdit
<1>8. proc'.script = s /\ proc'.at = FirstEdit(s)
  BY <1>2
<1>9. ProcType'
  <2>1. proc'.script \in WholeFile => FirstEdit(s) = 1
    BY <1>7, <1>8 DEF WholeFile
  <2>2. FirstEdit(s) >= 1 /\ FirstEdit(s) <= Len(Edits[s]) + 1 /\ FirstEdit(s) \in Nat
    <3>1. CASE FirstEdit(s) = 1
      BY <1>6, <3>1
    <3>2. CASE FirstEdit(s) = 4 /\ s = "apply_0028"
      <4>1. Len(Edits[s]) = 4
        BY <1>6, <3>2
      <4> QED
        BY <3>2, <4>1
    <3> QED
      BY <1>7, <3>1, <3>2
  <2> QED
    BY <1>2, <1>5, <1>8, <2>1, <2>2 DEF ProcType
<1>10. Progress'
  <2> SUFFICES ASSUME NEW n \in Required(s), n < FirstEdit(s)
               PROVE  In(files[Edits[s][n].file], s, n)
    BY <1>2, <1>8 DEF Progress, Required, In
  <2>1. n \in DOMAIN Edits[s]
    BY <1>1, RequiredEdits
  <2>2. s = "apply_0028" /\ In(files["utils"], s, 1) /\ n = 1
    BY <1>6, <1>7, <2>1 DEF Required
  <2> QED
    BY <1>6, <2>2
<1>11. UtilsRun'
  <2> SUFFICES ASSUME s = "apply_0028", FirstEdit(s) = 1
               PROVE  /\ order'[Len(order')] = "apply_0028"
                      /\ \A n \in 1..3 : ~In(files["utils"], "apply_0028", n)
    BY <1>2, <1>7, <1>8 DEF UtilsRun, In
  <2>1. ~In(files["utils"], s, 1)
    BY <1>7
  <2>2. \A n \in {2, 3} : ~In(files["utils"], s, n)
    BY <2>1 DEF PatchInv, FilesGood, GoodFile, Files
  <2>3. s \in ToSet(order) => s = order[Len(order)]
    <3>1. 1 \in Required(s)
      BY <1>1, RequiredEdits
    <3> QED
      BY <1>6, <2>1, <3>1, LatestOrComplete DEF PatchInv, Complete
  <2>4. \A n \in 1..3 : n = 1 \/ n \in {2, 3}
    OBVIOUS
  <2> QED
    BY <1>2, <1>5, <2>1, <2>2, <2>3, <2>4
<1> QED
  BY <1>3, <1>9, <1>10, <1>11 DEF PatchInv

\* Of two parts of a file the earlier one is a part of the later one.
LEMMA PartOfPart ==
  ASSUME NEW g \in Seq(Ids), NEW c \in Seq(Ids), NEW d \in Seq(Ids), NEW o,
         NEW k \in Nat, NEW m \in Nat, k <= m,
         PartBefore(g, d, o, k), PartBefore(c, d, o, m)
  PROVE  PartBefore(g, c, o, k)
<1>1. /\ Len(g) \in Nat /\ Len(c) \in Nat /\ Len(d) \in Nat
      /\ DOMAIN c = 1..Len(c) /\ DOMAIN d = 1..Len(d)
  OBVIOUS
<1>2. Len(g) <= Len(d) /\ Len(c) <= Len(d)
  BY DEF PartBefore
<1>3. Len(g) <= Len(c)
  <2> SUFFICES ASSUME Len(g) >= 1
               PROVE  Len(g) <= Len(c)
    BY <1>1
  <2>1. Len(g) \in DOMAIN d
    BY <1>1, <1>2
  <2>2. \E j \in 1..(k - 1) : d[Len(g)][1] = o[j]
    BY <2>1 DEF PartBefore
  <2>3. \E j \in 1..(m - 1) : d[Len(g)][1] = o[j]
    BY <2>2
  <2> QED
    BY <2>1, <2>3 DEF PartBefore
<1>4. \A i \in 1..Len(c) : c[i] = d[i] /\ i \in DOMAIN d
  BY <1>1, <1>2 DEF PartBefore
<1>5. \A i \in 1..Len(g) : i \in 1..Len(c) /\ g[i] = d[i]
  BY <1>1, <1>3 DEF PartBefore
<1>6. \A i \in DOMAIN c : (\E j \in 1..(k - 1) : c[i][1] = o[j]) <=> i <= Len(g)
  BY <1>1, <1>4 DEF PartBefore
<1> QED
  BY <1>3, <1>4, <1>5, <1>6 DEF PartBefore

\* What a revert leaves: the scripts before s, the backups that are not its own, and
\* of every file what those scripts made of it.
LEMMA RevertLeaves ==
  ASSUME PatcherConstants, PatchInv, NEW s \in Scripts, Revert(s),
         NEW m \in Nat, m = Len(order)
  PROVE  /\ order \in Seq(Scripts) /\ DOMAIN order = 1..m
         /\ \A i, j \in DOMAIN order : order[i] = order[j] => i = j
         /\ order[m] = s /\ s \notin CopiesAlways /\ proc = Idle /\ proc' = proc
         /\ m >= 1 /\ m \in DOMAIN order
         /\ order' \in Seq(Scripts) /\ Len(order') = m - 1 /\ DOMAIN order' = 1..(m - 1)
         /\ \A i \in 1..(m - 1) : order'[i] = order[i]
         /\ ToSet(order) = ToSet(order') \cup {s} /\ s \notin ToSet(order')
         /\ DOMAIN baks' = {b \in DOMAIN baks : b[1] # s}
         /\ \A b \in DOMAIN baks' : b \in DOMAIN baks /\ baks'[b] = baks[b]
         /\ \A f \in Files : \/ /\ <<s, f>> \in DOMAIN baks
                                 /\ files'[f] = baks[<<s, f>>]
                              \/ /\ <<s, f>> \notin DOMAIN baks
                                 /\ files'[f] = files[f]
         /\ files' \in [Files -> Seq(Ids)] /\ \A f \in Files : files[f] \in Seq(Ids)
         /\ \A f \in Files : PartBefore(files'[f], files[f], order, m)
<1>1. /\ order \in Seq(Scripts) /\ DOMAIN order = 1..m
      /\ \A i, j \in DOMAIN order : order[i] = order[j] => i = j
  BY DEF PatchInv, OrderType
<1>2. order # <<>> /\ order[m] = s /\ s \notin CopiesAlways /\ proc = Idle /\ proc' = proc
  BY DEF Revert, Last
<1>3. m >= 1 /\ m \in DOMAIN order
  BY <1>1, <1>2
<1>4. order' = SubSeq(order, 1, m - 1)
  BY DEF Revert, Front
<1>5. /\ order' \in Seq(Scripts) /\ Len(order') = m - 1 /\ DOMAIN order' = 1..(m - 1)
      /\ \A i \in 1..(m - 1) : order'[i] = order[i]
  BY <1>1, <1>3, <1>4
<1>6. ToSet(order) = ToSet(order') \cup {s} /\ s \notin ToSet(order')
  <2>1. \A i \in DOMAIN order : i = m \/ i \in 1..(m - 1)
    BY <1>1
  <2>2. \A i \in 1..(m - 1) : i \in DOMAIN order /\ i # m
    BY <1>1
  <2>3. ToSet(order) \subseteq ToSet(order') \cup {s}
    BY <1>2, <1>5, <2>1 DEF ToSet
  <2>4. ToSet(order') \subseteq ToSet(order)
    BY <1>5, <2>2 DEF ToSet
  <2>5. s \in ToSet(order)
    BY <1>2, <1>3 DEF ToSet
  <2>6. s \notin ToSet(order')
    BY <1>1, <1>2, <1>3, <1>5, <2>2 DEF ToSet
  <2> QED
    BY <2>3, <2>4, <2>5, <2>6
<1>7. /\ DOMAIN baks' = {b \in DOMAIN baks : b[1] # s}
      /\ \A b \in DOMAIN baks' : b \in DOMAIN baks /\ baks'[b] = baks[b]
  BY DEF Revert, Restrict
<1>8. \A f \in Files : \/ <<s, f>> \in DOMAIN baks /\ files'[f] = baks[<<s, f>>]
                       \/ <<s, f>> \notin DOMAIN baks /\ files'[f] = files[f]
  BY DEF Revert
<1>9. files' \in [Files -> Seq(Ids)] /\ \A f \in Files : files[f] \in Seq(Ids)
  BY DEF Revert, PatchInv, ContentType
\* What is left of a file is what the scripts before s made of it.
<1>10. \A f \in Files : PartBefore(files'[f], files[f], order, m)
  <2> TAKE f \in Files
  <2>1. CASE <<s, f>> \in DOMAIN baks /\ files'[f] = baks[<<s, f>>]
    BY <1>2, <1>3, <2>1 DEF PatchInv, Nested
  <2>2. CASE <<s, f>> \notin DOMAIN baks /\ files'[f] = files[f]
    <3>1. Len(files[f]) \in Nat /\ DOMAIN files[f] = 1..Len(files[f])
      BY <1>9
    <3>2. ASSUME NEW i \in DOMAIN files[f]
          PROVE  \E j \in 1..(m - 1) : files[f][i][1] = order[j]
      <4>1. files[f][i][1] \in ToSet(order) /\ files[f][i][1] # s
        BY <1>2, <1>6, <2>2 DEF PatchInv, Owned, BackedUp
      <4>2. files[f][i][1] \in ToSet(order')
        BY <1>6, <4>1
      <4> QED
        BY <1>5, <4>2 DEF ToSet
    <3> QED
      BY <2>2, <3>1, <3>2 DEF PartBefore
  <2> QED
    BY <1>8, <2>1, <2>2
<1> QED
  BY <1>1, <1>2, <1>3, <1>5, <1>6, <1>7, <1>8, <1>9, <1>10

LEMMA RevertStep ==
  ASSUME PatcherConstants, PatchInv, NEW s \in Scripts, Revert(s)
  PROVE  PatchInv'
<1> DEFINE m == Len(order)
<1>0. m \in Nat
  BY DEF PatchInv, OrderType
<1>1. /\ order \in Seq(Scripts) /\ m \in Nat /\ DOMAIN order = 1..m
      /\ \A i, j \in DOMAIN order : order[i] = order[j] => i = j
  BY <1>0, RevertLeaves
<1>2. order[m] = s /\ s \notin CopiesAlways /\ proc = Idle /\ proc' = proc
  BY <1>0, RevertLeaves
<1>3. m >= 1 /\ m \in DOMAIN order
  BY <1>0, RevertLeaves
<1>5. /\ order' \in Seq(Scripts) /\ Len(order') = m - 1 /\ DOMAIN order' = 1..(m - 1)
      /\ \A i \in 1..(m - 1) : order'[i] = order[i]
  BY <1>0, RevertLeaves
<1>6. ToSet(order) = ToSet(order') \cup {s} /\ s \notin ToSet(order')
  BY <1>0, RevertLeaves
<1>7. /\ DOMAIN baks' = {b \in DOMAIN baks : b[1] # s}
      /\ \A b \in DOMAIN baks' : b \in DOMAIN baks /\ baks'[b] = baks[b]
  BY <1>0, RevertLeaves
<1>8. \A f \in Files : \/ <<s, f>> \in DOMAIN baks /\ files'[f] = baks[<<s, f>>]
                       \/ <<s, f>> \notin DOMAIN baks /\ files'[f] = files[f]
  BY <1>0, RevertLeaves
<1>9. files' \in [Files -> Seq(Ids)] /\ \A f \in Files : files[f] \in Seq(Ids)
  BY <1>0, RevertLeaves
<1>10. \A f \in Files : PartBefore(files'[f], files[f], order, m)
  BY <1>0, RevertLeaves
<1> HIDE DEF m
<1>11. \A f \in Files : \A i \in DOMAIN files'[f] :
         /\ i \in DOMAIN files[f] /\ files'[f][i] = files[f][i]
         /\ \E j \in 1..(m - 1) : files'[f][i][1] = order[j]
  <2> TAKE f \in Files
  <2> TAKE i \in DOMAIN files'[f]
  <2>1. /\ Len(files'[f]) \in Nat /\ DOMAIN files'[f] = 1..Len(files'[f])
        /\ Len(files[f]) \in Nat /\ DOMAIN files[f] = 1..Len(files[f])
    BY <1>9
  <2>2. i \in DOMAIN files[f] /\ i <= Len(files'[f])
    BY <1>10, <2>1 DEF PartBefore
  <2> QED
    BY <1>10, <2>1, <2>2 DEF PartBefore
<1>12. OrderType'
  <2>1. done' = done \ {s} /\ done \subseteq ToSet(order)
    BY DEF Revert, PatchInv, OrderType
  <2>2. \A i, j \in DOMAIN order' : order'[i] = order'[j] => i = j
    BY <1>1, <1>5
  <2>3. order' \in Seq(Scripts')
    BY <1>5
  <2> QED
    BY <1>6, <2>1, <2>2, <2>3 DEF OrderType
<1>13. ContentType'
  <2>1. DOMAIN baks' \subseteq ToSet(order') \X Files
    BY <1>6, <1>7 DEF PatchInv, ContentType
  <2> QED
    BY <1>7, <1>9, <2>1 DEF PatchInv, ContentType
<1>14. FilesGood'
  BY <1>7, <1>8 DEF PatchInv, FilesGood
<1>15. Owned'
  BY <1>5, <1>11 DEF Owned, ToSet
<1>16. BackedUp'
  <2> SUFFICES ASSUME NEW r \in ToSet(order') \ CopiesAlways, NEW f \in Files,
                      <<r, f>> \notin DOMAIN baks', NEW i \in DOMAIN files'[f]
               PROVE  files'[f][i][1] # r
    BY DEF BackedUp
  <2>1. r # s /\ r \in ToSet(order) \ CopiesAlways
    BY <1>6
  <2>2. <<r, f>> \notin DOMAIN baks
    BY <1>7, <2>1
  <2> QED
    BY <1>11, <2>1, <2>2 DEF PatchInv, BackedUp
<1>17. Nested'
  <2> SUFFICES ASSUME NEW k \in DOMAIN order', order'[k] \notin CopiesAlways, NEW f \in Files,
                      <<order'[k], f>> \in DOMAIN baks'
               PROVE  PartBefore(baks'[<<order'[k], f>>], files'[f], order', k)
    BY DEF Nested
  <2>1. k \in DOMAIN order /\ order'[k] = order[k] /\ k \in Nat /\ k <= m
    BY <1>1, <1>5
  <2> DEFINE g == baks'[<<order[k], f>>]
  <2>2. g = baks[<<order[k], f>>] /\ g \in Seq(Ids)
    BY <1>7, <2>1 DEF PatchInv, ContentType
  <2>3. PartBefore(g, files[f], order, k)
    BY <1>7, <2>1, <2>2 DEF PatchInv, Nested
  <2> HIDE DEF g
  <2>4. files'[f] \in Seq(Ids) /\ files[f] \in Seq(Ids)
    BY <1>9
  <2>5. PartBefore(g, files'[f], order, k)
    BY <1>1, <1>10, <2>1, <2>2, <2>3, <2>4, PartOfPart
  <2>6. \A j \in 1..(k - 1) : order'[j] = order[j]
    BY <1>1, <1>5, <2>1
  <2> QED
    BY <2>1, <2>5, <2>6 DEF PartBefore, g
<1>18. ASSUME NEW i \in 1..(m - 1), NEW n \in Required(order[i])
       PROVE  In(files'[Edits[order[i]][n].file], order[i], n)
  <2> DEFINE f == Edits[order[i]][n].file
  <2>1. i \in DOMAIN order /\ i \in 1..(Len(order) - 1)
    BY <1>1 DEF m
  <2>2. order[i] \in DOMAIN Edits
    BY <2>1, OrderFacts DEF PatchInv
  <2>3. f \in Files
    BY <1>18, <2>2, RequiredEdits, EditFacts
  <2>4. CASE <<s, f>> \in DOMAIN baks /\ files'[f] = baks[<<s, f>>]
    <3>1. In(baks[<<order[m], f>>], order[i], n)
      BY <1>2, <1>3, <1>18, <2>3, <2>4 DEF PatchInv, BackupsComplete
    <3> QED
      BY <1>2, <2>4, <3>1
  <2>5. CASE files'[f] = files[f]
    <3>1. Complete(order[i])
      BY <2>1 DEF PatchInv, FrontComplete
    <3> QED
      BY <1>18, <2>5, <3>1 DEF Complete
  <2> QED
    BY <1>8, <2>3, <2>4, <2>5
<1>19. FrontComplete'
  <2>1. ASSUME NEW i \in 1..(Len(order') - 1), NEW n \in Required(order'[i])
        PROVE  In(files'[Edits[order'[i]][n].file], order'[i], n)
    <3>1. i \in 1..(m - 1) /\ order'[i] = order[i]
      BY <1>1, <1>5
    <3> QED
      BY <1>18, <2>1, <3>1
  <2>2. ASSUME NEW r \in done', NEW n \in Required(r)
        PROVE  In(files'[Edits[r][n].file], r, n)
    <3>1. PICK i \in 1..(m - 1) : order[i] = r
      BY <1>5, <1>12 DEF OrderType, ToSet
    <3> QED
      BY <1>18, <2>2, <3>1
  <2> QED
    BY <2>1, <2>2 DEF FrontComplete, Complete, Required, In
<1>20. BackupsComplete'
  <2> SUFFICES ASSUME NEW k \in DOMAIN order', NEW i \in 1..(k - 1), NEW f \in Files,
                      <<order'[k], f>> \in DOMAIN baks',
                      NEW n \in Required(order'[i]), Edits[order'[i]][n].file = f
               PROVE  In(baks'[<<order'[k], f>>], order'[i], n)
    BY DEF BackupsComplete, Required, In
  <2>1. k \in DOMAIN order /\ order'[k] = order[k] /\ order'[i] = order[i]
    BY <1>1, <1>5
  <2>2. <<order[k], f>> \in DOMAIN baks /\ baks'[<<order[k], f>>] = baks[<<order[k], f>>]
    BY <1>7, <2>1
  <2> QED
    BY <2>1, <2>2 DEF PatchInv, BackupsComplete
<1>21. ProcType' /\ Progress' /\ UtilsRun'
  BY <1>2, IdleAfter
<1> QED
  BY <1>12, <1>13, <1>14, <1>15, <1>16, <1>17, <1>19, <1>20, <1>21 DEF PatchInv

LEMMA PatchInit ==
  ASSUME PatcherConstants, Init
  PROVE  PatchInv
<1>1. /\ order = <<>> /\ done = {} /\ proc = Idle /\ DOMAIN baks = {}
      /\ files = [f \in Files |-> <<>>]
  BY DEF Init
<1>2. Len(order) = 0 /\ DOMAIN order = {} /\ order \in Seq(Scripts) /\ ToSet(order) = {}
  BY <1>1 DEF ToSet
<1>3. \A f \in Files : files[f] = <<>> /\ DOMAIN files[f] = {} /\ files[f] \in Seq(Ids)
  BY <1>1
<1>4. files \in [Files -> Seq(Ids)]
  BY <1>1, <1>3
<1>5. OrderType /\ ContentType
  BY <1>1, <1>2, <1>4 DEF OrderType, ContentType
<1>6. ProcType /\ Progress /\ UtilsRun
  BY <1>1 DEF ProcType, Idle, Progress, UtilsRun
<1>7. FilesGood
  BY <1>1, <1>3 DEF FilesGood, GoodFile, In
<1>8. Owned /\ BackedUp /\ Nested
  BY <1>1, <1>2, <1>3 DEF Owned, BackedUp, Nested
<1>9. FrontComplete /\ BackupsComplete
  BY <1>1, <1>2 DEF FrontComplete, BackupsComplete
<1> QED
  BY <1>5, <1>6, <1>7, <1>8, <1>9 DEF PatchInv

\* The invariant of the patch scripts holds in every state.
THEOREM PatchInvariance ==
  ASSUME PatcherConstants
  PROVE  Spec => []PatchInv
<1>1. Init => PatchInv
  BY PatchInit
<1>2. PatchInv /\ [Next]_vars => PatchInv'
  <2> SUFFICES ASSUME PatchInv, [Next]_vars
               PROVE  PatchInv'
    OBVIOUS
  <2>1. ASSUME UNCHANGED vars
        PROVE  PatchInv'
    <3>1. OrderType' /\ ContentType' /\ ProcType' /\ FilesGood' /\ Owned' /\ BackedUp' /\ Nested'
      BY <2>1 DEF vars, PatchInv, OrderType, ContentType, ProcType, FilesGood, Owned,
                  BackedUp, Nested
    <3>2. FrontComplete' /\ BackupsComplete'
      BY <2>1 DEF vars, PatchInv, FrontComplete, BackupsComplete, Complete, Required, In
    <3>3. Progress' /\ UtilsRun'
      BY <2>1 DEF vars, PatchInv, Progress, UtilsRun, Required, In
    <3> QED
      BY <3>1, <3>2, <3>3 DEF PatchInv
  <2>2. CASE Next
    <3>1. ASSUME NEW s \in Scripts, Start(s) \/ Succeed(s) \/ Skip(s) \/ Apply(s) \/ Fail(s)
          PROVE  PatchInv'
      BY <3>1, StartStep, SucceedStep, SkipStep, ApplyStep, FailStep
    <3>2. ASSUME NEW s \in Scripts,
                 SkipWhole(s) \/ ApplyWhole(s) \/ CopyAndApply(s) \/ Revert(s)
          PROVE  PatchInv'
      BY <3>2, SkipWholeStep, ApplyWholeStep, CopyAndApplyStep, RevertStep
    <3>3. CASE Kill
      BY <3>3, KillStep
    <3> QED
      BY <2>1, <2>2, <3>1, <3>2, <3>3 DEF Next
  <2> QED
    BY <2>1, <2>2
<1> QED
  BY <1>1, <1>2, PTL DEF Spec

-------------------------------------------------------------------------------
(* The edits of utils that have no marker of their own. *)

\* As long as nothing has stopped apply_0028 between two of its edits, those of
\* utils that it has passed, or all of them once it has ended, are in.
UtilsWhole ==
  "apply_0028" \in ToSet(order) \ stopped =>
    \A n \in 1..3 : (proc.script # "apply_0028" \/ n < proc.at) =>
      In(files["utils"], "apply_0028", n)

\* It is kept where utils only grows, the script is not stopped, and it comes no
\* further than to edits that are in.
LEMMA UtilsKept ==
  ASSUME UtilsWhole,
         "apply_0028" \in ToSet(order') \ stopped' => "apply_0028" \in ToSet(order) \ stopped,
         \A n \in 1..3 : In(files["utils"], "apply_0028", n) => In(files'["utils"], "apply_0028", n),
         \A n \in 1..3 : (proc'.script # "apply_0028" \/ n < proc'.at) =>
           \/ proc.script # "apply_0028" \/ n < proc.at
           \/ In(files'["utils"], "apply_0028", n)
  PROVE  UtilsWhole'
BY DEF UtilsWhole, In

\* A file to which edits are appended keeps those it has.
LEMMA GrownKeeps ==
  ASSUME ContentType, NEW f \in Files, NEW ext \in Seq(Ids),
         files' = [files EXCEPT ![f] = @ \o ext]
  PROVE  /\ \A s, n : In(files["utils"], s, n) => In(files'["utils"], s, n)
         /\ \A s, n : In(ext, s, n) => In(files'[f], s, n)
<1>1. files \in [Files -> Seq(Ids)] /\ "utils" \in Files
  BY DEF ContentType, Files
<1>2. files'[f] = files[f] \o ext /\ \A h \in Files : h # f => files'[h] = files[h]
  BY <1>1
<1>3. \A s, n : In(files'[f], s, n) <=> In(files[f], s, n) \/ In(ext, s, n)
  BY <1>1, <1>2, InConcat
<1> QED
  BY <1>1, <1>2, <1>3

\* A script is started at its first edit, or, if the first edit of utils is in, at
\* the scheduler's.
LEMMA StartUtils ==
  ASSUME PatcherConstants, PatchInv, UtilsWhole, NEW s \in Scripts, Start(s)
  PROVE  UtilsWhole'
<1>1. /\ UNCHANGED <<files, stopped>> /\ proc = Idle
      /\ order' = IF s \in ToSet(order) THEN order ELSE Append(order, s)
      /\ proc' = [script |-> s, at |-> FirstEdit(s)]
  BY DEF Start
<1>2. proc.script # "apply_0028" /\ proc'.script = s /\ proc'.at = FirstEdit(s)
  BY <1>1 DEF Idle
<1>3. CASE s # "apply_0028"
  <2>1. "apply_0028" \in ToSet(order') => "apply_0028" \in ToSet(order)
    <3>1. order \in Seq(Scripts)
      BY DEF PatchInv, OrderType
    <3> QED
      BY <1>1, <1>3, <3>1 DEF ToSet
  <2> QED
    BY <1>1, <1>2, <2>1, UtilsKept
<1>4. CASE s = "apply_0028"
  <2>1. s \in DOMAIN Edits /\ 1 \in DOMAIN Edits[s] /\ Edits[s][1].file = "utils"
    BY <1>4, EditFacts DEF PatcherConstants
  <2>2. CASE Has(files["utils"], Edits[s][1])
    <3>1. In(files["utils"], s, 1)
      BY <2>1, <2>2, HasIsIn
    <3>2. s \in ToSet(order)
      BY <3>1 DEF In, PatchInv, Owned, Files
    <3> QED
      BY <1>1, <1>2, <1>4, <3>2, UtilsKept
  <2>3. CASE ~Has(files["utils"], Edits[s][1])
    <3>1. FirstEdit(s) = 1
      BY <2>3 DEF FirstEdit
    <3> QED
      BY <1>2, <1>4, <3>1 DEF UtilsWhole
  <2> QED
    BY <2>2, <2>3
<1> QED
  BY <1>3, <1>4

\* An edit that is passed is in.
LEMMA PassUtils ==
  ASSUME PatcherConstants, PatchInv, UtilsWhole, NEW s \in Scripts, Skip(s) \/ Apply(s)
  PROVE  UtilsWhole'
<1> DEFINE n == proc.at
           f == Current(s).file
           ext == <<<<s, n>>>>
<1>1. /\ s \in DOMAIN Edits /\ proc.script = s /\ n \in Nat /\ n >= 1
      /\ n \in DOMAIN Edits[s] /\ Current(s) = Edits[s][n]
  <2>1. Running(s) /\ ~Past(s)
    BY DEF Skip, Apply
  <2>2. s \in DOMAIN Edits /\ n \in Nat /\ n >= 1
    BY <2>1, RunningScript
  <2> QED
    BY <2>1, <2>2, EditFacts DEF Running, Past, Current
<1>2. f \in Files /\ Current(s).id = <<s, n>>
      /\ (s = "apply_0028" /\ n \in 1..3 => f = "utils")
  BY <1>1, EditFacts
<1>3. UNCHANGED <<order, stopped>> /\ proc' = [proc EXCEPT !.at = n + 1]
  BY DEF Skip, Apply
<1>4. proc'.script = s /\ proc'.at = n + 1
  BY <1>1, <1>3 DEF PatchInv, ProcType
<1>5. ContentType
  BY DEF PatchInv
<1>6. /\ \A r, m : In(files["utils"], r, m) => In(files'["utils"], r, m)
      /\ In(files'[f], s, n)
  <2>1. CASE Skip(s)
    <3>1. files' = files /\ Has(files[f], Edits[s][n])
      BY <1>1, <2>1 DEF Skip, Marked
    <3> QED
      BY <1>1, <3>1, HasIsIn
  <2>2. CASE Apply(s)
    <3>1. files' = [files EXCEPT ![f] = Append(@, <<s, n>>)]
      BY <1>2, <2>2 DEF Apply
    <3>2. <<s, n>> \in Ids /\ ext \in Seq(Ids) /\ files \in [Files -> Seq(Ids)]
      BY <1>1, <1>5 DEF Ids, ContentType
    <3>3. Append(files[f], <<s, n>>) = files[f] \o ext
      BY <1>2, <3>2, AppendIsConcat
    <3>4. files' = [files EXCEPT ![f] = @ \o ext]
      BY <1>2, <3>1, <3>2, <3>3
    <3>5. In(ext, s, n)
      BY DEF In
    <3> HIDE DEF f, ext
    <3> QED
      BY <1>2, <1>5, <3>2, <3>4, <3>5, GrownKeeps
  <2> QED
    BY <2>1, <2>2
<1>7. \A m \in 1..3 : (proc'.script # "apply_0028" \/ m < proc'.at) =>
        \/ proc.script # "apply_0028" \/ m < n
        \/ In(files'["utils"], "apply_0028", m)
  <2> SUFFICES ASSUME NEW m \in 1..3, s = "apply_0028", m < n + 1, ~(m < n)
               PROVE  In(files'["utils"], s, m)
    BY <1>1, <1>4
  <2>1. m = n
    BY <1>1
  <2> QED
    BY <1>2, <1>6, <2>1
<1> HIDE DEF n, f
<1> QED
  BY <1>3, <1>6, <1>7, UtilsKept DEF n

\* A run that ends leaves what it has passed, and one that is stopped leaves nothing
\* to say.
LEMMA EndUtils ==
  ASSUME PatcherConstants, PatchInv, UtilsWhole,
         Kill \/ \E s \in Scripts : Succeed(s) \/ Fail(s)
  PROVE  UtilsWhole'
<1>1. UNCHANGED <<files, order>> /\ proc' = Idle
  BY DEF Kill, Succeed, Fail
<1>2. proc'.script # "apply_0028"
  BY <1>1 DEF Idle
<1>3. CASE proc.script # "apply_0028"
  <2>1. stopped \subseteq stopped'
    BY DEF Kill, Succeed, Fail
  <2> QED
    BY <1>1, <1>3, <2>1, UtilsKept
<1>4. CASE proc.script = "apply_0028" /\ "apply_0028" \in stopped'
  BY <1>4 DEF UtilsWhole
<1>5. CASE proc.script = "apply_0028" /\ \E s \in Scripts : Succeed(s)
  <2>1. PICK s \in Scripts : Succeed(s)
    BY <1>5
  <2>2. s = "apply_0028" /\ Past(s) /\ stopped' = stopped
    BY <1>5, <2>1 DEF Succeed, Running
  <2>3. s \in DOMAIN Edits /\ Len(Edits[s]) = 4 /\ proc.at \in Nat
    BY <2>1, <2>2, EditFacts DEF PatcherConstants, PatchInv, ProcType
  <2>4. \A n \in 1..3 : n < proc.at
    BY <2>2, <2>3 DEF Past
  <2> QED
    BY <1>1, <2>2, <2>4, UtilsKept
<1>6. Kill \/ (\E s \in Scripts : Fail(s)) => proc.script \in stopped'
  BY DEF Kill, Fail, Running
<1> QED
  BY <1>3, <1>4, <1>5, <1>6

\* A script that writes its file once does not touch the edits of others.
LEMMA WholeUtils ==
  ASSUME PatcherConstants, PatchInv, UtilsWhole, NEW s \in Scripts,
         SkipWhole(s) \/ ApplyWhole(s) \/ CopyAndApply(s)
  PROVE  UtilsWhole'
<1>1. /\ s \in WholeFile /\ Running(s) /\ s \in DOMAIN Edits
      /\ UNCHANGED <<order, stopped>> /\ proc' = Idle
  BY RunningScript DEF SkipWhole, ApplyWhole, CopyAndApply, CopiesAlways, WholeFile
<1>2. proc.script # "apply_0028"
  BY <1>1 DEF Running, WholeFile
<1>3. \A n \in 1..3 :
        In(files["utils"], "apply_0028", n) => In(files'["utils"], "apply_0028", n)
  <2>1. CASE files' = files
    BY <2>1
  <2>2. CASE files' = [files EXCEPT ![TheFile(s)] = @ \o All(s)]
    <3>1. TheFile(s) \in Files /\ All(s) \in Seq(Ids) /\ ContentType
      BY <1>1, AllEdits, EditFacts DEF PatchInv, TheFile
    <3> QED
      BY <2>2, <3>1, GrownKeeps
  <2>3. files' = files \/ files' = [files EXCEPT ![TheFile(s)] = @ \o All(s)]
    BY DEF SkipWhole, ApplyWhole, CopyAndApply
  <2> QED
    BY <2>1, <2>2, <2>3
<1> QED
  BY <1>1, <1>2, <1>3, UtilsKept

\* A revert leaves the edits of the scripts before its own.
LEMMA RevertUtils ==
  ASSUME PatcherConstants, PatchInv, UtilsWhole, NEW s \in Scripts, Revert(s)
  PROVE  UtilsWhole'
<1> DEFINE m == Len(order)
<1>1. m \in Nat
  BY DEF PatchInv, OrderType
<1>2. /\ proc = Idle /\ proc' = proc /\ stopped' = stopped \ {s}
      /\ ToSet(order) = ToSet(order') \cup {s} /\ s \notin ToSet(order')
      /\ DOMAIN order' = 1..(m - 1) /\ \A i \in 1..(m - 1) : order'[i] = order[i]
      /\ files' \in [Files -> Seq(Ids)] /\ \A f \in Files : files[f] \in Seq(Ids)
      /\ \A f \in Files : PartBefore(files'[f], files[f], order, m)
  BY <1>1, RevertLeaves DEF Revert
<1> SUFFICES ASSUME "apply_0028" \in ToSet(order')
             PROVE  UtilsWhole'
  BY DEF UtilsWhole
<1>3. PICK j \in 1..(m - 1) : order[j] = "apply_0028"
  BY <1>2 DEF ToSet
<1> HIDE DEF m
<1>4. "utils" \in Files
  BY DEF Files
<1>5. ASSUME NEW n, In(files["utils"], "apply_0028", n)
      PROVE  In(files'["utils"], "apply_0028", n)
  <2>1. PICK i \in DOMAIN files["utils"] : files["utils"][i] = <<"apply_0028", n>>
    BY <1>5 DEF In
  <2>2. /\ Len(files["utils"]) \in Nat /\ DOMAIN files["utils"] = 1..Len(files["utils"])
        /\ Len(files'["utils"]) \in Nat /\ DOMAIN files'["utils"] = 1..Len(files'["utils"])
    BY <1>2, <1>4
  <2>3. i <= Len(files'["utils"])
    <3>1. files["utils"][i][1] = order[j]
      BY <1>3, <2>1
    <3> QED
      BY <1>2, <1>4, <2>1, <3>1 DEF PartBefore
  <2>4. i \in DOMAIN files'["utils"] /\ files'["utils"][i] = files["utils"][i]
    BY <1>2, <1>4, <2>2, <2>3 DEF PartBefore
  <2> QED
    BY <2>1, <2>4 DEF In
<1> QED
  BY <1>2, <1>5, UtilsKept

\* Nothing but a stop leaves utils half edited.
LEMMA UtilsInvariance ==
  ASSUME PatcherConstants
  PROVE  Spec => []UtilsWhole
<1>1. Init => UtilsWhole
  <2> SUFFICES ASSUME Init
               PROVE  ToSet(order) = {}
    BY DEF UtilsWhole
  <2> QED
    BY DEF Init, ToSet
<1>2. PatchInv /\ UtilsWhole /\ [Next]_vars => UtilsWhole'
  <2> SUFFICES ASSUME PatchInv, UtilsWhole, [Next]_vars
               PROVE  UtilsWhole'
    OBVIOUS
  <2>1. ASSUME UNCHANGED vars
        PROVE  UtilsWhole'
    BY <2>1 DEF vars, UtilsWhole, In
  <2>2. ASSUME NEW s \in Scripts, Start(s) \/ Succeed(s) \/ Skip(s) \/ Apply(s) \/ Fail(s)
        PROVE  UtilsWhole'
    BY <2>2, StartUtils, EndUtils, PassUtils
  <2>3. ASSUME NEW s \in Scripts,
               SkipWhole(s) \/ ApplyWhole(s) \/ CopyAndApply(s) \/ Revert(s)
        PROVE  UtilsWhole'
    BY <2>3, WholeUtils, RevertUtils
  <2>4. CASE Kill
    BY <2>4, EndUtils
  <2> QED
    BY <2>1, <2>2, <2>3, <2>4 DEF Next
<1> QED
  BY <1>1, <1>2, PatchInvariance, PTL DEF Spec

\* The script that runs has not reported success since it was started.
RunningNotDone == proc.script \notin done

LEMMA RunningNotDoneInvariance ==
  ASSUME PatcherConstants
  PROVE  Spec => []RunningNotDone
<1>1. Init => RunningNotDone
  BY DEF Init, RunningNotDone
<1>2. PatchInv /\ PatchInv' /\ RunningNotDone /\ [Next]_vars => RunningNotDone'
  <2> SUFFICES ASSUME PatchInv, PatchInv', RunningNotDone, [Next]_vars
               PROVE  RunningNotDone'
    OBVIOUS
  <2>1. ASSUME proc' = Idle
        PROVE  RunningNotDone'
    <3>1. "none" \notin ToSet(order')
      <4>1. order' \in Seq(Scripts) /\ Scripts \subseteq DOMAIN Edits
        BY DEF PatchInv, OrderType, PatcherConstants
      <4>2. "none" \notin DOMAIN Edits
        BY DEF Edits
      <4> QED
        BY <4>1, <4>2 DEF ToSet
    <3> QED
      BY <2>1, <3>1 DEF RunningNotDone, PatchInv, OrderType, Idle
  <2>2. ASSUME UNCHANGED vars
        PROVE  RunningNotDone'
    BY <2>2 DEF vars, RunningNotDone
  <2>3. ASSUME NEW s \in Scripts, Start(s)
        PROVE  RunningNotDone'
    BY <2>3 DEF Start, RunningNotDone
  <2>4. ASSUME NEW s \in Scripts, Skip(s) \/ Apply(s)
        PROVE  RunningNotDone'
    BY <2>4 DEF Skip, Apply, RunningNotDone, PatchInv, ProcType
  <2>5. ASSUME NEW s \in Scripts, Succeed(s) \/ Fail(s) \/ SkipWhole(s) \/ ApplyWhole(s)
                                  \/ CopyAndApply(s) \/ Revert(s)
        PROVE  RunningNotDone'
    BY <2>1, <2>5 DEF Succeed, Fail, SkipWhole, ApplyWhole, CopyAndApply, Revert
  <2>6. CASE Kill
    BY <2>1, <2>6 DEF Kill
  <2> QED
    BY <2>2, <2>3, <2>4, <2>5, <2>6 DEF Next
<1> QED
  BY <1>1, <1>2, PatchInvariance, PTL DEF Spec

\* Backups are parts of their files, in the terms of BackupsNest.
LEMMA NestedBackups ==
  ASSUME PatcherConstants, PatchInv
  PROVE  BackupsNest
<1>1. /\ order \in Seq(Scripts) /\ Len(order) \in Nat /\ DOMAIN order = 1..Len(order)
      /\ \A i, j \in DOMAIN order : order[i] = order[j] => i = j
  BY DEF PatchInv, OrderType
<1>2. ASSUME NEW b \in DOMAIN baks, b[1] \in ToSet(order) \ CopiesAlways
      PROVE  /\ IsPrefix(baks[b], files[b[2]])
             /\ \A i \in DOMAIN files[b[2]] :
                  Earlier(files[b[2]][i][1], b[1]) <=> i <= Len(baks[b])
  <2> DEFINE g == baks[b]
             c == files[b[2]]
  <2>1. PICK k \in DOMAIN order : order[k] = b[1]
    BY <1>2, OrderFacts DEF PatchInv
  <2>2. b[2] \in Files /\ b = <<b[1], b[2]>> /\ g \in Seq(Ids) /\ c \in Seq(Ids)
    BY DEF PatchInv, ContentType
  <2>3. PartBefore(g, c, order, k)
    BY <1>2, <2>1, <2>2 DEF PatchInv, Nested
  <2> HIDE DEF g, c
  <2>4. IsPrefix(g, c)
    <3>1. Len(g) \in Nat /\ Len(c) \in Nat /\ Len(g) <= Len(c)
      BY <2>2, <2>3 DEF PartBefore
    <3>2. \A i \in 1..Len(g) : g[i] = c[i]
      BY <2>3 DEF PartBefore
    <3>3. SubSeq(g, 1, Len(g)) = [i \in 1..Len(g) |-> g[i]]
          /\ SubSeq(c, 1, Len(g)) = [i \in 1..Len(g) |-> c[i]]
      BY <2>2, <3>1
    <3>4. SubSeq(g, 1, Len(g)) = SubSeq(c, 1, Len(g))
      BY <3>2, <3>3
    <3> QED
      BY <3>1, <3>4 DEF IsPrefix
  <2>5. \A x : Earlier(x, b[1]) <=> \E j \in 1..(k - 1) : x = order[j]
    <3> TAKE x
    <3>1. ASSUME Earlier(x, b[1])
          PROVE  \E j \in 1..(k - 1) : x = order[j]
      <4>1. PICK i, n \in DOMAIN order : i < n /\ order[i] = x /\ order[n] = b[1]
        BY <3>1 DEF Earlier
      <4>2. n = k
        BY <1>1, <2>1, <4>1
      <4> QED
        BY <1>1, <4>1, <4>2
    <3>2. ASSUME NEW j \in 1..(k - 1), x = order[j]
          PROVE  Earlier(x, b[1])
      <4>1. j \in DOMAIN order /\ j < k
        BY <1>1
      <4> QED
        BY <2>1, <3>2, <4>1 DEF Earlier
    <3> QED
      BY <3>1, <3>2
  <2>6. \A i \in DOMAIN c : Earlier(c[i][1], b[1]) <=> i <= Len(g)
    BY <2>3, <2>5 DEF PartBefore
  <2> QED
    BY <2>4, <2>6 DEF g, c
<1>3. ASSUME order = <<>>, NEW f \in Files
      PROVE  files[f] = <<>>
  <2>1. ToSet(order) = {}
    BY <1>3 DEF ToSet
  <2>2. files[f] \in Seq(Ids) /\ \A i \in DOMAIN files[f] : FALSE
    BY <2>1 DEF PatchInv, ContentType, Owned
  <2>3. Len(files[f]) = 0
    <3>1. Len(files[f]) \in Nat /\ DOMAIN files[f] = 1..Len(files[f])
      BY <2>2
    <3>2. 1 \notin DOMAIN files[f]
      BY <2>2
    <3> QED
      BY <3>1, <3>2
  <2> QED
    BY <2>2, <2>3
<1> QED
  BY <1>2, <1>3 DEF BackupsNest

\* The runs of the patch scripts, in any order the operator makes them, killed,
\* failed, run again and reverted, on any tree: no edit that is looked for gets into
\* a file twice; the backups nest, so that reverts, latest first, lead back to the
\* tree as it was; and a script that reports success has all its edits in, unless
\* it was stopped and the edit has no marker of its own.
THEOREM PatchesSound ==
  ASSUME PatcherConstants
  PROVE  Spec => [](NoEditTwice /\ BackupsNest /\ MissingOnlyIfStopped)
<1>1. PatchInv => NoEditTwice
  BY DEF PatchInv, FilesGood, GoodFile, NoEditTwice
<1>2. PatchInv /\ UtilsWhole /\ RunningNotDone => MissingOnlyIfStopped
  <2> SUFFICES ASSUME PatchInv, UtilsWhole, RunningNotDone
               PROVE  MissingOnlyIfStopped
    OBVIOUS
  <2>1. ASSUME NEW s \in done, NEW n \in DOMAIN Edits[s]
        PROVE  \/ Has(files[Edits[s][n].file], Edits[s][n])
               \/ s \in stopped /\ Unmarked(s, n)
    <3>1. s \in DOMAIN Edits /\ s \in ToSet(order)
      BY OrderFacts DEF PatchInv, OrderType
    <3>2. CASE n \in Required(s)
      <4>1. In(files[Edits[s][n].file], s, n)
        BY <3>2 DEF PatchInv, FrontComplete, Complete
      <4> QED
        BY <3>1, <4>1, HasIsIn
    <3>3. CASE n \notin Required(s)
      <4>1. s = "apply_0028" /\ n \in {2, 3}
        <5>1. s = "apply_0028"
          BY <3>3 DEF Required
        <5> QED
          BY <3>1, <3>3, <5>1, EditFacts DEF Required
      <4>2. Edits[s][n].file = "utils" /\ ~Edits[s][n].mark /\ s \notin WholeFile
        BY <3>1, <4>1, EditFacts DEF WholeFile
      <4>3. CASE s \in stopped
        BY <4>2, <4>3 DEF Unmarked
      <4>4. CASE s \notin stopped
        <5>1. proc.script # s
          BY DEF RunningNotDone
        <5>2. In(files["utils"], s, n)
          BY <3>1, <4>1, <4>4, <5>1 DEF UtilsWhole
        <5> QED
          BY <3>1, <4>2, <5>2, HasIsIn
      <4> QED
        BY <4>3, <4>4
    <3> QED
      BY <3>2, <3>3
  <2>2. ASSUME NEW s \in WholeFile, NEW m \in DOMAIN Edits[s], NEW n \in DOMAIN Edits[s],
               Has(files[TheFile(s)], Edits[s][m])
        PROVE  Has(files[TheFile(s)], Edits[s][n])
    <3>1. s \in DOMAIN Edits
      BY DEF WholeFile, Edits
    <3>2. TheFile(s) \in Files
      BY <3>1, EditFacts DEF TheFile
    <3>3. In(files[TheFile(s)], s, m) => In(files[TheFile(s)], s, n)
      BY <3>2 DEF PatchInv, FilesGood, GoodFile
    <3> QED
      BY <2>2, <3>1, <3>3, HasIsIn
  <2> QED
    BY <2>1, <2>2 DEF MissingOnlyIfStopped
<1>3. PatchInv => BackupsNest
  BY NestedBackups
<1> QED
  BY <1>1, <1>2, <1>3, PatchInvariance, UtilsInvariance, RunningNotDoneInvariance, PTL

-------------------------------------------------------------------------------
(* The relay of patches 0003 and 0004 between the ranks. *)

CONSTANTS Slots, MaxSampleLen, Depth, MaxSteps
VARIABLES plan, gen, latest, other, last, proposed, sends, recvs, queue, drafts, used

Relay == INSTANCE PPRelay WITH since <- latest

\* Slot numbers are the rows of a table, a sample has a token, and the outputs of
\* a batch are used in a later one.
RelayConstants ==
  /\ IsFiniteSet(Slots) /\ Slots \subseteq Nat
  /\ MaxSampleLen \in Nat \ {0}
  /\ Depth \in Nat \ {0}
  /\ MaxSteps \in Nat

Batches == [reqs : SUBSET Slots, need : SUBSET Slots, prev : [Slots -> Nat]]

Receipts == [step : Nat, need : SUBSET Slots, gen : [Slots -> Nat]]

Ops == [kind : {"sampled", "combined", "draft"}, step : Nat, count : Int]

RelayType ==
  /\ plan \in Seq(Batches)
  /\ gen \in [Slots -> Nat] /\ latest \in [Slots -> Nat]
  /\ other \in Nat /\ last \in Nat /\ proposed \in Nat
  /\ sends \in Seq(Ops) /\ recvs \in Seq(Ops)
  /\ queue \in Seq(Receipts)
  /\ drafts \in [Slots -> Nat]

\* How far the programs are.
RelayProgress ==
  /\ other <= Len(plan) /\ Len(plan) <= other + 1
  /\ last <= other
  /\ proposed = last \/ last = proposed + 1

-------------------------------------------------------------------------------
(* What a batch posts. *)

\* The last rank's first two broadcasts.
Sampled(m) ==
  IF ~Relay!Needed(m) THEN <<>>
  ELSE << Relay!Op("sampled", m, Relay!Rows(m) * MaxSampleLen), Relay!Op("combined", m, 2 * Relay!Rows(m)) >>

\* ... and its third.
Draft(m) == Relay!Op("draft", m, Relay!Rows(m) * (MaxSampleLen - 1))

LEMMA ConcatItems ==
  ASSUME NEW S, NEW x \in Seq(S), NEW y \in Seq(S)
  PROVE  /\ x \o y \in Seq(S) /\ Len(x \o y) = Len(x) + Len(y)
         /\ \A i \in 1..Len(x) : (x \o y)[i] = x[i]
<1>1. x \o y \in Seq(S) /\ Len(x \o y) = Len(x) + Len(y)
  BY ConcatProperties
<1>2. \A i \in 1..Len(x) : (x \o y)[i] = x[i]
  BY ConcatProperties
<1> QED
  BY <1>1, <1>2

LEMMA ConcatRest ==
  ASSUME NEW S, NEW x \in Seq(S), NEW y \in Seq(S), NEW i \in 1..Len(y),
         NEW j, j = Len(x) + i
  PROVE  (x \o y)[j] = y[i]
<1> DEFINE k == Len(x)
           l == Len(y)
           z == x \o y
<1>1. k \in Nat /\ l \in Nat /\ i \in 1..l
  OBVIOUS
<1>2. \A n \in 1..(k + l) : z[n] = IF n <= k THEN x[n] ELSE y[n - k]
  BY ConcatProperties
<1> HIDE DEF k, l, z
<1>3. k + i \in 1..(k + l) /\ ~(k + i <= k) /\ (k + i) - k = i
  BY <1>1
<1>4. z[k + i] = y[(k + i) - k]
  BY <1>2, <1>3
<1> QED
  BY <1>3, <1>4 DEF k, z

LEMMA OpsTyped ==
  ASSUME RelayConstants, RelayType, NEW m \in 1..Len(plan)
  PROVE  /\ m \in Nat /\ Relay!Rows(m) \in Nat
         /\ Relay!Op("sampled", m, Relay!Rows(m) * MaxSampleLen) \in Ops
         /\ Relay!Op("combined", m, 2 * Relay!Rows(m)) \in Ops
         /\ Draft(m) \in Ops
<1>1. plan[m] \in Batches /\ m \in Nat
  BY DEF RelayType
<1>2. plan[m].reqs \subseteq Slots
  BY <1>1 DEF Batches
<1>3. IsFiniteSet(plan[m].reqs)
  BY <1>2, FS_Subset DEF RelayConstants
<1>4. Relay!Rows(m) \in Nat
  BY <1>3, FS_CardinalityType DEF Relay!Rows, Relay!Cardinality, Cardinality
<1> DEFINE r == Relay!Rows(m)
<1>5. r \in Nat /\ MaxSampleLen \in Nat
  BY <1>4 DEF RelayConstants
<1> HIDE DEF r
<1>6. r * MaxSampleLen \in Int /\ 2 * r \in Int /\ r * (MaxSampleLen - 1) \in Int
  BY <1>5
<1> QED
  BY <1>1, <1>4, <1>6 DEF Ops, Relay!Op, Draft, r

LEMMA ReceiveShape ==
  ASSUME RelayConstants, RelayType, NEW m \in 1..Len(plan)
  PROVE  /\ Sampled(m) \in Seq(Ops) /\ Relay!Receive(m) \in Seq(Ops)
         /\ \A i \in 1..Len(Sampled(m)) : Relay!Receive(m)[i] = Sampled(m)[i]
         /\ Relay!Relayed(m) => /\ Len(Relay!Receive(m)) = Len(Sampled(m)) + 1
                          /\ Relay!Receive(m)[Len(Sampled(m)) + 1] = Draft(m)
         /\ ~Relay!Relayed(m) => Len(Relay!Receive(m)) = Len(Sampled(m))
<1> DEFINE a == Relay!Op("sampled", m, Relay!Rows(m) * MaxSampleLen)
           b == Relay!Op("combined", m, 2 * Relay!Rows(m))
           c == Draft(m)
<1>1. a \in Ops /\ b \in Ops /\ c \in Ops
  BY OpsTyped
<1>2. Sampled(m) = IF ~Relay!Needed(m) THEN <<>> ELSE <<a, b>>
  BY DEF Sampled
<1>3. Relay!Receive(m) = IF ~Relay!Needed(m) THEN <<>>
                   ELSE <<a, b>> \o (IF MaxSampleLen > 1 THEN <<c>> ELSE <<>>)
  BY DEF Relay!Receive, Draft
<1> HIDE DEF a, b, c
<1>4. CASE ~Relay!Needed(m)
  BY <1>2, <1>3, <1>4 DEF Relay!Relayed
<1>5. CASE Relay!Needed(m) /\ MaxSampleLen > 1
  <2>1. Relay!Receive(m) = <<a, b>> \o <<c>> /\ Sampled(m) = <<a, b>>
    BY <1>2, <1>3, <1>5
  <2>2. Relay!Relayed(m)
    BY <1>5 DEF Relay!Relayed
  <2> DEFINE x == <<a, b>>
             y == <<c>>
  <2>3. x \in Seq(Ops) /\ Len(x) = 2 /\ y \in Seq(Ops) /\ Len(y) = 1 /\ y[1] = c
    BY <1>1
  <2> HIDE DEF x, y
  <2> DEFINE z == x \o y
  <2>4. z \in Seq(Ops) /\ Len(z) = Len(x) + Len(y)
    BY <2>3, ConcatItems
  <2>5. \A i \in 1..Len(x) : z[i] = x[i]
    BY <2>3, ConcatItems
  <2>6. z[Len(x) + 1] = y[1]
    <3>1. 1 \in 1..Len(y) /\ x \in Seq(Ops) /\ y \in Seq(Ops)
      BY <2>3
    <3> DEFINE j == Len(x) + 1
    <3>2. j = Len(x) + 1
      OBVIOUS
    <3> HIDE DEF j
    <3>3. z[j] = y[1]
      BY <3>1, <3>2, ConcatRest
    <3> QED
      BY <3>2, <3>3
  <2>7. Relay!Receive(m) = z /\ Sampled(m) = x
    BY <2>1 DEF x, y
  <2> HIDE DEF z
  <2>8. Len(z) = Len(x) + 1 /\ z[Len(x) + 1] = Draft(m)
    BY <2>3, <2>4, <2>6 DEF c
  <2> QED
    BY <2>2, <2>3, <2>4, <2>5, <2>7, <2>8
<1>6. CASE Relay!Needed(m) /\ ~(MaxSampleLen > 1)
  <2>1. Relay!Receive(m) = <<a, b>> /\ Sampled(m) = <<a, b>>
    BY <1>1, <1>2, <1>3, <1>6
  <2>2. ~Relay!Relayed(m)
    BY <1>6 DEF Relay!Relayed
  <2> QED
    BY <1>1, <2>1, <2>2
<1> QED
  BY <1>4, <1>5, <1>6

\* RunLast posts the first two broadcasts, padded to the width that is received.
LEMMA RunLastSends ==
  ASSUME Relay!RunLast
  PROVE  sends' = sends \o Sampled(last + 1)
BY DEF Relay!RunLast, Sampled, Relay!Padded

\* What is scheduled changes no batch already planned.
LEMMA PlanKept ==
  ASSUME RelayType, NEW reqs \in SUBSET Slots, NEW need \in SUBSET reqs,
         Relay!Schedule(reqs, need), NEW m \in 1..Len(plan)
  PROVE  /\ plan'[m] = plan[m]
         /\ Relay!Receive(m)' = Relay!Receive(m)
         /\ Relay!Needed(m)' = Relay!Needed(m) /\ Relay!Relayed(m)' = Relay!Relayed(m)
         /\ Draft(m)' = Draft(m)
<1> DEFINE b == [reqs |-> reqs, need |-> need, prev |-> latest]
<1>1. b \in Batches /\ plan' = Append(plan, b)
  BY DEF RelayType, Batches, Relay!Schedule
<1>2. plan'[m] = plan[m]
  BY <1>1 DEF RelayType
<1> QED
  BY <1>2 DEF Relay!Receive, Relay!Needed, Relay!Relayed, Draft, Relay!Rows, Relay!Cardinality, Cardinality

-------------------------------------------------------------------------------
(* Types and progress. *)

\* The variables keep their types; the other rank follows the schedule, and the
\* last rank follows the other and never has two batches to draft for.
THEOREM RelayInvariance ==
  ASSUME RelayConstants
  PROVE  Relay!Spec => [](RelayType /\ RelayProgress)
<1>1. Relay!Init => RelayType /\ RelayProgress
  <2> SUFFICES ASSUME Relay!Init PROVE RelayType /\ RelayProgress
    OBVIOUS
  <2>1. [s \in Slots |-> 0] \in [Slots -> Nat]
    OBVIOUS
  <2>2. Len(<<>>) = 0
    OBVIOUS
  <2> QED
    BY <2>1, <2>2 DEF Relay!Init, RelayType, RelayProgress, Relay!None
<1>2. RelayType /\ RelayProgress /\ [Relay!Next]_Relay!vars => (RelayType /\ RelayProgress)'
  <2> SUFFICES ASSUME RelayType, RelayProgress, [Relay!Next]_Relay!vars
               PROVE  (RelayType /\ RelayProgress)'
    OBVIOUS
  <2>1. CASE UNCHANGED Relay!vars
    BY <2>1 DEF Relay!vars, RelayType, RelayProgress
  <2>2. ASSUME NEW reqs \in (SUBSET Slots) \ {{}}, NEW need \in SUBSET reqs,
               Relay!Schedule(reqs, need)
        PROVE  (RelayType /\ RelayProgress)'
    <3> DEFINE b == [reqs |-> reqs, need |-> need, prev |-> latest]
    <3>1. b \in Batches /\ plan' = Append(plan, b) /\ other = Len(plan)
      BY <2>2 DEF RelayType, Batches, Relay!Schedule
    <3>2. plan' \in Seq(Batches) /\ Len(plan') = Len(plan) + 1
      BY <3>1 DEF RelayType
    <3>3. Len(plan) \in Nat
      BY DEF RelayType
    <3>4. latest' \in [Slots -> Nat]
      BY <2>2, <3>3 DEF RelayType, Relay!Schedule
    <3> QED
      BY <2>2, <3>1, <3>2, <3>3, <3>4 DEF RelayType, RelayProgress, Relay!Schedule
  <2>3. ASSUME NEW s \in Slots, Relay!Abort(s)
        PROVE  (RelayType /\ RelayProgress)'
    <3>1. gen' \in [Slots -> Nat] /\ latest' \in [Slots -> Nat]
      BY <2>3 DEF RelayType, Relay!Abort, Relay!None
    <3> QED
      BY <2>3, <3>1 DEF RelayType, RelayProgress, Relay!Abort
  <2>4. CASE Relay!RunOther
    <3> DEFINE m == other + 1
               due == Len(queue) = Depth
    <3>1. m \in 1..Len(plan) /\ m \in Nat /\ other' = m
      BY <2>4 DEF Relay!RunOther, RelayType, RelayProgress
    <3>2. recvs' \in Seq(Ops)
      BY <2>4, <3>1, ReceiveShape DEF Relay!RunOther, RelayType
    <3>3. plan[m] \in Batches
      BY <3>1 DEF RelayType
    <3>4. Relay!NoRecv \in Receipts /\ [step |-> m, need |-> plan[m].need, gen |-> gen] \in Receipts
      BY <3>1, <3>3 DEF RelayType, Receipts, Relay!NoRecv, Relay!None, Batches
    <3>5. due => queue # <<>>
      BY DEF RelayConstants
    <3>6. (IF due THEN Tail(queue) ELSE queue) \in Seq(Receipts)
      BY <3>5 DEF RelayType
    <3>7. queue' \in Seq(Receipts)
      BY <2>4, <3>4, <3>6 DEF Relay!RunOther
    <3>8. due => Head(queue) \in Receipts
      BY <3>5 DEF RelayType
    <3>9. due => Relay!Scatter(drafts, Relay!IdxMapping(Head(queue)), Head(queue).step) \in [Slots -> Nat]
      BY <3>8 DEF Relay!Scatter, RelayType, Receipts
    <3>10. drafts' \in [Slots -> Nat]
      BY <2>4, <3>9 DEF Relay!RunOther, RelayType
    <3> QED
      BY <2>4, <3>1, <3>2, <3>7, <3>10 DEF Relay!RunOther, RelayType, RelayProgress
  <2>5. CASE Relay!RunLast
    <3>1. last + 1 \in 1..Len(plan) /\ last + 1 \in Nat
      BY <2>5 DEF Relay!RunLast, RelayType, RelayProgress
    <3>2. sends' = sends \o Sampled(last + 1) /\ Sampled(last + 1) \in Seq(Ops)
      BY <2>5, <3>1, RunLastSends, ReceiveShape
    <3>3. sends' \in Seq(Ops)
      BY <3>2 DEF RelayType
    <3> QED
      BY <2>5, <3>1, <3>3 DEF Relay!RunLast, RelayType, RelayProgress
  <2>6. CASE Relay!Propose
    <3>1. last \in 1..Len(plan)
      BY <2>6 DEF Relay!Propose, RelayType, RelayProgress
    <3>2. Relay!Op("draft", last, Relay!Rows(last) * (MaxSampleLen - 1)) \in Ops
      BY <3>1, OpsTyped DEF Draft
    <3>3. sends' \in Seq(Ops)
      BY <2>6, <3>2 DEF Relay!Propose, RelayType
    <3> QED
      BY <2>6, <3>1, <3>3 DEF Relay!Propose, RelayType, RelayProgress
  <2>7. CASE Relay!Match
    BY <2>7 DEF Relay!Match, RelayType, RelayProgress
  <2> QED
    BY <2>1, <2>2, <2>3, <2>4, <2>5, <2>6, <2>7 DEF Relay!Next
<1> QED
  BY <1>1, <1>2, PTL DEF Relay!Spec

-------------------------------------------------------------------------------
(* The two streams of broadcasts. *)

\* The last rank has sampled a batch whose drafts it is about to relay.
Owed == proposed < last /\ Relay!Relayed(last)

\* The broadcasts posted by the last rank are the first of those posted by the
\* other: what the other has posted besides are the drafts that the last rank is
\* about to propose, and all of the batches it has not sampled, where m's
\* begin after place f[m].
Aligned(f) ==
  /\ \A i \in 1..Len(sends) : sends[i] = recvs[i]
  /\ Owed => f[last + 1] = Len(sends) + 1 /\ recvs[Len(sends) + 1] = Draft(last)
  /\ ~Owed => f[last + 1] = Len(sends)
  /\ f[other + 1] = Len(recvs)
  /\ \A m \in (last + 1)..(other + 1) :
       \A n \in (last + 1)..(other + 1) : m <= n => f[m] <= f[n]
  /\ \A m \in (last + 1)..other : f[m + 1] = f[m] + Len(Relay!Receive(m))
  /\ \A m \in (last + 1)..other : \A i \in 1..Len(Relay!Receive(m)) :
       recvs[f[m] + i] = Relay!Receive(m)[i]

StreamsAlign == \E f \in [Nat -> Int] : Aligned(f)

\* What f[m] may be.
LEMMA PlacesBounded ==
  ASSUME RelayConstants, RelayType, RelayProgress, NEW f \in [Nat -> Int], Aligned(f)
  PROVE  /\ Len(sends) \in Nat /\ Len(recvs) \in Nat /\ Len(sends) <= Len(recvs)
         /\ Owed => Len(sends) + 1 <= Len(recvs)
         /\ \A m \in (last + 1)..(other + 1) :
              m \in Nat /\ f[m] \in Int /\ Len(sends) <= f[m] /\ f[m] <= Len(recvs)
         /\ Owed => \A m \in (last + 1)..(other + 1) : Len(sends) + 1 <= f[m]
         /\ \A m \in (last + 1)..other : m \in 1..Len(plan) /\ Len(Relay!Receive(m)) \in Nat
         /\ \A m \in (last + 1)..other : \A i \in 1..Len(Relay!Receive(m)) :
              Len(sends) + 1 <= f[m] + i /\ f[m] + i <= Len(recvs)
<1> DEFINE k == Len(sends)
           l == Len(recvs)
<1>1. k \in Nat /\ l \in Nat
  BY DEF RelayType
<1>2. /\ last \in Nat /\ other \in Nat /\ last <= other
      /\ other <= Len(plan) /\ Len(plan) \in Nat
  BY DEF RelayType, RelayProgress
<1>3. (Owed => f[last + 1] = k + 1) /\ (~Owed => f[last + 1] = k) /\ f[other + 1] = l
  BY DEF Aligned
<1>4. \A m \in (last + 1)..(other + 1) : m \in Nat /\ f[m] \in Int
  BY <1>2
<1>5. \A m \in (last + 1)..(other + 1) : f[last + 1] <= f[m] /\ f[m] <= f[other + 1]
  <2> TAKE m \in (last + 1)..(other + 1)
  <2>1. /\ last + 1 \in (last + 1)..(other + 1) /\ last + 1 <= m
        /\ other + 1 \in (last + 1)..(other + 1) /\ m <= other + 1
    BY <1>2
  <2>2. \A a, b \in (last + 1)..(other + 1) : a <= b => f[a] <= f[b]
    BY DEF Aligned
  <2> QED
    BY <2>1, <2>2
<1> HIDE DEF k, l
<1>6. \A m \in (last + 1)..(other + 1) :
        k <= f[m] /\ f[m] <= l /\ (Owed => k + 1 <= f[m])
  BY <1>1, <1>3, <1>4, <1>5
<1>7. last + 1 \in (last + 1)..(other + 1)
  BY <1>2
<1>8. k <= l /\ (Owed => k + 1 <= l)
  BY <1>1, <1>3, <1>4, <1>6, <1>7
<1>9. \A m \in (last + 1)..other : m \in 1..Len(plan) /\ m + 1 \in (last + 1)..(other + 1)
                                   /\ m \in (last + 1)..(other + 1)
  BY <1>2
<1>10. \A m \in (last + 1)..other : Len(Relay!Receive(m)) \in Nat
  BY <1>9, ReceiveShape
<1>11. \A m \in (last + 1)..other : f[m + 1] = f[m] + Len(Relay!Receive(m))
  BY DEF Aligned
<1>12. ASSUME NEW m \in (last + 1)..other, NEW i \in 1..Len(Relay!Receive(m))
       PROVE  k + 1 <= f[m] + i /\ f[m] + i <= l
  <2> DEFINE n == Len(Relay!Receive(m))
             x == f[m]
             y == f[m + 1]
  <2>1. n \in Nat /\ i \in 1..n /\ y = x + n
    BY <1>10, <1>11
  <2>2. k <= x /\ y <= l /\ x \in Int
    BY <1>4, <1>6, <1>9
  <2> HIDE DEF n, x, y
  <2>3. k + 1 <= x + i /\ x + i <= l
    BY <1>1, <2>1, <2>2
  <2> QED
    BY <2>3 DEF x
<1> QED
  BY <1>1, <1>4, <1>6, <1>8, <1>9, <1>10, <1>12 DEF k, l

LEMMA ScheduleAligns ==
  ASSUME RelayConstants, RelayType, RelayProgress, NEW f \in [Nat -> Int], Aligned(f),
         NEW reqs \in SUBSET Slots, NEW need \in SUBSET reqs, Relay!Schedule(reqs, need)
  PROVE  Aligned(f)'
<1>1. UNCHANGED <<other, last, proposed, sends, recvs>>
  BY DEF Relay!Schedule
<1>2. /\ last \in Nat /\ other \in Nat /\ last <= other /\ proposed \in Nat
      /\ other <= Len(plan) /\ Len(plan) \in Nat
  BY DEF RelayType, RelayProgress
<1>3. proposed < last => last \in 1..Len(plan)
  BY <1>2
<1>4. Owed' <=> Owed
  BY <1>1, <1>3, PlanKept DEF Owed
<1>5. Owed => Draft(last)' = Draft(last)
  <2> SUFFICES ASSUME Owed PROVE Draft(last)' = Draft(last)
    OBVIOUS
  <2>1. plan'[last] = plan[last]
    BY <1>3, PlanKept DEF Owed
  <2> QED
    BY <2>1, <1>1 DEF Draft, Relay!Rows, Relay!Cardinality, Cardinality
<1>6. \A m \in (last + 1)..other : m \in 1..Len(plan)
  BY <1>2
<1>7. \A m \in (last + 1)..other : Relay!Receive(m)' = Relay!Receive(m)
  BY <1>6, PlanKept
<1> QED
  BY <1>1, <1>4, <1>5, <1>7 DEF Aligned

LEMMA MatchAligns ==
  ASSUME RelayConstants, RelayType, RelayProgress, NEW f \in [Nat -> Int], Aligned(f), Relay!Match
  PROVE  StreamsAlign'
<1> DEFINE g == [n \in Nat |-> f[n] - 1]
           k == Len(sends)
           l == Len(recvs)
<1>1. UNCHANGED <<plan, other, last, proposed>>
  BY DEF Relay!Match
<1>2. /\ sends # <<>> /\ recvs # <<>>
      /\ sends' = Tail(sends) /\ recvs' = Tail(recvs)
  BY DEF Relay!Match
<1>3. /\ k \in Nat /\ l \in Nat /\ k >= 1 /\ l >= 1
      /\ Len(sends') = k - 1 /\ Len(recvs') = l - 1
  BY <1>2 DEF RelayType
<1>4. \A i \in 1..(k - 1) : sends'[i] = sends[i + 1]
  BY <1>2, <1>3 DEF RelayType
<1>5. \A i \in 1..(l - 1) : recvs'[i] = recvs[i + 1]
  BY <1>2, <1>3 DEF RelayType
<1>6. /\ k <= l /\ (Owed => k + 1 <= l)
      /\ \A m \in (last + 1)..(other + 1) : m \in Nat /\ f[m] \in Int
      /\ \A m \in (last + 1)..other : \A i \in 1..Len(Relay!Receive(m)) :
           k + 1 <= f[m] + i /\ f[m] + i <= l
      /\ \A m \in (last + 1)..other : Len(Relay!Receive(m)) \in Nat
  BY PlacesBounded
<1>7. /\ \A i \in 1..k : sends[i] = recvs[i]
      /\ Owed => f[last + 1] = k + 1 /\ recvs[k + 1] = Draft(last)
      /\ ~Owed => f[last + 1] = k
      /\ f[other + 1] = l
  BY DEF Aligned
<1>8. /\ \A m \in (last + 1)..(other + 1) :
           \A n \in (last + 1)..(other + 1) : m <= n => f[m] <= f[n]
      /\ \A m \in (last + 1)..other : f[m + 1] = f[m] + Len(Relay!Receive(m))
      /\ \A m \in (last + 1)..other : \A i \in 1..Len(Relay!Receive(m)) :
           recvs[f[m] + i] = Relay!Receive(m)[i]
  BY DEF Aligned
<1>9. (Owed' <=> Owed) /\ Draft(last)' = Draft(last)
  BY <1>1 DEF Owed, Relay!Relayed, Relay!Needed, Draft, Relay!Rows, Relay!Cardinality, Cardinality
<1>10. \A m \in (last + 1)..other : Relay!Receive(m)' = Relay!Receive(m)
  BY <1>1 DEF Relay!Receive, Relay!Needed, Relay!Rows, Relay!Cardinality, Cardinality
<1>11. last \in Nat /\ other \in Nat /\ last <= other
  BY DEF RelayType, RelayProgress
<1> HIDE DEF k, l
<1>12. \A i \in 1..Len(sends') : sends'[i] = recvs'[i]
  <2> SUFFICES ASSUME NEW i \in 1..(k - 1) PROVE sends'[i] = recvs'[i]
    BY <1>3
  <2>1. i + 1 \in 1..k /\ i \in 1..(l - 1)
    BY <1>3, <1>6
  <2> QED
    BY <2>1, <1>4, <1>5, <1>7
<1>13. g[last + 1] = f[last + 1] - 1 /\ g[other + 1] = f[other + 1] - 1
  BY <1>11
<1>14. Owed => g[last + 1] = Len(sends') + 1 /\ recvs'[Len(sends') + 1] = Draft(last)
  <2> SUFFICES ASSUME Owed PROVE g[last + 1] = k /\ recvs'[k] = Draft(last)
    BY <1>3
  <2>1. g[last + 1] = k
    BY <1>3, <1>7, <1>13
  <2>2. k \in 1..(l - 1)
    BY <1>3, <1>6
  <2> QED
    BY <2>1, <2>2, <1>5, <1>7
<1>15. ~Owed => g[last + 1] = Len(sends')
  BY <1>3, <1>7, <1>13
<1>16. g[other + 1] = Len(recvs')
  BY <1>3, <1>7, <1>13
<1>17. \A m \in (last + 1)..(other + 1) : g[m] = f[m] - 1
  BY <1>6
<1>18. \A m \in (last + 1)..(other + 1) :
         \A n \in (last + 1)..(other + 1) : m <= n => g[m] <= g[n]
  BY <1>6, <1>8, <1>17
<1>19. \A m \in (last + 1)..other : /\ m \in (last + 1)..(other + 1)
                                    /\ m + 1 \in (last + 1)..(other + 1)
  BY <1>11
<1>20. \A m \in (last + 1)..other : g[m + 1] = g[m] + Len(Relay!Receive(m))
  BY <1>6, <1>8, <1>17, <1>19
<1>21. ASSUME NEW m \in (last + 1)..other, NEW i \in 1..Len(Relay!Receive(m))
       PROVE  recvs'[g[m] + i] = Relay!Receive(m)[i]
  <2> DEFINE x == f[m]
             j == x + i - 1
             r == Len(Relay!Receive(m))
  <2>1. x \in Int /\ k + 1 <= x + i /\ x + i <= l /\ r \in Nat /\ g[m] = x - 1
    BY <1>6, <1>17, <1>19
  <2>2. i \in 1..r /\ recvs[x + i] = Relay!Receive(m)[i]
    BY <1>8
  <2> HIDE DEF x, r
  <2>3. j \in 1..(l - 1) /\ j + 1 = x + i /\ (x - 1) + i = j
    BY <1>3, <2>1, <2>2
  <2>4. g[m] + i = j
    BY <2>1, <2>3
  <2> HIDE DEF j
  <2> QED
    BY <2>2, <2>3, <2>4, <1>5
<1>22. g \in [Nat -> Int]
  OBVIOUS
<1> HIDE DEF g
<1>23. Aligned(g)'
  BY <1>1, <1>9, <1>10, <1>12, <1>14, <1>15, <1>16, <1>18, <1>20, <1>21 DEF Aligned
<1> QED
  BY <1>22, <1>23 DEF StreamsAlign

LEMMA RunOtherAligns ==
  ASSUME RelayConstants, RelayType, RelayProgress, NEW f \in [Nat -> Int], Aligned(f), Relay!RunOther
  PROVE  StreamsAlign'
<1> DEFINE m0 == other + 1
           R  == Relay!Receive(m0)
           k  == Len(sends)
           l  == Len(recvs)
           r  == Len(R)
           h  == [f EXCEPT ![other + 2] = l + r]
<1>1. UNCHANGED <<plan, last, proposed, sends>> /\ other' = m0 /\ recvs' = recvs \o R
  BY DEF Relay!RunOther
<1>2. /\ last \in Nat /\ other \in Nat /\ last <= other /\ m0 \in 1..Len(plan)
  BY DEF RelayType, RelayProgress, Relay!RunOther
<1>3. R \in Seq(Ops) /\ recvs \in Seq(Ops)
  BY <1>2, ReceiveShape DEF RelayType
<1>4. k \in Nat /\ l \in Nat /\ r \in Nat
  BY <1>3 DEF RelayType
<1>5. Len(recvs') = l + r /\ \A i \in 1..l : recvs'[i] = recvs[i]
  BY <1>1, <1>3, ConcatItems
<1>6. \A i \in 1..r : \A j : j = l + i => recvs'[j] = R[i]
  BY <1>1, <1>3, ConcatRest
<1>7. /\ k <= l /\ (Owed => k + 1 <= l)
      /\ \A m \in (last + 1)..(other + 1) : m \in Nat /\ f[m] \in Int /\ f[m] <= l
      /\ \A m \in (last + 1)..other : \A i \in 1..Len(Relay!Receive(m)) :
           k + 1 <= f[m] + i /\ f[m] + i <= l
  BY PlacesBounded
<1>8. /\ \A i \in 1..k : sends[i] = recvs[i]
      /\ Owed => f[last + 1] = k + 1 /\ recvs[k + 1] = Draft(last)
      /\ ~Owed => f[last + 1] = k
      /\ f[other + 1] = l
  BY DEF Aligned
<1>9. /\ \A m \in (last + 1)..(other + 1) :
           \A n \in (last + 1)..(other + 1) : m <= n => f[m] <= f[n]
      /\ \A m \in (last + 1)..other : f[m + 1] = f[m] + Len(Relay!Receive(m))
      /\ \A m \in (last + 1)..other : \A i \in 1..Len(Relay!Receive(m)) :
           recvs[f[m] + i] = Relay!Receive(m)[i]
  BY DEF Aligned
<1>10. (Owed' <=> Owed) /\ Draft(last)' = Draft(last)
  BY <1>1 DEF Owed, Relay!Relayed, Relay!Needed, Draft, Relay!Rows, Relay!Cardinality, Cardinality
<1>11. \A m \in (last + 1)..(other + 1) : Relay!Receive(m)' = Relay!Receive(m)
  BY <1>1 DEF Relay!Receive, Relay!Needed, Relay!Rows, Relay!Cardinality, Cardinality
<1>0. h \in [Nat -> Int]
  BY <1>2, <1>4
<1>12. PICK g \in [Nat -> Int] : g = h
  BY <1>0
<1>13. g[other + 2] = l + r /\ \A m \in (last + 1)..(other + 1) : g[m] = f[m]
  BY <1>2, <1>12
<1> HIDE DEF k, l, r, h
<1>14. \A i \in 1..k : sends'[i] = recvs'[i]
  <2> TAKE i \in 1..k
  <2>1. i \in 1..l
    BY <1>4, <1>7
  <2> QED
    BY <2>1, <1>1, <1>5, <1>8
<1>15. last + 1 \in (last + 1)..(other + 1) /\ other + 1 \in (last + 1)..(other + 1)
       /\ other + 1 = m0 /\ m0 + 1 = other + 2
  BY <1>2
<1>16. Owed => g[last + 1] = k + 1 /\ recvs'[k + 1] = Draft(last)
  <2> SUFFICES ASSUME Owed PROVE g[last + 1] = k + 1 /\ recvs'[k + 1] = Draft(last)
    OBVIOUS
  <2>1. k + 1 \in 1..l
    BY <1>4, <1>7
  <2>2. g[last + 1] = k + 1
    BY <1>8, <1>13, <1>15
  <2> QED
    BY <2>1, <2>2, <1>5, <1>8
<1>17. ~Owed => g[last + 1] = k
  BY <1>8, <1>13, <1>15
<1>18. \A m \in (last + 1)..(other + 2) : m = other + 2 \/ m \in (last + 1)..(other + 1)
  BY <1>2
<1>19. ASSUME NEW m \in (last + 1)..(other + 2), NEW n \in (last + 1)..(other + 2), m <= n
       PROVE  g[m] <= g[n]
  <2>1. CASE n = other + 2 /\ m = other + 2
    <3>1. g[m] = l + r /\ g[n] = l + r /\ l + r \in Int
      BY <2>1, <1>13, <1>4
    <3> QED
      BY <3>1
  <2>2. CASE n = other + 2 /\ m \in (last + 1)..(other + 1)
    <3>1. g[m] = f[m] /\ f[m] \in Int /\ f[m] <= l /\ g[n] = l + r
      BY <2>2, <1>7, <1>13
    <3> QED
      BY <3>1, <1>4
  <2>3. CASE n \in (last + 1)..(other + 1)
    <3>1. m \in (last + 1)..(other + 1)
      BY <2>3, <1>2, <1>19
    <3> QED
      BY <2>3, <3>1, <1>9, <1>13, <1>19
  <2> QED
    BY <2>1, <2>2, <2>3, <1>18
<1>20. ASSUME NEW m \in (last + 1)..m0
       PROVE  m = m0 \/ (m \in (last + 1)..other /\ m + 1 \in (last + 1)..(other + 1)
                           /\ m \in (last + 1)..(other + 1))
  BY <1>2
<1>21. ASSUME NEW m \in (last + 1)..m0
       PROVE  g[m + 1] = g[m] + Len(Relay!Receive(m))
  <2>1. CASE m = m0
    BY <2>1, <1>8, <1>13, <1>15 DEF r
  <2>2. CASE m \in (last + 1)..other /\ m + 1 \in (last + 1)..(other + 1)
               /\ m \in (last + 1)..(other + 1)
    BY <2>2, <1>9, <1>13
  <2> QED
    BY <2>1, <2>2, <1>20
<1>22. ASSUME NEW m \in (last + 1)..m0, NEW i \in 1..Len(Relay!Receive(m))
       PROVE  recvs'[g[m] + i] = Relay!Receive(m)[i]
  <2>1. CASE m = m0
    <3>1. g[m] = l /\ i \in 1..r
      BY <2>1, <1>8, <1>13, <1>15 DEF r
    <3> QED
      BY <2>1, <3>1, <1>6
  <2>2. CASE m \in (last + 1)..other /\ m \in (last + 1)..(other + 1)
    <3> DEFINE j == f[m] + i
    <3>1. g[m] + i = j /\ recvs[j] = Relay!Receive(m)[i]
      BY <2>2, <1>9, <1>13
    <3>2. k + 1 <= j /\ j <= l /\ f[m] \in Int
      BY <2>2, <1>7
    <3>3. i \in Int
      <4>1. Len(Relay!Receive(m)) \in Nat
        BY <2>2, PlacesBounded
      <4> QED
        BY <4>1
    <3>4. j \in Int
      BY <3>2, <3>3
    <3> HIDE DEF j
    <3>5. j \in 1..l
      BY <3>2, <3>4, <1>4
    <3> QED
      BY <3>1, <3>5, <1>5
  <2> QED
    BY <2>1, <2>2, <1>20
<1>23. /\ Owed' => g[last' + 1] = Len(sends') + 1 /\ recvs'[Len(sends') + 1] = Draft(last)'
       /\ ~Owed' => g[last' + 1] = Len(sends')
       /\ \A i \in 1..Len(sends') : sends'[i] = recvs'[i]
  BY <1>1, <1>10, <1>14, <1>16, <1>17 DEF k
<1>24. g[other' + 1] = Len(recvs')
  BY <1>1, <1>5, <1>13, <1>15
<1>25. \A m \in (last' + 1)..(other' + 1) :
         \A n \in (last' + 1)..(other' + 1) : m <= n => g[m] <= g[n]
  BY <1>1, <1>15, <1>19
<1>26. \A m \in (last' + 1)..other' : g[m + 1] = g[m] + Len(Relay!Receive(m)')
  BY <1>1, <1>11, <1>15, <1>21
<1>27. \A m \in (last' + 1)..other' : \A i \in 1..Len(Relay!Receive(m)') :
         recvs'[g[m] + i] = Relay!Receive(m)'[i]
  <2>1. last' = last /\ other' = other + 1
    BY <1>1
  <2>2. SUFFICES ASSUME NEW m \in (last + 1)..(other + 1), NEW i \in 1..Len(Relay!Receive(m)')
                 PROVE  recvs'[g[m] + i] = Relay!Receive(m)'[i]
    BY <2>1
  <2>3. Relay!Receive(m)' = Relay!Receive(m)
    BY <1>11
  <2> QED
    BY <2>2, <2>3, <1>22
<1>28. Aligned(g)'
  BY <1>23, <1>24, <1>25, <1>26, <1>27 DEF Aligned
<1> QED
  BY <1>28 DEF StreamsAlign

LEMMA RunLastAligns ==
  ASSUME RelayConstants, RelayType, RelayProgress, NEW f \in [Nat -> Int], Aligned(f), Relay!RunLast
  PROVE  Aligned(f)'
<1> DEFINE m0 == last + 1
           S  == Sampled(m0)
           k  == Len(sends)
           l  == Len(recvs)
           s  == Len(S)
           r  == Len(Relay!Receive(m0))
<1>1. /\ UNCHANGED <<plan, other, proposed, recvs>>
      /\ last' = m0 /\ sends' = sends \o S /\ m0 <= other /\ proposed = last
  BY RunLastSends DEF Relay!RunLast
<1>2. /\ last \in Nat /\ other \in Nat /\ m0 \in 1..Len(plan) /\ m0 \in (last + 1)..other
      /\ last + 1 = m0
  BY <1>1 DEF RelayType, RelayProgress
<1>3. /\ S \in Seq(Ops) /\ Relay!Receive(m0) \in Seq(Ops)
      /\ \A i \in 1..s : Relay!Receive(m0)[i] = S[i]
      /\ Relay!Relayed(m0) => r = s + 1 /\ Relay!Receive(m0)[s + 1] = Draft(m0)
      /\ ~Relay!Relayed(m0) => r = s
  BY <1>2, ReceiveShape
<1>4. k \in Nat /\ l \in Nat /\ s \in Nat /\ r \in Nat
  BY <1>3 DEF RelayType
<1>5. ~Owed
  BY <1>1, <1>2 DEF Owed
<1>6. f[m0] = k /\ f[m0 + 1] = k + r
  BY <1>2, <1>5 DEF Aligned
<1>7. \A i \in 1..r : recvs[k + i] = Relay!Receive(m0)[i]
  <2>1. \A i \in 1..r : recvs[f[m0] + i] = Relay!Receive(m0)[i]
    BY <1>2 DEF Aligned
  <2> QED
    BY <2>1, <1>6
<1>8. \A i \in 1..k : sends[i] = recvs[i]
  BY DEF Aligned
<1>9. sends \in Seq(Ops)
  BY DEF RelayType
<1>10. Len(sends') = k + s /\ \A i \in 1..k : sends'[i] = sends[i]
  BY <1>1, <1>3, <1>9, ConcatItems
<1>11. \A i \in 1..s : \A j : j = k + i => sends'[j] = S[i]
  BY <1>1, <1>3, <1>9, ConcatRest
<1> HIDE DEF k, l, s, r, S
<1>12. \A i \in 1..(k + s) : sends'[i] = recvs[i]
  <2> TAKE i \in 1..(k + s)
  <2>1. CASE i \in 1..k
    BY <2>1, <1>8, <1>10
  <2>2. CASE ~(i \in 1..k)
    <3> DEFINE j == i - k
    <3>1. j \in 1..s /\ j \in 1..r /\ i = k + j
      BY <2>2, <1>3, <1>4
    <3> HIDE DEF j
    <3>2. sends'[i] = S[j]
      BY <3>1, <1>11
    <3>3. recvs[i] = Relay!Receive(m0)[j]
      BY <3>1, <1>7
    <3> QED
      BY <3>1, <3>2, <3>3, <1>3
  <2> QED
    BY <2>1, <2>2
<1>13. Owed' <=> Relay!Relayed(m0)
  <2>1. proposed' < last'
    BY <1>1, <1>2
  <2> QED
    BY <2>1, <1>1 DEF Owed, Relay!Relayed, Relay!Needed
<1>14. Draft(last)' = Draft(m0)
  BY <1>1 DEF Draft, Relay!Rows, Relay!Cardinality, Cardinality
<1>15. Relay!Relayed(m0) => f[m0 + 1] = k + s + 1 /\ recvs[k + s + 1] = Draft(m0)
  <2> SUFFICES ASSUME Relay!Relayed(m0)
               PROVE  f[m0 + 1] = k + s + 1 /\ recvs[k + s + 1] = Draft(m0)
    OBVIOUS
  <2>1. r = s + 1 /\ Relay!Receive(m0)[s + 1] = Draft(m0)
    BY <1>3
  <2>2. s + 1 \in 1..r /\ k + (s + 1) = k + s + 1 /\ k + r = k + s + 1
    BY <2>1, <1>4
  <2>3. recvs[k + (s + 1)] = Relay!Receive(m0)[s + 1]
    BY <2>2, <1>7
  <2> QED
    BY <2>1, <2>2, <2>3, <1>6
<1>16. ~Relay!Relayed(m0) => f[m0 + 1] = k + s
  BY <1>3, <1>6
<1>17. /\ Owed' => f[last' + 1] = Len(sends') + 1 /\ recvs'[Len(sends') + 1] = Draft(last)'
       /\ ~Owed' => f[last' + 1] = Len(sends')
       /\ \A i \in 1..Len(sends') : sends'[i] = recvs'[i]
  BY <1>1, <1>10, <1>12, <1>13, <1>14, <1>15, <1>16
<1>18. /\ \A m \in (last' + 1)..(other' + 1) : m \in (last + 1)..(other + 1)
       /\ \A m \in (last' + 1)..other' : m \in (last + 1)..other
  BY <1>1, <1>2
<1>19. f[other' + 1] = Len(recvs')
  BY <1>1 DEF Aligned
<1>20. \A m \in (last' + 1)..(other' + 1) :
         \A n \in (last' + 1)..(other' + 1) : m <= n => f[m] <= f[n]
  BY <1>18 DEF Aligned
<1>21. \A m : Relay!Receive(m)' = Relay!Receive(m)
  BY <1>1 DEF Relay!Receive, Relay!Needed, Relay!Rows, Relay!Cardinality, Cardinality
<1>22. \A m \in (last' + 1)..other' : f[m + 1] = f[m] + Len(Relay!Receive(m)')
  <2>1. \A m \in (last + 1)..other : f[m + 1] = f[m] + Len(Relay!Receive(m))
    BY DEF Aligned
  <2> QED
    BY <2>1, <1>18, <1>21
<1>23. \A m \in (last' + 1)..other' : \A i \in 1..Len(Relay!Receive(m)') :
         recvs'[f[m] + i] = Relay!Receive(m)'[i]
  <2>1. \A m \in (last + 1)..other : \A i \in 1..Len(Relay!Receive(m)) :
          recvs[f[m] + i] = Relay!Receive(m)[i]
    BY DEF Aligned
  <2> QED
    BY <2>1, <1>1, <1>18, <1>21
<1> QED
  BY <1>17, <1>19, <1>20, <1>22, <1>23 DEF Aligned

LEMMA ProposeAligns ==
  ASSUME RelayConstants, RelayType, RelayProgress, NEW f \in [Nat -> Int], Aligned(f), Relay!Propose
  PROVE  Aligned(f)'
<1> DEFINE k == Len(sends)
           d == Draft(last)
<1>1. UNCHANGED <<plan, other, last, recvs>> /\ proposed < last /\ proposed' = last
  BY DEF Relay!Propose
<1>2. sends' = IF Owed THEN Append(sends, d) ELSE sends
  BY DEF Relay!Propose, Owed, Draft
<1>3. last \in Nat /\ last \in 1..Len(plan)
  BY <1>1 DEF RelayType, RelayProgress
<1>4. sends \in Seq(Ops) /\ d \in Ops /\ k \in Nat
  BY <1>3, OpsTyped DEF RelayType
<1>5. ~Owed'
  BY <1>1, <1>3 DEF Owed
<1>6. /\ \A i \in 1..k : sends[i] = recvs[i]
      /\ Owed => f[last + 1] = k + 1 /\ recvs[k + 1] = d
      /\ ~Owed => f[last + 1] = k
  BY DEF Aligned
<1>7. \A m : Relay!Receive(m)' = Relay!Receive(m)
  BY <1>1 DEF Relay!Receive, Relay!Needed, Relay!Rows, Relay!Cardinality, Cardinality
<1> HIDE DEF k, d
<1>8. /\ \A i \in 1..Len(sends') : sends'[i] = recvs[i]
      /\ f[last + 1] = Len(sends')
  <2>1. CASE Owed
    <3>1. /\ sends' = Append(sends, d) /\ Len(sends') = k + 1
          /\ sends'[k + 1] = d /\ \A i \in 1..k : sends'[i] = sends[i]
      BY <2>1, <1>2, <1>4 DEF k
    <3>2. \A i \in 1..(k + 1) : i \in 1..k \/ i = k + 1
      BY <1>4
    <3> QED
      BY <2>1, <3>1, <3>2, <1>6
  <2>2. CASE ~Owed
    BY <2>2, <1>2, <1>6 DEF k
  <2> QED
    BY <2>1, <2>2
<1>9. /\ ~Owed' => f[last' + 1] = Len(sends')
      /\ Owed' => f[last' + 1] = Len(sends') + 1 /\ recvs'[Len(sends') + 1] = Draft(last)'
      /\ \A i \in 1..Len(sends') : sends'[i] = recvs'[i]
  BY <1>1, <1>5, <1>8
<1>10. f[other' + 1] = Len(recvs')
  BY <1>1 DEF Aligned
<1>11. \A m \in (last' + 1)..(other' + 1) :
         \A n \in (last' + 1)..(other' + 1) : m <= n => f[m] <= f[n]
  BY <1>1 DEF Aligned
<1>12. \A m \in (last' + 1)..other' : f[m + 1] = f[m] + Len(Relay!Receive(m)')
  BY <1>1, <1>7 DEF Aligned
<1>13. \A m \in (last' + 1)..other' : \A i \in 1..Len(Relay!Receive(m)') :
         recvs'[f[m] + i] = Relay!Receive(m)'[i]
  BY <1>1, <1>7 DEF Aligned
<1> QED
  BY <1>9, <1>10, <1>11, <1>12, <1>13 DEF Aligned

\* The streams align in every reachable state, however far one rank is ahead.
THEOREM StreamInvariance ==
  ASSUME RelayConstants
  PROVE  Relay!Spec => []StreamsAlign
<1>1. Relay!Init => StreamsAlign
  <2> SUFFICES ASSUME Relay!Init PROVE StreamsAlign
    OBVIOUS
  <2> DEFINE h == [n \in Nat |-> 0]
  <2>1. h \in [Nat -> Int] /\ h[1] = 0 /\ 0 + 1 = 1
    OBVIOUS
  <2>2. /\ other = 0 /\ last = 0 /\ proposed = 0 /\ ~(0 < 0)
        /\ sends = <<>> /\ recvs = <<>> /\ Len(<<>>) = 0
    BY DEF Relay!Init
  <2>3. ~Owed
    BY <2>2 DEF Owed
  <2>4. (last + 1)..(other + 1) = {1} /\ (last + 1)..other = {} /\ 1..Len(sends) = {}
    BY <2>2
  <2> HIDE DEF h
  <2>5. Aligned(h)
    BY <2>1, <2>2, <2>3, <2>4 DEF Aligned
  <2> QED
    BY <2>1, <2>5 DEF StreamsAlign
<1>2. RelayType /\ RelayProgress /\ StreamsAlign /\ [Relay!Next]_Relay!vars => StreamsAlign'
  <2> SUFFICES ASSUME RelayType, RelayProgress, StreamsAlign, [Relay!Next]_Relay!vars
               PROVE  StreamsAlign'
    OBVIOUS
  <2>1. PICK f \in [Nat -> Int] : Aligned(f)
    BY DEF StreamsAlign
  <2>2. ASSUME NEW reqs \in (SUBSET Slots) \ {{}}, NEW need \in SUBSET reqs,
               Relay!Schedule(reqs, need)
        PROVE  StreamsAlign'
    BY <2>1, <2>2, ScheduleAligns DEF StreamsAlign
  <2>3. CASE UNCHANGED <<plan, other, last, proposed, sends, recvs>>
    <3>1. (Owed' <=> Owed) /\ Draft(last)' = Draft(last)
      BY <2>3 DEF Owed, Relay!Relayed, Relay!Needed, Draft, Relay!Rows, Relay!Cardinality, Cardinality
    <3>2. \A m : Relay!Receive(m)' = Relay!Receive(m)
      BY <2>3 DEF Relay!Receive, Relay!Needed, Relay!Rows, Relay!Cardinality, Cardinality
    <3>3. Aligned(f)'
      BY <2>1, <2>3, <3>1, <3>2 DEF Aligned
    <3> QED
      BY <3>3 DEF StreamsAlign
  <2>4. ASSUME NEW s \in Slots, Relay!Abort(s)
        PROVE  UNCHANGED <<plan, other, last, proposed, sends, recvs>>
    BY <2>4 DEF Relay!Abort
  <2>5. CASE Relay!RunOther
    BY <2>1, <2>5, RunOtherAligns
  <2>6. CASE Relay!RunLast
    BY <2>1, <2>6, RunLastAligns DEF StreamsAlign
  <2>7. CASE Relay!Propose
    BY <2>1, <2>7, ProposeAligns DEF StreamsAlign
  <2>8. CASE Relay!Match
    BY <2>1, <2>8, MatchAligns
  <2>9. UNCHANGED Relay!vars => UNCHANGED <<plan, other, last, proposed, sends, recvs>>
    BY DEF Relay!vars
  <2> QED
    BY <2>2, <2>3, <2>4, <2>5, <2>6, <2>7, <2>8, <2>9 DEF Relay!Next
<1> QED
  BY <1>1, <1>2, RelayInvariance, PTL DEF Relay!Spec

LEMMA MinOfTwo ==
  ASSUME NEW a \in Int, NEW b \in Int
  PROVE  Relay!Min({a, b}) \in Int /\ Relay!Min({a, b}) <= a /\ Relay!Min({a, b}) <= b
<1>1. \E x \in {a, b} : \A y \in {a, b} : x <= y
  <2>1. a <= a /\ b <= b /\ (a <= b \/ b <= a)
    OBVIOUS
  <2> QED
    BY <2>1
<1> QED
  BY <1>1 DEF Relay!Min

\* NCCL never pairs two different broadcasts: each has the kind, the step and the
\* size of the one the other rank posted, and neither rank hangs (0003, 0004).
THEOREM StreamsPair ==
  ASSUME RelayConstants
  PROVE  Relay!Spec => []Relay!BroadcastsPair
<1>1. RelayType /\ StreamsAlign => Relay!BroadcastsPair
  <2> SUFFICES ASSUME RelayType, StreamsAlign,
                      NEW i \in 1..Relay!Min({Len(sends), Len(recvs)})
               PROVE  sends[i] = recvs[i]
    BY DEF Relay!BroadcastsPair
  <2> DEFINE k == Len(sends)
             l == Len(recvs)
             n == Relay!Min({k, l})
  <2>1. k \in Int /\ l \in Int
    BY DEF RelayType
  <2> HIDE DEF k, l
  <2>2. n \in Int /\ n <= k
    BY <2>1, MinOfTwo
  <2>3. i \in 1..n
    BY DEF k, l
  <2> HIDE DEF n
  <2>4. i \in 1..k
    BY <2>1, <2>2, <2>3
  <2> QED
    BY <2>4 DEF StreamsAlign, Aligned, k
<1> QED
  BY <1>1, RelayInvariance, StreamInvariance, PTL

-------------------------------------------------------------------------------
(* Whose drafts the relay brings. *)

\* Only members of a batch are sampled; a request is in batches one at a time.
PlanShape ==
  /\ \A m \in 1..Len(plan) : plan[m].need \subseteq plan[m].reqs
  /\ \A m \in 1..Len(plan) : \A s \in Slots : plan[m].prev[s] < m
  /\ \A s \in Slots : latest[s] <= Len(plan)

\* A batch that is scheduled and not run is the latest of its requests, whose
\* outputs of before are due.
PendingIsDue ==
  Len(plan) = other + 1 =>
    \A s \in plan[other + 1].reqs :
      /\ latest[s] = other + 1
      /\ plan[other + 1].prev[s] # Relay!None => plan[other + 1].prev[s] + Depth <= other + 1

\* The latest batch of s that the other rank has run.
Latest(s) ==
  IF Len(plan) = other + 1 /\ s \in plan[other + 1].reqs
  THEN plan[other + 1].prev[s] ELSE latest[s]

\* The batches whose outputs it has taken.
Seen == other - Len(queue)

\* The queue has an entry for each of the latest Depth batches.
QueueTiles ==
  /\ other <= Depth => Len(queue) = other
  /\ other > Depth => Len(queue) = Depth
  /\ \A k \in (Seen + 1)..other :
       /\ Relay!Needed(k) => queue[k - Seen].step = k /\ queue[k - Seen].need = plan[k].need
       /\ ~Relay!Needed(k) => queue[k - Seen].step = Relay!None

\* The drafts of the latest batch of s that has sampled it are in its row, or the
\* queue still holds the receipt, made out for the request that is in the row.
Fresh(s, n) ==
  /\ n \in 1..other /\ s \in plan[n].reqs
  /\ \A k \in (n + 1)..other : s \notin plan[k].reqs
  /\ s \in plan[n].need /\ n <= Seen => drafts[s] = n
  /\ s \in plan[n].need /\ n > Seen => queue[n - Seen].gen[s] = gen[s]

AllFresh == \A s \in Slots : Latest(s) # Relay!None => Fresh(s, Latest(s))

\* Nothing is verified before the first batch.
UsedStarts == DOMAIN used \subseteq Slots /\ (other = 0 => DOMAIN used = {})

DraftInv == PlanShape /\ PendingIsDue /\ QueueTiles /\ AllFresh /\ UsedStarts
              /\ Relay!VerifiesRelayedDrafts

\* What RunOther leaves in the rows of the drafts.
Received ==
  IF Len(queue) = Depth /\ Head(queue).step # Relay!None
  THEN Relay!Scatter(drafts, Relay!IdxMapping(Head(queue)), Head(queue).step) ELSE drafts

\* The oldest receipt writes the rows of its own batch only, and those of all its
\* requests that were sampled and are still there.
LEMMA HeadScatters ==
  ASSUME RelayConstants, RelayType, RelayProgress, PlanShape, QueueTiles,
         Len(queue) = Depth, NEW s \in Slots
  PROVE  /\ Seen \in Nat /\ Seen + 1 \in 1..other
         /\ s \notin plan[Seen + 1].reqs => Received[s] = drafts[s]
         /\ s \in plan[Seen + 1].need /\ queue[1].gen[s] = gen[s] => Received[s] = Seen + 1
<1> DEFINE k == Seen + 1
           p == Head(queue)
           M == Relay!IdxMapping(p)
<1>1. /\ other \in Nat /\ Len(queue) \in Nat /\ Depth \in Nat /\ Depth >= 1
      /\ other <= Len(plan) /\ Len(plan) \in Nat
  BY DEF RelayType, RelayConstants, RelayProgress
<1>2. Len(queue) <= other
  BY <1>1 DEF QueueTiles
<1>3. Seen \in Nat /\ k \in 1..other /\ k \in (Seen + 1)..other /\ k - Seen = 1
  BY <1>1, <1>2 DEF Seen
<1>4. p = queue[1]
  BY <1>1 DEF RelayType
<1>5. /\ Relay!Needed(k) => p.step = k /\ p.need = plan[k].need
      /\ ~Relay!Needed(k) => p.step = Relay!None
  BY <1>3, <1>4 DEF QueueTiles
<1>6. k \in 1..Len(plan) /\ k \in Nat /\ k # Relay!None
  BY <1>1, <1>3 DEF Relay!None
<1>7. plan[k].need \subseteq plan[k].reqs /\ plan[k].reqs \subseteq Slots
  <2>1. plan[k] \in Batches
    BY <1>6 DEF RelayType
  <2> QED
    BY <2>1, <1>6 DEF PlanShape, Batches
<1>8. s \in Nat /\ drafts \in [Slots -> Nat]
  BY DEF RelayConstants, RelayType
<1> HIDE DEF k, p
<1>9. CASE ~Relay!Needed(k)
  <2>1. Received = drafts
    BY <1>5, <1>9 DEF Received, p
  <2>2. plan[k].need = {}
    BY <1>9 DEF Relay!Needed
  <2> QED
    BY <2>1, <2>2, <1>3 DEF k
<1>10. CASE Relay!Needed(k)
  <2>1. p.step = k /\ p.need = plan[k].need /\ Received = Relay!Scatter(drafts, M, k)
    BY <1>5, <1>6, <1>10 DEF Received, p
  <2>2. M = [r \in plan[k].reqs |-> IF r \in plan[k].need /\ gen[r] = p.gen[r] THEN r ELSE -1]
    BY <2>1 DEF Relay!IdxMapping
  <2>3. DOMAIN M = plan[k].reqs
        /\ \A r \in plan[k].reqs :
             M[r] = IF r \in plan[k].need /\ gen[r] = p.gen[r] THEN r ELSE -1
    BY <2>2
  <2> HIDE DEF M
  <2>4. Received[s] = IF \E r \in DOMAIN M : M[r] >= 0 /\ M[r] = s THEN k ELSE drafts[s]
    BY <2>1 DEF Relay!Scatter
  <2>5. ASSUME s \notin plan[k].reqs PROVE Received[s] = drafts[s]
    <3>1. ~ \E r \in DOMAIN M : M[r] >= 0 /\ M[r] = s
      <4> SUFFICES ASSUME NEW r \in plan[k].reqs, M[r] >= 0, M[r] = s PROVE FALSE
        BY <2>3
      <4>1. M[r] = r \/ M[r] = -1
        BY <2>3
      <4> QED
        BY <4>1, <2>5, <1>8
    <3> QED
      BY <3>1, <2>4
  <2>6. ASSUME s \in plan[k].need, p.gen[s] = gen[s] PROVE Received[s] = k
    <3>1. s \in DOMAIN M /\ M[s] = s /\ M[s] >= 0
      BY <2>3, <2>6, <1>7, <1>8
    <3> QED
      BY <3>1, <2>4
  <2> QED
    BY <2>5, <2>6, <1>3, <1>4 DEF k
<1> QED
  BY <1>9, <1>10

\* A request's row holds the drafts of its latest batch, if that has sampled it and
\* its outputs are due: those the oldest receipt brings, or those of before.
LEMMA DueIsReceived ==
  ASSUME RelayConstants, RelayType, RelayProgress, PlanShape, QueueTiles,
         NEW s \in Slots, NEW n \in Nat, Fresh(s, n), s \in plan[n].need,
         n + Depth <= other + 1
  PROVE  Len(queue) = Depth /\ n <= Seen + 1 /\ Received[s] = n
<1>1. /\ other \in Nat /\ Len(queue) \in Nat /\ Depth \in Nat /\ Depth >= 1 /\ n \in 1..other
  BY DEF RelayType, RelayConstants, Fresh
<1>2. Len(queue) = Depth /\ n <= Seen + 1
  BY <1>1 DEF QueueTiles, Seen
<1>3. /\ Seen \in Nat /\ Seen + 1 \in 1..other
      /\ s \notin plan[Seen + 1].reqs => Received[s] = drafts[s]
      /\ s \in plan[Seen + 1].need /\ queue[1].gen[s] = gen[s] => Received[s] = Seen + 1
  BY <1>2, HeadScatters
<1>4. CASE n = Seen + 1
  <2>1. n > Seen /\ n - Seen = 1
    BY <1>1, <1>3, <1>4
  <2>2. queue[1].gen[s] = gen[s]
    BY <2>1 DEF Fresh
  <2> QED
    BY <2>2, <1>2, <1>3, <1>4
<1>5. CASE n <= Seen
  <2>1. Seen + 1 \in (n + 1)..other
    BY <1>1, <1>3, <1>5
  <2>2. s \notin plan[Seen + 1].reqs /\ drafts[s] = n
    BY <2>1, <1>5 DEF Fresh
  <2> QED
    BY <2>2, <1>2, <1>3
<1> QED
  BY <1>1, <1>2, <1>3, <1>4, <1>5

\* A step of the other rank takes the oldest receipt, when there are Depth, and adds
\* its own.
LEMMA QueueMoves ==
  ASSUME RelayConstants, RelayType, RelayProgress, QueueTiles, Relay!RunOther,
         NEW m \in Nat, m = other + 1
  PROVE  /\ Seen \in Nat /\ Seen' \in Nat /\ Seen <= Seen' /\ Seen' <= other
         /\ Len(queue) = Depth => Seen' = Seen + 1
         /\ Len(queue) # Depth => Seen' = Seen
         /\ \A k \in (Seen' + 1)..other : k - Seen' \in Nat /\ queue'[k - Seen'] = queue[k - Seen]
         /\ queue'[m - Seen'] =
              IF Relay!Needed(m) THEN [step |-> m, need |-> plan[m].need, gen |-> gen] ELSE Relay!NoRecv
         /\ m <= Depth => Len(queue') = m
         /\ m > Depth => Len(queue') = Depth
<1> DEFINE l == Len(queue)
           q == IF l = Depth THEN Tail(queue) ELSE queue
           e == IF Relay!Needed(m) THEN [step |-> m, need |-> plan[m].need, gen |-> gen] ELSE Relay!NoRecv
<1>1. other' = m /\ m <= Len(plan) /\ queue' = Append(q, e) /\ other \in Nat
  BY DEF Relay!RunOther, RelayType
<1>2. /\ Depth \in Nat /\ Depth >= 1 /\ l \in Nat /\ queue \in Seq(Receipts)
      /\ m \in Nat /\ plan[m] \in Batches
  BY <1>1 DEF RelayType, RelayConstants
<1>3. e \in Receipts
  BY <1>2 DEF Receipts, Relay!NoRecv, Relay!None, Batches, RelayType
<1>4. (other <= Depth => l = other) /\ (other > Depth => l = Depth)
  BY DEF QueueTiles
<1>5. Seen = other - l /\ Seen' = m - Len(queue')
  BY <1>1 DEF Seen
<1> HIDE DEF e
<1>6. CASE l = Depth
  <2>1. /\ q \in Seq(Receipts) /\ Len(q) = l - 1
        /\ \A i \in 1..(l - 1) : q[i] = queue[i + 1]
    BY <1>2, <1>6
  <2> HIDE DEF q, l
  <2>2. /\ Len(queue') = l /\ queue'[l] = e
        /\ \A i \in 1..(l - 1) : queue'[i] = q[i]
    BY <2>1, <1>1, <1>2, <1>3
  <2>3. /\ Seen \in Nat /\ Seen' = Seen + 1 /\ Seen' <= other /\ m - Seen' = l
    BY <2>2, <1>1, <1>2, <1>4, <1>5, <1>6
  <2>4. ASSUME NEW k \in (Seen' + 1)..other
        PROVE  k - Seen' \in Nat /\ queue'[k - Seen'] = queue[k - Seen]
    <3> DEFINE i == k - Seen'
    <3>1. i \in 1..(l - 1) /\ i + 1 = k - Seen /\ i \in Nat
      BY <2>3, <1>1, <1>2, <1>5
    <3> HIDE DEF i
    <3>2. queue'[i] = queue[k - Seen]
      BY <2>1, <2>2, <3>1
    <3> QED
      BY <3>1, <3>2 DEF i
  <2>5. queue'[m - Seen'] = e
    BY <2>2, <2>3
  <2>6. (m <= Depth => Len(queue') = m) /\ (m > Depth => Len(queue') = Depth)
    BY <2>2, <1>1, <1>2, <1>4, <1>6
  <2>7. (Len(queue) = Depth => Seen' = Seen + 1) /\ (Len(queue) # Depth => Seen' = Seen)
    BY <2>3, <1>6 DEF l
  <2>8. Seen <= Seen'
    BY <2>3
  <2> QED
    BY <2>3, <2>4, <2>5, <2>6, <2>7, <2>8 DEF e
<1>7. CASE l # Depth
  <2>1. l = other /\ l < Depth
    BY <1>1, <1>2, <1>4, <1>7
  <2>2. queue' = Append(queue, e)
    BY <1>1, <1>7
  <2> HIDE DEF q
  <2>3. /\ Len(queue') = l + 1 /\ queue'[l + 1] = e
        /\ \A i \in 1..l : queue'[i] = queue[i]
    BY <2>2, <1>2, <1>3
  <2> HIDE DEF l
  <2>4. Seen = 0 /\ Seen' = 0 /\ m - Seen' = l + 1
    BY <2>1, <2>3, <1>1, <1>2, <1>5
  <2>5. \A k \in (Seen' + 1)..other : k - Seen' \in Nat /\ queue'[k - Seen'] = queue[k - Seen]
    BY <2>1, <2>3, <2>4, <1>2
  <2> QED
    BY <2>1, <2>3, <2>4, <2>5, <1>1, <1>2, <1>7 DEF e, l
<1> QED
  BY <1>6, <1>7

LEMMA RunOtherDrafts ==
  ASSUME RelayConstants, RelayType, RelayProgress, DraftInv, Relay!RunOther,
         NEW m \in Nat, m = other + 1
  PROVE  DraftInv'
<1> DEFINE e == IF Relay!Needed(m) THEN [step |-> m, need |-> plan[m].need, gen |-> gen] ELSE Relay!NoRecv
<1>1. /\ UNCHANGED <<plan, gen, latest, last>> /\ other' = m /\ m <= Len(plan)
      /\ drafts' = Received /\ used' = [s \in plan[m].reqs |-> Received[s]]
  BY DEF Relay!RunOther, Received
<1>2. /\ other \in Nat /\ Depth \in Nat /\ Depth >= 1 /\ Len(plan) \in Nat
      /\ m \in 1..Len(plan) /\ Len(plan) = m /\ m \in Nat
      /\ latest \in [Slots -> Nat]
  BY <1>1 DEF RelayType, RelayConstants, RelayProgress
<1>3. plan[m] \in Batches
  BY <1>2 DEF RelayType
<1>4. plan[m].reqs \subseteq Slots /\ plan[m].need \subseteq plan[m].reqs
      /\ plan[m].prev \in [Slots -> Nat]
  BY <1>2, <1>3 DEF Batches, DraftInv, PlanShape
<1>5. Seen \in Nat /\ Seen' \in Nat /\ Seen <= Seen' /\ Seen' <= other
  BY QueueMoves DEF DraftInv
<1>18. (Len(queue) = Depth => Seen' = Seen + 1) /\ (Len(queue) # Depth => Seen' = Seen)
  BY QueueMoves DEF DraftInv
<1>19. \A k \in (Seen' + 1)..other :
         k - Seen' \in Nat /\ queue'[k - Seen'] = queue[k - Seen]
  BY QueueMoves DEF DraftInv
<1>20. queue'[m - Seen'] = e
  BY QueueMoves DEF DraftInv
<1>21. (m <= Depth => Len(queue') = m) /\ (m > Depth => Len(queue') = Depth)
  BY QueueMoves DEF DraftInv
<1>6. (Relay!Needed(m) => e.step = m /\ e.need = plan[m].need /\ e.gen = gen)
      /\ (~Relay!Needed(m) => e.step = Relay!None)
  BY DEF Relay!NoRecv
<1> HIDE DEF e
<1>7. PlanShape' /\ UsedStarts'
  BY <1>1, <1>2, <1>4 DEF DraftInv, PlanShape, UsedStarts
<1>8. Len(plan') # other' + 1
  BY <1>1, <1>2
<1>9. PendingIsDue'
  BY <1>8 DEF PendingIsDue
<1>10. QueueTiles'
  <2>1. (other' <= Depth => Len(queue') = other') /\ (other' > Depth => Len(queue') = Depth)
    BY <1>1, <1>21
  <2>2. \A k \in (Seen' + 1)..other' : k = m \/ (k \in (Seen' + 1)..other /\ k \in (Seen + 1)..other)
    <3> DEFINE x == Seen
               y == Seen'
    <3>1. other' = other + 1 /\ m = other + 1 /\ other \in Nat
      BY <1>1, <1>2
    <3>2. x \in Nat /\ y \in Nat /\ x <= y
      BY <1>5
    <3> HIDE DEF x, y
    <3>3. \A k \in (y + 1)..(other + 1) :
            k = other + 1 \/ (k \in (y + 1)..other /\ k \in (x + 1)..other)
      BY <3>1, <3>2
    <3> QED
      BY <3>1, <3>3 DEF x, y
  <2>3. ASSUME NEW k \in (Seen' + 1)..other'
        PROVE  /\ Relay!Needed(k) => queue'[k - Seen'].step = k /\ queue'[k - Seen'].need = plan[k].need
               /\ ~Relay!Needed(k) => queue'[k - Seen'].step = Relay!None
    <3>1. CASE k = m
      BY <3>1, <1>20, <1>6
    <3>2. CASE k \in (Seen' + 1)..other /\ k \in (Seen + 1)..other
      <4>1. queue'[k - Seen'] = queue[k - Seen]
        BY <3>2, <1>19
      <4>2. /\ Relay!Needed(k) => queue[k - Seen].step = k /\ queue[k - Seen].need = plan[k].need
            /\ ~Relay!Needed(k) => queue[k - Seen].step = Relay!None
        BY <3>2 DEF DraftInv, QueueTiles
      <4> QED
        BY <4>1, <4>2
    <3> QED
      BY <3>1, <3>2, <2>2
  <2> QED
    BY <2>1, <2>3, <1>1 DEF QueueTiles, Relay!Needed
<1>11. \A s \in Slots : Latest(s)' = latest[s]
  BY <1>1, <1>8 DEF Latest
<1>12. \A s \in plan[m].reqs :
         /\ latest[s] = m /\ Latest(s) = plan[m].prev[s]
         /\ plan[m].prev[s] # Relay!None => plan[m].prev[s] + Depth <= m
  BY <1>2 DEF DraftInv, PendingIsDue, Latest
<1>13. \A s \in Slots : s \notin plan[m].reqs => Latest(s) = latest[s]
  BY DEF Latest
<1>14. ASSUME NEW s \in Slots, NEW n \in Nat, Fresh(s, n), s \notin plan[m].reqs
       PROVE  Fresh(s, n)'
  <2>1. n \in 1..other /\ s \in plan[n].reqs /\ \A k \in (n + 1)..other : s \notin plan[k].reqs
    BY <1>14 DEF Fresh
  <2>2. n \in 1..other' /\ s \in plan'[n].reqs
    BY <2>1, <1>1, <1>2
  <2>3. \A k \in (n + 1)..other' : s \notin plan'[k].reqs
    <3>1. \A k \in (n + 1)..other' : k = m \/ k \in (n + 1)..other
      BY <1>1, <1>2
    <3> QED
      BY <3>1, <2>1, <1>1, <1>14
  <2>4. ASSUME s \in plan[n].need, n <= Seen' PROVE drafts'[s] = n
    <3>1. CASE n <= Seen
      <4>1. drafts[s] = n
        BY <1>14, <2>4, <3>1 DEF Fresh
      <4>2. CASE Len(queue) = Depth
        <5>1. Seen + 1 \in (n + 1)..other
          BY <4>2, <3>1, <1>2, <1>5, <1>18
        <5>2. s \notin plan[Seen + 1].reqs
          BY <5>1, <2>1
        <5>3. Received[s] = drafts[s]
          BY <5>2, <4>2, HeadScatters DEF DraftInv
        <5> QED
          BY <4>1, <5>3, <1>1
      <4>3. CASE Len(queue) # Depth
        BY <4>1, <4>3, <1>1 DEF Received
      <4> QED
        BY <4>2, <4>3
    <3>2. CASE ~(n <= Seen)
      <4>1. Len(queue) = Depth /\ n = Seen + 1 /\ n > Seen /\ n - Seen = 1
        BY <2>4, <3>2, <1>5, <1>18
      <4>2. queue[1].gen[s] = gen[s]
        BY <4>1, <1>14, <2>4 DEF Fresh
      <4>3. Received[s] = Seen + 1
        BY <4>1, <4>2, <2>4, HeadScatters DEF DraftInv
      <4> QED
        BY <4>1, <4>3, <1>1
    <3> QED
      BY <3>1, <3>2
  <2>5. ASSUME s \in plan[n].need, n > Seen' PROVE queue'[n - Seen'].gen[s] = gen'[s]
    <3>1. n \in (Seen' + 1)..other /\ n > Seen
      <4> DEFINE x == Seen
                 y == Seen'
      <4>1. x \in Nat /\ y \in Nat /\ x <= y /\ n > y
        BY <1>5, <2>5
      <4>2. n \in 1..other /\ other \in Nat
        BY <2>1, <1>2
      <4> HIDE DEF x, y
      <4>3. n \in (y + 1)..other /\ n > x
        BY <4>1, <4>2
      <4> QED
        BY <4>3 DEF x, y
    <3>2. queue'[n - Seen'] = queue[n - Seen]
      BY <3>1, <1>19
    <3>3. queue[n - Seen].gen[s] = gen[s]
      BY <3>1, <2>5, <1>14 DEF Fresh
    <3> QED
      BY <3>2, <3>3, <1>1
  <2> QED
    BY <2>2, <2>3, <2>4, <2>5, <1>1 DEF Fresh
<1>15. ASSUME NEW s \in plan[m].reqs PROVE Fresh(s, m)'
  <2>1. m \in 1..other' /\ s \in plan'[m].reqs /\ (m + 1)..other' = {} /\ ~(m <= Seen')
    BY <1>1, <1>2, <1>5
  <2>2. s \in plan[m].need => queue'[m - Seen'].gen[s] = gen'[s]
    BY <1>1, <1>20, <1>6 DEF Relay!Needed
  <2> QED
    BY <2>1, <2>2, <1>1 DEF Fresh
<1>16. AllFresh'
  <2> SUFFICES ASSUME NEW s \in Slots, latest[s] # Relay!None PROVE Fresh(s, latest[s])'
    BY <1>1, <1>11 DEF AllFresh
  <2>1. PICK n \in Nat : n = latest[s]
    BY <1>2
  <2>2. Fresh(s, n)'
    <3>1. CASE s \in plan[m].reqs
      BY <3>1, <2>1, <1>12, <1>15
    <3>2. CASE s \notin plan[m].reqs
      <4>1. Fresh(s, n)
        BY <3>2, <2>1, <1>13 DEF DraftInv, AllFresh
      <4> QED
        BY <4>1, <3>2, <1>14
    <3> QED
      BY <3>1, <3>2
  <2> QED
    BY <2>1, <2>2, <1>1 DEF Fresh
<1>17. Relay!VerifiesRelayedDrafts'
  <2> SUFFICES ASSUME NEW s \in plan[m].reqs, plan[m].prev[s] # Relay!None,
                      s \in plan[plan[m].prev[s]].need
               PROVE  Received[s] = plan[m].prev[s]
    BY <1>1 DEF Relay!VerifiesRelayedDrafts
  <2>1. PICK n \in Nat : n = plan[m].prev[s]
    BY <1>4
  <2>2. s \in Slots /\ Fresh(s, n)
    BY <2>1, <1>4, <1>12 DEF DraftInv, AllFresh
  <2>3. n + Depth <= other + 1
    BY <2>1, <1>12
  <2> QED
    BY <2>1, <2>2, <2>3, DueIsReceived DEF DraftInv
<1> QED
  BY <1>7, <1>9, <1>10, <1>16, <1>17 DEF DraftInv

LEMMA ScheduleDrafts ==
  ASSUME RelayConstants, RelayType, RelayProgress, DraftInv,
         NEW reqs \in SUBSET Slots, NEW need \in SUBSET reqs, Relay!Schedule(reqs, need),
         NEW m \in Nat, m = Len(plan) + 1
  PROVE  DraftInv'
<1> DEFINE b == [reqs |-> reqs, need |-> need, prev |-> latest]
<1>1. /\ UNCHANGED <<gen, other, queue, drafts, used>>
      /\ plan' = Append(plan, b) /\ other = Len(plan)
      /\ latest' = [s \in Slots |-> IF s \in reqs THEN m ELSE latest[s]]
      /\ \A s \in reqs : latest[s] = Relay!None \/ latest[s] + Depth <= m
  BY DEF Relay!Schedule, Relay!Eligible
<1>2. /\ plan \in Seq(Batches) /\ b \in Batches /\ latest \in [Slots -> Nat]
      /\ other \in Nat /\ Len(plan) \in Nat /\ m = other + 1 /\ Depth \in Nat
  BY <1>1 DEF RelayType, Batches, RelayConstants
<1>3. /\ Len(plan') = m /\ plan'[m] = b /\ \A k \in 1..other : plan'[k] = plan[k]
      /\ b.reqs = reqs /\ b.need = need /\ b.prev = latest
  BY <1>1, <1>2
<1> HIDE DEF b
<1>4. /\ \A k \in 1..other : plan[k].need \subseteq plan[k].reqs
      /\ \A k \in 1..other : \A s \in Slots : plan[k].prev[s] < k
      /\ \A s \in Slots : latest[s] <= other
  BY <1>1 DEF DraftInv, PlanShape
<1>5. \A k \in 1..m : k = m \/ k \in 1..other
  BY <1>2
<1>6. PlanShape'
  <2>1. ASSUME NEW k \in 1..m
        PROVE  plan'[k].need \subseteq plan'[k].reqs /\ \A s \in Slots : plan'[k].prev[s] < k
    <3>1. CASE k = m
      <4>1. \A s \in Slots : latest[s] < m
        BY <1>2, <1>4
      <4> QED
        BY <3>1, <4>1, <1>3
    <3>2. CASE k \in 1..other
      BY <3>2, <1>3, <1>4
    <3> QED
      BY <3>1, <3>2, <1>5
  <2>2. ASSUME NEW s \in Slots PROVE latest'[s] <= m
    <3>1. latest[s] \in Nat /\ latest[s] <= other
      BY <1>2, <1>4
    <3> QED
      BY <3>1, <1>1, <1>2
  <2> QED
    BY <2>1, <2>2, <1>3 DEF PlanShape
<1>7. PendingIsDue'
  <2>1. Len(plan') = other' + 1 /\ other' + 1 = m
    BY <1>1, <1>2, <1>3
  <2>2. \A s \in reqs : s \in Slots /\ latest'[s] = m
    BY <1>1
  <2> QED
    BY <2>1, <2>2, <1>1, <1>3 DEF PendingIsDue
<1>8. Seen' = Seen /\ Seen \in Nat
  <2>1. Len(queue) \in Nat /\ Len(queue) <= other
    BY <1>2 DEF RelayType, DraftInv, QueueTiles
  <2> QED
    BY <2>1, <1>1, <1>2 DEF Seen
<1>9. \A k \in (Seen + 1)..other : k \in 1..other
  BY <1>2, <1>8
<1>10. QueueTiles'
  <2>1. (other' <= Depth => Len(queue') = other') /\ (other' > Depth => Len(queue') = Depth)
    BY <1>1 DEF DraftInv, QueueTiles
  <2>2. ASSUME NEW k \in (Seen + 1)..other
        PROVE  /\ Relay!Needed(k)' => queue'[k - Seen].step = k /\ queue'[k - Seen].need = plan'[k].need
               /\ ~Relay!Needed(k)' => queue'[k - Seen].step = Relay!None
    <3>1. plan'[k] = plan[k]
      BY <1>3, <1>9
    <3>2. Relay!Needed(k)' <=> Relay!Needed(k)
      BY <3>1 DEF Relay!Needed
    <3> QED
      BY <3>1, <3>2, <1>1 DEF DraftInv, QueueTiles
  <2> QED
    BY <2>1, <2>2, <1>1, <1>8 DEF QueueTiles
<1>11. Len(plan) # other + 1
  BY <1>1, <1>2
<1>12. ASSUME NEW s \in Slots PROVE Latest(s) = latest[s] /\ Latest(s)' = latest[s]
  <2>1. Latest(s) = latest[s]
    BY <1>11 DEF Latest
  <2>2. Len(plan') = other' + 1 /\ plan'[other' + 1].reqs = reqs /\ plan'[other' + 1].prev = latest
    BY <1>1, <1>2, <1>3
  <2>3. Latest(s)' = IF s \in reqs THEN latest[s] ELSE latest'[s]
    BY <2>2 DEF Latest
  <2> QED
    BY <2>1, <2>3, <1>1
<1>13. ASSUME NEW s \in Slots, NEW n \in Nat, Fresh(s, n) PROVE Fresh(s, n)'
  <2>1. n \in 1..other /\ s \in plan[n].reqs /\ \A k \in (n + 1)..other : s \notin plan[k].reqs
    BY <1>13 DEF Fresh
  <2>2. plan'[n] = plan[n]
    BY <2>1, <1>3
  <2>3. \A k \in (n + 1)..other : k \in 1..other
    BY <2>1, <1>2
  <2>4. \A k \in (n + 1)..other : s \notin plan'[k].reqs
    BY <2>1, <2>3, <1>3
  <2>5. s \in plan[n].need /\ n <= Seen => drafts[s] = n
    BY <1>13 DEF Fresh
  <2>6. s \in plan[n].need /\ n > Seen => queue[n - Seen].gen[s] = gen[s]
    BY <1>13 DEF Fresh
  <2> QED
    BY <2>1, <2>2, <2>4, <2>5, <2>6, <1>1, <1>8 DEF Fresh
<1>14. AllFresh'
  <2> SUFFICES ASSUME NEW s \in Slots, Latest(s)' # Relay!None PROVE Fresh(s, Latest(s))'
    BY DEF AllFresh
  <2>1. PICK n \in Nat : n = latest[s]
    BY <1>2
  <2>2. Latest(s) = n /\ Latest(s)' = n /\ n # Relay!None
    BY <2>1, <1>12 DEF Relay!None
  <2>3. Fresh(s, n)
    BY <2>2 DEF DraftInv, AllFresh
  <2>4. Fresh(s, n)'
    BY <2>3, <1>13
  <2> QED
    BY <2>2, <2>4 DEF Fresh
<1>15. UsedStarts'
  BY <1>1 DEF DraftInv, UsedStarts
<1>16. Relay!VerifiesRelayedDrafts'
  <2> SUFFICES ASSUME NEW s \in DOMAIN used, plan'[other].prev[s] # Relay!None,
                      s \in plan'[plan'[other].prev[s]].need
               PROVE  used[s] = plan'[other].prev[s]
    BY <1>1 DEF Relay!VerifiesRelayedDrafts
  <2>1. other \in 1..other
    BY <1>2 DEF DraftInv, UsedStarts
  <2>2. plan'[other] = plan[other]
    BY <2>1, <1>3
  <2>3. s \in Slots /\ plan[other] \in Batches
    BY <2>1, <1>1 DEF DraftInv, UsedStarts, RelayType
  <2>4. PICK n \in Nat : n = plan[other].prev[s]
    BY <2>3 DEF Batches
  <2>5. n < other /\ n # Relay!None
    BY <2>1, <2>2, <2>3, <2>4, <1>4
  <2>6. n \in 1..other
    BY <2>5, <1>2 DEF Relay!None
  <2>7. s \in plan[n].need
    BY <2>2, <2>4, <2>6, <1>3
  <2>8. used[s] = n
    BY <2>4, <2>5, <2>7 DEF DraftInv, Relay!VerifiesRelayedDrafts
  <2> QED
    BY <2>2, <2>4, <2>8
<1> QED
  BY <1>6, <1>7, <1>10, <1>14, <1>15, <1>16 DEF DraftInv

LEMMA AbortDrafts ==
  ASSUME RelayConstants, RelayType, RelayProgress, DraftInv, NEW s0 \in Slots, Relay!Abort(s0)
  PROVE  DraftInv'
<1>1. /\ UNCHANGED <<plan, other, queue, drafts, used>> /\ other = Len(plan)
      /\ gen' = [gen EXCEPT ![s0] = @ + 1] /\ latest' = [latest EXCEPT ![s0] = Relay!None]
  BY DEF Relay!Abort
<1>2. /\ other \in Nat /\ gen \in [Slots -> Nat] /\ latest \in [Slots -> Nat]
      /\ Len(plan) # other + 1
  BY <1>1 DEF RelayType
<1>3. \A s \in Slots : s # s0 => gen'[s] = gen[s] /\ latest'[s] = latest[s]
  BY <1>1, <1>2
<1>4. latest'[s0] = Relay!None
  BY <1>1, <1>2
<1>5. PlanShape'
  <2>1. \A s \in Slots : latest'[s] <= Len(plan)
    BY <1>1, <1>2, <1>3, <1>4 DEF DraftInv, PlanShape, Relay!None
  <2> QED
    BY <2>1, <1>1 DEF DraftInv, PlanShape
<1>6. PendingIsDue'
  BY <1>1, <1>2 DEF PendingIsDue
<1>7. Seen' = Seen
  BY <1>1 DEF Seen
<1>8. QueueTiles' /\ UsedStarts' /\ Relay!VerifiesRelayedDrafts'
  BY <1>1, <1>7 DEF DraftInv, QueueTiles, Relay!Needed, UsedStarts, Relay!VerifiesRelayedDrafts
<1>9. AllFresh'
  <2> SUFFICES ASSUME NEW s \in Slots, latest'[s] # Relay!None PROVE Fresh(s, latest[s])'
    <3>1. \A s \in Slots : Latest(s)' = latest'[s]
      BY <1>1, <1>2 DEF Latest
    <3>2. \A s \in Slots : latest'[s] # Relay!None => latest'[s] = latest[s]
      BY <1>3, <1>4
    <3> QED
      BY <3>1, <3>2 DEF AllFresh, Fresh
  <2>1. s # s0 /\ latest'[s] = latest[s]
    BY <1>3, <1>4
  <2>2. Latest(s) = latest[s]
    BY <1>2 DEF Latest
  <2>3. Fresh(s, latest[s])
    BY <2>1, <2>2 DEF DraftInv, AllFresh
  <2> QED
    BY <2>1, <2>3, <1>1, <1>3, <1>7 DEF Fresh
<1> QED
  BY <1>5, <1>6, <1>8, <1>9 DEF DraftInv

\* The steps that move broadcasts only.
LEMMA OthersDrafts ==
  ASSUME DraftInv, UNCHANGED <<plan, gen, latest, other, queue, drafts, used>>
  PROVE  DraftInv'
<1>1. Seen' = Seen /\ \A s : Latest(s)' = Latest(s)
  BY DEF Seen, Latest
<1>2. \A k : Relay!Needed(k)' <=> Relay!Needed(k)
  BY DEF Relay!Needed
<1>3. PlanShape' /\ PendingIsDue' /\ QueueTiles' /\ UsedStarts' /\ Relay!VerifiesRelayedDrafts'
  BY <1>1, <1>2
     DEF DraftInv, PlanShape, PendingIsDue, QueueTiles, UsedStarts, Relay!VerifiesRelayedDrafts
<1>4. \A s, n : Fresh(s, n)' <=> Fresh(s, n)
  BY <1>1 DEF Fresh
<1>5. AllFresh'
  BY <1>1, <1>4 DEF DraftInv, AllFresh, Fresh
<1> QED
  BY <1>3, <1>5 DEF DraftInv

\* A request that has sampled is verified, in its next batch, against the drafts
\* that were proposed at its last one: the receipts reach its row in time, no
\* other batch overwrites it, and a reused slot never gets those of its past user.
THEOREM RelayedDrafts ==
  ASSUME RelayConstants
  PROVE  Relay!Spec => []Relay!VerifiesRelayedDrafts
<1>1. Relay!Init => DraftInv
  <2> SUFFICES ASSUME Relay!Init PROVE DraftInv
    OBVIOUS
  <2>1. /\ plan = <<>> /\ other = 0 /\ queue = <<>> /\ Len(<<>>) = 0
        /\ latest = [s \in Slots |-> 0] /\ DOMAIN used = {} /\ Depth \in Nat
    BY DEF Relay!Init, Relay!None, RelayConstants
  <2>2. Len(plan) = 0 /\ Len(queue) = 0 /\ 1..Len(plan) = {} /\ Seen = 0
    <3>1. Len(plan) = 0 /\ Len(queue) = 0
      BY <2>1
    <3>2. 0 - 0 = 0 /\ 1..0 = {}
      OBVIOUS
    <3>3. Seen = 0 - 0
      BY <2>1, <3>1 DEF Seen
    <3> QED
      BY <3>1, <3>2, <3>3
  <2>3. PlanShape /\ PendingIsDue
    BY <2>1, <2>2 DEF PlanShape, PendingIsDue
  <2>4. QueueTiles
    BY <2>1, <2>2 DEF QueueTiles
  <2>5. AllFresh
    BY <2>1, <2>2 DEF AllFresh, Latest, Relay!None
  <2>6. UsedStarts /\ Relay!VerifiesRelayedDrafts
    BY <2>1 DEF UsedStarts, Relay!VerifiesRelayedDrafts
  <2> QED
    BY <2>3, <2>4, <2>5, <2>6 DEF DraftInv
<1>2. RelayType /\ RelayProgress /\ DraftInv /\ [Relay!Next]_Relay!vars => DraftInv'
  <2> SUFFICES ASSUME RelayType, RelayProgress, DraftInv, [Relay!Next]_Relay!vars PROVE DraftInv'
    OBVIOUS
  <2>1. ASSUME NEW reqs \in (SUBSET Slots) \ {{}}, NEW need \in SUBSET reqs,
               Relay!Schedule(reqs, need)
        PROVE  DraftInv'
    <3>1. PICK m \in Nat : m = Len(plan) + 1
      BY DEF RelayType
    <3> QED
      BY <3>1, <2>1, ScheduleDrafts
  <2>2. ASSUME NEW s \in Slots, Relay!Abort(s) PROVE DraftInv'
    BY <2>2, AbortDrafts
  <2>3. CASE Relay!RunOther
    <3>1. PICK m \in Nat : m = other + 1
      BY DEF RelayType
    <3> QED
      BY <3>1, <2>3, RunOtherDrafts
  <2>4. CASE Relay!RunLast \/ Relay!Propose \/ Relay!Match \/ UNCHANGED Relay!vars
    BY <2>4, OthersDrafts DEF Relay!RunLast, Relay!Propose, Relay!Match, Relay!vars
  <2> QED
    BY <2>1, <2>2, <2>3, <2>4 DEF Relay!Next
<1>3. DraftInv => Relay!VerifiesRelayedDrafts
  BY DEF DraftInv
<1> QED
  BY <1>1, <1>2, <1>3, RelayInvariance, PTL DEF Relay!Spec

\* What the relay promises, whatever the slots, the depth and the lag of the ranks.
THEOREM RelayCorrect ==
  ASSUME RelayConstants
  PROVE  Relay!Spec => []Relay!RelayAgrees
<1>1. Relay!BroadcastsPair /\ Relay!VerifiesRelayedDrafts => Relay!RelayAgrees
  BY DEF Relay!RelayAgrees
<1> QED
  BY <1>1, StreamsPair, RelayedDrafts, PTL

================================================================================
