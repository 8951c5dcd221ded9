------------------------- MODULE SystemLed_proofs -------------------------
(***************************************************************************)
(* Proofs about the system LED: what holds of any number of scripts that   *)
(* overlap, and what a lock around led-status and led_set would add.       *)
(***************************************************************************)
EXTENDS SystemLed, TLAPS

\* Control state of the scripts.
Places == {"idle", "test", "color", "bright", "write255", "trunc", "write", "halt"}
Shape  == /\ pc \in [Writer -> Places] /\ want \in [Writer -> Color]
          /\ by \in [Writer -> {"status", "led", "power"}]
          /\ end \in [Writer -> {"none", "ok", "err", "oops"}]
          /\ color \in Color /\ cache \in Color \cup {Empty, Mixed}
          /\ health \in Health

\* A script on its way to the cache has found the LED lit or has lit it.
LitBehind == \A w \in Writer : pc[w] \in {"trunc", "write"} => lit

LInv == Shape /\ LitWhenCached /\ LitBehind

\* What a single script knows of the LED and the cache at each of its steps: the
\* cache tells the truth until the colour is written, from then on the colour is
\* the script's, and led-status asks for a colour of the health.  After an oops there
\* is no cache until a write has succeeded.
OwnView ==
    \A w \in Writer :
        /\ pc[w] \in {"idle", "test", "color", "halt"} /\ cache # Empty => color = cache
        /\ pc[w] \in {"bright", "write255", "trunc", "write"} => color = want[w]
        /\ pc[w] = "write255" => ~lit
        /\ pc[w] = "write" => cache = Empty
        /\ oopsed => cache = Empty /\ pc[w] \in {"idle", "test", "color", "halt"}
        /\ by[w] = "status" /\ pc[w] # "idle" => want[w] \in Health

SInv == LInv /\ OwnView

\* Every start of a script names a colour.
LEMMA StartLemma ==
    ASSUME Shape, NEW w \in Writer, Start(w)
    PROVE  \E kind \in {"status", "led", "power"}, c \in Color :
               Begin(w, kind, c) /\ (kind = "status" => c \in Health)
<1> USE DEF Color, Health, Shape
<1>1. CASE LedStatus(w)
  BY <1>1 DEF LedStatus
<1>2. CASE PanelLed(w)
  BY <1>2, SystemLedAssumption DEF PanelLed
<1>3. CASE PanelPower(w)
  BY <1>3 DEF PanelPower
<1>4. QED
  BY <1>1, <1>2, <1>3 DEF Start

-----------------------------------------------------------------------------
(* Any number of scripts.                                                  *)

\* Initially nothing is cached and no script runs.
LEMMA InitLemma == Init => LInv
BY DEF Init, LInv, Shape, LitWhenCached, LitBehind, Places, Color

\* One step of one script, whatever the others are doing.
LEMMA ScriptLemma ==
    ASSUME LInv, NEW w \in Writer, Start(w) \/ Step(w)
    PROVE  LInv'
<1> USE DEF LInv, Shape, LitWhenCached, LitBehind, Places, Goto, End, Return, led
<1>1. CASE Start(w)
  <2>1. PICK kind \in {"status", "led", "power"}, c \in Color :
          Begin(w, kind, c) /\ (kind = "status" => c \in Health)
    BY <1>1, StartLemma
  <2>2. QED
    BY <2>1 DEF Begin
<1>2. CASE Test(w)
  BY <1>2 DEF Test
<1>3. CASE WriteColor(w)
  BY <1>3 DEF WriteColor
<1>4. CASE TestBrightness(w)
  BY <1>4 DEF TestBrightness
<1>5. CASE WriteBrightness(w)
  BY <1>5 DEF WriteBrightness
<1>6. CASE Oops(w)
  BY <1>6 DEF Oops
<1>7. CASE TruncateCache(w)
  BY <1>7 DEF TruncateCache
<1>8. CASE WriteCache(w)
  BY <1>8 DEF WriteCache
<1>9. CASE Halt(w)
  BY <1>9 DEF Halt
<1>10. QED
  BY <1>1, <1>2, <1>3, <1>4, <1>5, <1>6, <1>7, <1>8, <1>9 DEF Step

\* The health of the box, a reboot, and nothing at all.
LEMMA BoxLemma ==
    ASSUME LInv, HealthChanges \/ Boot \/ UNCHANGED vars
    PROVE  LInv'
BY DEF LInv, Shape, LitWhenCached, LitBehind, Places, HealthChanges, Boot,
       Restarted, vars, script, led

\* The invariant of overlapping scripts.
THEOREM Invariance == Spec => []LInv
<1>1. LInv /\ [Next]_vars => LInv'
  BY ScriptLemma, BoxLemma DEF Next, Reboot, PowerCut
<1>2. QED
  BY <1>1, InitLemma, PTL DEF Spec

\* However set_led and led_set overlap, and wherever the driver kills them, a
\* colour is cached only while the LED is lit: an oops is always retried.
THEOREM OopsIsRetried == Spec => []LitWhenCached
BY Invariance, PTL DEF LInv

\* The flags stay flags.
LEMMA FlagsLemma ==
    ASSUME lit \in BOOLEAN, oopsed \in BOOLEAN, halting \in BOOLEAN, [Next]_vars
    PROVE  lit' \in BOOLEAN /\ oopsed' \in BOOLEAN /\ halting' \in BOOLEAN
<1>1. ASSUME NEW w \in Writer, Start(w) PROVE UNCHANGED << lit, oopsed, halting >>
  BY <1>1 DEF Start, LedStatus, PanelLed, PanelPower, Begin, led
<1>2. ASSUME NEW w \in Writer, Step(w)
      PROVE  /\ lit' \in {lit, TRUE} /\ oopsed' \in {oopsed, TRUE, FALSE}
             /\ halting' \in {halting, TRUE}
  BY <1>2 DEF Step, Test, WriteColor, TestBrightness, WriteBrightness, Oops,
              TruncateCache, WriteCache, Halt, led
<1>3. CASE HealthChanges \/ Boot \/ UNCHANGED vars
  BY <1>3 DEF HealthChanges, Boot, Restarted, vars, led
<1>4. QED
  BY <1>1, <1>2, <1>3 DEF Next, Reboot, PowerCut

\* Type correctness: whatever colours the panel is given and the driver refuses.
THEOREM TypeCorrect == Spec => []TypeOK
<1> DEFINE Flags == lit \in BOOLEAN /\ oopsed \in BOOLEAN /\ halting \in BOOLEAN
<1>1. Init => Flags
  BY DEF Init
<1>2. Flags /\ [Next]_vars => Flags'
  BY FlagsLemma
<1>3. LInv /\ Flags => TypeOK
  BY DEF LInv, Shape, Places, TypeOK
<1>4. QED
  BY <1>1, <1>2, <1>3, Invariance, PTL DEF Spec

-----------------------------------------------------------------------------
(* One script at a time; the driver takes the colours of the health.       *)

\* One step of the script.
LEMMA SingleLemma ==
    ASSUME Rejects \cap Health = {}, NEW w \in Writer, Writer = {w}, SInv, Start(w) \/ Step(w)
    PROVE  OwnView'
<1> USE DEF SInv, LInv, Shape, LitWhenCached, LitBehind, OwnView, Places, Goto, End,
        Return, led
<1>1. CASE Start(w)
  <2>1. PICK kind \in {"status", "led", "power"}, c \in Color :
          Begin(w, kind, c) /\ (kind = "status" => c \in Health)
    BY <1>1, StartLemma
  <2>2. QED
    BY <2>1 DEF Begin
<1>2. CASE Test(w)
  BY <1>2 DEF Test
<1>3. CASE WriteColor(w)
  BY <1>3 DEF WriteColor
<1>4. CASE TestBrightness(w)
  BY <1>4 DEF TestBrightness
<1>5. CASE WriteBrightness(w)
  BY <1>5 DEF WriteBrightness
<1>6. CASE Oops(w)
  BY <1>6 DEF Oops
<1>7. CASE TruncateCache(w)
  BY <1>7 DEF TruncateCache
<1>8. CASE WriteCache(w)
  BY <1>8 DEF WriteCache
<1>9. CASE Halt(w)
  BY <1>9 DEF Halt
<1>10. QED
  BY <1>1, <1>2, <1>3, <1>4, <1>5, <1>6, <1>7, <1>8, <1>9 DEF Step

\* The invariant of one script at a time.
LEMMA LockedInvariance ==
    ASSUME Rejects \cap Health = {}, NEW w, Writer = {w}
    PROVE  Spec => []SInv
<1>1. Init => SInv
  BY InitLemma DEF Init, SInv, OwnView
<1>2. SInv /\ [Next]_vars => SInv'
  <2>1. SUFFICES ASSUME SInv, [Next]_vars PROVE OwnView'
    BY ScriptLemma, BoxLemma DEF Next, Reboot, PowerCut, SInv
  <2>2. CASE Start(w) \/ Step(w)
    BY <2>1, <2>2, SingleLemma
  <2>3. CASE HealthChanges \/ Boot \/ UNCHANGED vars
    BY <2>1, <2>3 DEF SInv, LInv, Shape, OwnView, Places, HealthChanges, Boot,
       Restarted, vars, script, led
  <2>4. QED
    BY <2>1, <2>2, <2>3 DEF Next, Reboot, PowerCut
<1>3. QED
  BY <1>1, <1>2, PTL DEF Spec

\* With led-status and led_set under one lock, and a driver that takes the colours
\* of the health, the cache would never vouch for a colour that is not shown, however
\* the script before it ended.
THEOREM LockedCacheIsTrue ==
    ASSUME Rejects \cap Health = {}, NEW w, Writer = {w}
    PROVE  Spec => []CacheIsTrue
<1>1. SInv => CacheIsTrue
  BY DEF SInv, OwnView, CacheIsTrue, Quiescent
<1>2. QED
  BY <1>1, LockedInvariance, PTL
=============================================================================
