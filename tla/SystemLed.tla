----------------------------- MODULE SystemLed -----------------------------
(***************************************************************************)
(* The system LED (src/nas-panel/led-status, panel-op's led_set): scripts  *)
(* started by cron, by the boot hook and by the panel set one colour, with *)
(* a cache in /var/run to spare the driver, which sometimes kills the      *)
(* process that writes brightness, and then maybe the next that writes to  *)
(* it at all.  No lock orders them.                                        *)
(***************************************************************************)
EXTENDS Integers

CONSTANTS
    Writer,        \* the scripts that may be running at a time
    PanelColors,   \* colours given to panel-op led
    Rejects,       \* colours that the driver may refuse
    Power,         \* TRUE if the panel's poweroff and reboot are used
    PowerCuts      \* TRUE if the power may fail

Color  == {"blue", "red", "green", "yellow", "white"}
Health == {"blue", "yellow", "red"}        \* what led-status makes of the box
Empty  == "empty"                          \* no LEDSTATE, or nothing in it
Mixed  == "mixed"                          \* two colours written over each other

ASSUME SystemLedAssumption ==
    /\ PanelColors \subseteq Color /\ Rejects \subseteq Color
    /\ Power \in BOOLEAN /\ PowerCuts \in BOOLEAN

VARIABLES
    pc,        \* what each script is about to do
    by,        \* which script it is: "status", "led" or "power"
    want,      \* its colour
    end,       \* how it ended, "none" while it runs
    color,     \* the colour the driver shows
    lit,       \* brightness reads 255
    oopsed,    \* the last write to the driver made it oops
    cache,     \* LEDSTATE
    halting,   \* a shutdown -h or -r is on its way
    health     \* the colour the health of the box calls for

script == << pc, by, want, end >>
led    == << color, lit, oopsed >>
vars   == << script, led, cache, halting, health >>

TypeOK ==
    /\ pc \in [Writer -> {"idle", "test", "color", "bright", "write255",
                          "trunc", "write", "halt"}]
    /\ by \in [Writer -> {"status", "led", "power"}]
    /\ want \in [Writer -> Color]
    /\ end \in [Writer -> {"none", "ok", "err", "oops"}]
    /\ color \in Color /\ lit \in BOOLEAN /\ oopsed \in BOOLEAN
    /\ cache \in Color \cup {Empty, Mixed}
    /\ halting \in BOOLEAN
    /\ health \in Health

\* The LED boots dark.
Init ==
    /\ pc = [w \in Writer |-> "idle"] /\ by = [w \in Writer |-> "status"]
    /\ want = [w \in Writer |-> "blue"] /\ end = [w \in Writer |-> "ok"]
    /\ color \in Color /\ lit = FALSE /\ oopsed = FALSE
    /\ cache = Empty /\ halting = FALSE
    /\ health \in Health

-----------------------------------------------------------------------------

Begin(w, kind, c) ==
    /\ pc[w] = "idle"
    /\ pc' = [pc EXCEPT ![w] = "test"]
    /\ by' = [by EXCEPT ![w] = kind]
    /\ want' = [want EXCEPT ![w] = c]
    /\ end' = [end EXCEPT ![w] = "none"]
    /\ UNCHANGED << led, cache, halting, health >>

Goto(w, l) == pc' = [pc EXCEPT ![w] = l] /\ UNCHANGED << by, want, end >>

End(w, how) == /\ pc' = [pc EXCEPT ![w] = "idle"]
               /\ end' = [end EXCEPT ![w] = how]
               /\ UNCHANGED << by, want >>

\* The return of led_set: poweroff and reboot have something left to do.
Return(w) == IF by[w] = "power" THEN Goto(w, "halt") ELSE End(w, "ok")

\* Mutated form: any word is taken for a colour.
PanelLedUnchecked(w) == \E c \in PanelColors \cup {"off"} : Begin(w, "led", c)

\* cron, the boot hook or the installer: the colour is decided first.
LedStatus(w) == Begin(w, "status", health)
PanelLed(w) == \E c \in PanelColors : Begin(w, "led", c)
PanelPower(w) == Power /\ Begin(w, "power", "yellow")

\* Mutated form: any colour in the cache will do.
TestAnyColor(w) ==
    /\ pc[w] = "test"
    /\ IF cache \in Color THEN Return(w) ELSE Goto(w, "color")
    /\ UNCHANGED << led, cache, halting, health >>

\* [ "$(cat "$LEDSTATE")" = "$c" ] && return 0
Test(w) ==
    /\ pc[w] = "test"
    /\ IF cache = want[w] THEN Return(w) ELSE Goto(w, "color")
    /\ UNCHANGED << led, cache, halting, health >>

\* A refused colour ends panel-op, by way of die, and goes unnoticed in led-status.
WriteColor(w) ==
    /\ pc[w] = "color"
    /\ \/ color' = want[w] /\ Goto(w, "bright")
       \/ /\ want[w] \in Rejects /\ UNCHANGED color
          /\ IF by[w] = "status" THEN Goto(w, "bright") ELSE End(w, "err")
    /\ oopsed' = FALSE
    /\ UNCHANGED << lit, cache, halting, health >>

\* Mutated form: the brightness is left to the boot hook.
TestBrightnessSkips(w) ==
    /\ pc[w] = "bright"
    /\ Goto(w, "trunc")
    /\ UNCHANGED << led, cache, halting, health >>

\* if [ "$(cat "$LED/brightness")" != "255" ]
TestBrightness(w) ==
    /\ pc[w] = "bright"
    /\ Goto(w, IF lit THEN "trunc" ELSE "write255")
    /\ UNCHANGED << led, cache, halting, health >>

\* echo 255 > "$LED/brightness", in the script's own process.
WriteBrightness(w) ==
    /\ pc[w] = "write255"
    /\ lit' = TRUE /\ oopsed' = FALSE
    /\ Goto(w, "trunc")
    /\ UNCHANGED << color, cache, halting, health >>

\* The kernel oops: the writer dies, whether or not what it wrote has taken effect.
\* A write of the brightness may end so, and the first write after one that did.
Oops(w) ==
    /\ \/ pc[w] = "write255" /\ lit' \in {lit, TRUE} /\ UNCHANGED color
       \/ pc[w] = "color" /\ oopsed /\ color' \in {color, want[w]} /\ UNCHANGED lit
    /\ oopsed' = TRUE
    /\ End(w, "oops")
    /\ UNCHANGED << cache, halting, health >>

\* echo "$c" > "$LEDSTATE": the shell truncates the file, then echo writes from
\* its start, over what another script has put there meanwhile.
TruncateCache(w) ==
    /\ pc[w] = "trunc"
    /\ cache' = Empty
    /\ Goto(w, "write")
    /\ UNCHANGED << led, halting, health >>

Size(c) == CASE c = "red" -> 3 [] c = "blue" -> 4 [] c \in {"green", "white"} -> 5
             [] c = "yellow" -> 6

\* What is left of a longer colour behind the new one shows, unless it is only the
\* newline at its end, which $(cat ...) drops.
WriteCache(w) ==
    /\ pc[w] = "write"
    /\ cache' \in IF cache = Mixed THEN {want[w], Mixed}
                  ELSE IF cache = Empty \/ Size(cache) <= Size(want[w]) + 1 THEN {want[w]}
                  ELSE {Mixed}
    /\ Return(w)
    /\ UNCHANGED << led, halting, health >>

\* nohup sh -c 'sleep 2; shutdown ...' &
Halt(w) ==
    /\ pc[w] = "halt"
    /\ halting' = TRUE
    /\ End(w, "ok")
    /\ UNCHANGED << led, cache, health >>

-----------------------------------------------------------------------------

HealthChanges ==
    /\ health' \in Health \ {health}
    /\ UNCHANGED << script, led, cache, halting >>

\* Nothing runs any more, and the LED is dark in whatever colour the firmware gave it.
Restarted ==
    /\ pc' = [w \in Writer |-> "idle"] /\ end' = [w \in Writer |-> "ok"]
    /\ by' = [w \in Writer |-> "status"] /\ UNCHANGED want
    /\ color' \in Color /\ lit' = FALSE /\ oopsed' = FALSE
    /\ halting' = FALSE
    /\ UNCHANGED health

\* Mutated form: LEDSTATE is kept on the disk.
BootKeepsCache == Restarted /\ UNCHANGED cache

\* The box comes up again, with an empty /var/run.
Boot == Restarted /\ cache' = Empty

\* The shutdown takes place, and the box is switched on again.
Reboot == halting /\ Boot

PowerCut == PowerCuts /\ Boot

-----------------------------------------------------------------------------

Start(w) == LedStatus(w) \/ PanelLed(w) \/ PanelPower(w)

Step(w) == \/ Test(w) \/ WriteColor(w) \/ TestBrightness(w) \/ WriteBrightness(w)
           \/ Oops(w) \/ TruncateCache(w) \/ WriteCache(w) \/ Halt(w)

Next == (\E w \in Writer : Start(w) \/ Step(w)) \/ HealthChanges \/ Reboot \/ PowerCut

Spec == Init /\ [][Next]_vars

\* A running script goes on; cron comes round every five minutes; a shutdown
\* that is on its way takes place; and the driver does not oops each time.
FairSpec == /\ Spec
            /\ \A w \in Writer : /\ WF_vars(Step(w))
                                 /\ SF_vars(LedStatus(w))
                                 /\ SF_vars(WriteColor(w))
                                 /\ SF_vars(WriteBrightness(w))
            /\ WF_vars(Reboot)

-----------------------------------------------------------------------------
(* Properties.                                                             *)

Quiescent == \A w \in Writer : pc[w] = "idle"

\* An oops never leaves the LED dark for good: no colour is cached, by any of
\* the scripts and however they overlap, unless the LED is lit, so that the next
\* script writes the brightness again.
LitWhenCached == cache # Empty => lit

\* The rest holds of scripts that do not overlap and of a driver that takes the
\* colours led-status asks for; it may refuse those of the panel.

\* Between two scripts the cache never vouches for a colour the LED does not
\* show, however the one before ended: a script that dies has either not touched
\* the LED or finds no cache that would stop the next one.
CacheIsTrue == Quiescent /\ cache # Empty => color = cache

\* While the health of the box stays the same and it stays up, the LED
\* keeps coming back to its colour, lit, whatever panel-op led sets and however
\* often the driver oopses.
LedFollowsHealth ==
    \A h \in Health :
        <>[](health = h /\ ~halting) /\ <>[][~Boot]_vars => []<>(color = h /\ lit)

-----------------------------------------------------------------------------
(* What comments and pages say and the scripts do not do.                  *)

\* src/nas-panel/led-status:6: "red = SMART FAILED or RAID degraded (act now)".
\* Of two scripts that overlap one may set the colour last and the other write
\* the cache last; every later led-status then takes the cache's word for it.
CachedRedIsShown == Quiescent /\ cache = "red" => color = "red"
=============================================================================
