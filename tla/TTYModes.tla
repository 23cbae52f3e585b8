------------------------------ MODULE TTYModes ------------------------------
(***************************************************************************)
(* The terminal modes a TTY owns (internal/term/phrase.go): raw mode with  *)
(* bracketed paste, hidden password input, and the alternate screen. The   *)
(* command goroutine enters and leaves them; EmergencyRestore undoes what  *)
(* is active. Bookkeeping happens under t.mu, the terminal itself is       *)
(* changed after it is released, and restoring puts back the mode that was *)
(* found when the mode was entered.                                        *)
(*                                                                         *)
(* EmergencyRestore may be called at any time, once, as its comment allows.*)
(* Run calls it after it has joined the command: command = "ended".        *)
(***************************************************************************)
EXTENDS Naturals

CONSTANTS
  MaxUses     \* bound: how many times the command uses the terminal

ASSUME UsesAssumption == MaxUses \in Nat

Modes == {"cooked", "raw", "hidden"}

Uses == [id : 0..MaxUses, saved : Modes]

NoUse == [id |-> 0, saved |-> "cooked"]

VARIABLES
  device,     \* the terminal: [mode, paste, alternate]
  raw,        \* t.raw: the use that owns raw mode and the mode it saved
  password,   \* t.password, likewise
  paste,      \* t.bracketedPaste
  alternate,  \* t.alternateScreen
  use,        \* the command's current use, as its restore closure knows it
  command,    \* where the command goroutine is
  leaving,    \* what its restore or leaveAlternateScreen still has to undo
  emergency,  \* where EmergencyRestore is: "none", "writing", "done"
  snapshot    \* what EmergencyRestore took over and still has to undo

ttyVars == <<device, raw, password, paste, alternate, use, command, leaving, emergency, snapshot>>

Device == [mode : Modes, paste : BOOLEAN, alternate : BOOLEAN]

\* Work still to be written to the terminal, in order: paste, alternate, mode.
Work == [paste : BOOLEAN, alternate : BOOLEAN, mode : Modes \union {"keep"}]

NoWork == [paste |-> FALSE, alternate |-> FALSE, mode |-> "keep"]

TTYTypeOK ==
  /\ device \in Device
  /\ raw \in Uses /\ password \in Uses /\ use \in Uses
  /\ paste \in BOOLEAN /\ alternate \in BOOLEAN
  /\ command \in {"idle", "raw", "viewer", "viewed", "hidden", "leaving", "ended"}
  /\ emergency \in {"none", "writing", "done"}
  /\ leaving \in Work /\ snapshot \in Work

TTYInit ==
  /\ device = [mode |-> "cooked", paste |-> FALSE, alternate |-> FALSE]
  /\ raw = NoUse /\ password = NoUse /\ paste = FALSE /\ alternate = FALSE
  /\ use = NoUse /\ command = "idle" /\ leaving = NoWork
  /\ emergency = "none" /\ snapshot = NoWork
-----------------------------------------------------------------------------
(* The command goroutine. *)

Fresh == [id |-> use.id + 1, saved |-> device.mode]

\* makeRaw: refused while a mode is active, otherwise entered under the lock.
makeRaw ==
  /\ command = "idle" /\ use.id < MaxUses
  /\ raw = NoUse /\ password = NoUse
  /\ raw' = Fresh /\ use' = Fresh /\ paste' = TRUE
  /\ device' = [device EXCEPT !.mode = "raw", !.paste = TRUE]
  /\ command' = "raw"
  /\ UNCHANGED <<password, alternate, leaving, emergency, snapshot>>

makePasswordMode ==
  /\ command = "idle" /\ use.id < MaxUses
  /\ raw = NoUse /\ password = NoUse
  /\ password' = Fresh /\ use' = Fresh
  /\ device' = [device EXCEPT !.mode = "hidden"]
  /\ command' = "hidden"
  /\ UNCHANGED <<raw, paste, alternate, leaving, emergency, snapshot>>

\* The write may fail: the screen is then left at once, as after a viewing.
enterAlternateScreen ==
  /\ command = "raw" /\ ~alternate
  /\ alternate' = TRUE
  /\ \E wrote \in BOOLEAN : device' = [device EXCEPT !.alternate = @ \/ wrote]
  /\ command' = "viewer"
  /\ UNCHANGED <<raw, password, paste, use, leaving, emergency, snapshot>>

\* As leaveAlternateScreen, but only the bookkeeping is changed.
leaveAlternateScreenUnwritten ==
  /\ command = "viewer" /\ leaving = NoWork
  /\ alternate' = FALSE
  /\ command' = "viewed"
  /\ UNCHANGED <<device, raw, password, paste, use, leaving, emergency, snapshot>>

\* leaveAlternateScreen, the part under the lock; the viewer then restores.
leaveAlternateScreen ==
  /\ command = "viewer" /\ leaving = NoWork
  /\ leaving' = [NoWork EXCEPT !.alternate = alternate]
  /\ alternate' = FALSE
  /\ command' = "viewed"
  /\ UNCHANGED <<device, raw, password, paste, use, emergency, snapshot>>

\* As restore, but without asking whether the mode is still this use's.
restoreUnowned ==
  /\ command \in {"raw", "viewed"} /\ leaving = NoWork
  /\ leaving' = [NoWork EXCEPT !.paste = paste, !.mode = use.saved]
  /\ raw' = NoUse /\ paste' = FALSE
  /\ command' = "leaving"
  /\ UNCHANGED <<device, password, alternate, use, emergency, snapshot>>

\* restore of makeRaw, the part under the lock: only the owner undoes anything.
restore ==
  /\ command \in {"raw", "viewed"} /\ leaving = NoWork
  /\ IF raw = use
       THEN /\ leaving' = [NoWork EXCEPT !.paste = paste, !.mode = use.saved]
            /\ raw' = NoUse /\ paste' = FALSE
       ELSE UNCHANGED <<leaving, raw, paste>>
  /\ command' = "leaving"
  /\ UNCHANGED <<device, password, alternate, use, emergency, snapshot>>

\* restore of makePasswordMode, likewise.
restorePassword ==
  /\ command = "hidden" /\ leaving = NoWork
  /\ IF password = use
       THEN leaving' = [NoWork EXCEPT !.mode = use.saved] /\ password' = NoUse
       ELSE UNCHANGED <<leaving, password>>
  /\ command' = "leaving"
  /\ UNCHANGED <<device, raw, paste, alternate, use, emergency, snapshot>>

\* One write to the terminal of the work w: paste off, screen off, mode back.
Undo(w, w2) ==
  \/ /\ w.paste
     /\ device' = [device EXCEPT !.paste = FALSE] /\ w2 = [w EXCEPT !.paste = FALSE]
  \/ /\ ~w.paste /\ w.alternate
     /\ device' = [device EXCEPT !.alternate = FALSE] /\ w2 = [w EXCEPT !.alternate = FALSE]
  \/ /\ ~w.paste /\ ~w.alternate /\ w.mode # "keep"
     /\ device' = [device EXCEPT !.mode = w.mode] /\ w2 = NoWork

CommandWrites ==
  /\ Undo(leaving, leaving')
  /\ UNCHANGED <<raw, password, paste, alternate, use, command, emergency, snapshot>>

Left ==
  /\ command = "leaving" /\ leaving = NoWork
  /\ command' = "idle"
  /\ UNCHANGED <<device, raw, password, paste, alternate, use, leaving, emergency, snapshot>>

Ends ==
  /\ command = "idle"
  /\ command' = "ended"
  /\ UNCHANGED <<device, raw, password, paste, alternate, use, leaving, emergency, snapshot>>

CommandSteps ==
  \/ makeRaw \/ makePasswordMode \/ enterAlternateScreen \/ leaveAlternateScreen
  \/ restore \/ restorePassword \/ CommandWrites \/ Left \/ Ends
-----------------------------------------------------------------------------
(* EmergencyRestore. *)

\* As SavedMode, but hidden input is forgotten.
SavedModeOfRaw == IF raw # NoUse THEN raw.saved ELSE "keep"

SavedMode ==
  IF raw # NoUse THEN raw.saved
  ELSE IF password # NoUse THEN password.saved
  ELSE "keep"

\* Under the lock: what is active is taken over and marked inactive.
EmergencyTakes ==
  /\ emergency = "none"
  /\ snapshot' = [paste |-> paste, alternate |-> alternate, mode |-> SavedMode]
  /\ raw' = NoUse /\ password' = NoUse /\ paste' = FALSE /\ alternate' = FALSE
  /\ emergency' = "writing"
  /\ UNCHANGED <<device, use, command, leaving>>

EmergencyWrites ==
  /\ emergency = "writing" /\ Undo(snapshot, snapshot')
  /\ UNCHANGED <<raw, password, paste, alternate, use, command, leaving, emergency>>

EmergencyDone ==
  /\ emergency = "writing" /\ snapshot = NoWork
  /\ emergency' = "done"
  /\ UNCHANGED <<device, raw, password, paste, alternate, use, command, leaving, snapshot>>

Emergency == EmergencyTakes \/ EmergencyWrites \/ EmergencyDone

TTYNext == CommandSteps \/ Emergency

TTYSpec == TTYInit /\ [][TTYNext]_ttyVars
-----------------------------------------------------------------------------
(* Properties *)

Cooked == device = [mode |-> "cooked", paste |-> FALSE, alternate |-> FALSE]

\* EmergencyRestore and a command that uses the terminal once, interleaved in any
\* way: when both are done, the terminal is as it was found.
OneUseLeavesCooked ==
  command = "ended" /\ emergency = "done" /\ use.id <= 1 => Cooked

\* restore, leaveAlternateScreen: a command that has ended by itself leaves the
\* terminal as it found it, before anybody cleans up after it.
CommandCleansUp == command = "ended" /\ emergency = "none" => Cooked

\* restore and EmergencyRestore: what one use has changed is undone by one of them,
\* never by both (a second restore could overwrite what came after the first).
UndoneOnce ==
  use.id <= 1 =>
    /\ leaving.mode = "keep" \/ snapshot.mode = "keep"
    /\ ~(leaving.alternate /\ snapshot.alternate)
=============================================================================
