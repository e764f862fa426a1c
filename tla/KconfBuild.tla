------------------------------ MODULE KconfBuild ------------------------------
(***************************************************************************)
(* What conf_write_autoconf (confdata.c) leaves for the build: it touches  *)
(* include/config/x.h of every symbol whose value is not the one in        *)
(* auto.conf, then renames autoconf.h and auto.conf into place.  The tool  *)
(* can be killed between any two steps.  The build compiles an object      *)
(* again when include/config/x.h of a symbol its source names is newer     *)
(* (fixdep.c).  The values themselves are any texts here; Kconfig extends  *)
(* this module by what calculates them.                                    *)
(***************************************************************************)
CONSTANTS Names,      \* of the symbols
          Objs, Refs  \* objects of the build and the symbols they name

VARIABLES pc,        \* next step of the running tool, "idle" if there is none
          lines,     \* what the tool is writing, while it does
          pending,   \* symbols whose include/config/x.h is still to be touched
          auto, header, \* the files auto.conf and autoconf.h
          newer, built, \* objects older than such a file; what each was compiled with
          torn       \* history: an object was compiled between the two renames of an autoconf

objects == <<newer, built, torn>>
build == <<lines, pending, objects>>
autoVars == <<pc, auto, header, build>>

NoLines == [s \in Names |-> ""]
Absent == [has |-> FALSE, line |-> NoLines]
Written(f) == [has |-> TRUE, line |-> f]
Writing == {"touch", "header"}

InitBuild ==
  /\ pc = "idle" /\ lines = NoLines /\ pending = {}
  /\ auto = Absent /\ header = Absent
  /\ newer = [o \in Objs |-> TRUE] /\ built = [o \in Objs |-> NoLines]
  /\ torn = FALSE

(* Faulty variant: only symbols with a new value are compared.             *)
Touched_new(f) == {s \in Names : f[s] # "" /\ f[s] # auto.line[s]}

(* conf_touch_deps: the symbols whose value differs from auto.conf's.      *)
Touched(f) == {s \in Names : f[s] # auto.line[s]}

conf_touch_deps(f) ==
  /\ pc \notin Writing
  /\ pc' = "touch" /\ lines' = f /\ pending' = Touched(f)
  /\ UNCHANGED <<auto, header, objects>>
conf_touch_dep(s) ==
  /\ pc = "touch" /\ pending' = pending \ {s}
  /\ newer' = [o \in Objs |-> newer[o] \/ s \in Refs[o]]
  /\ UNCHANGED <<pc, lines, auto, header, built, torn>>
rename_header ==
  /\ pc = "touch" /\ pending = {}
  /\ header' = Written(lines) /\ pc' = "header"
  /\ UNCHANGED <<lines, pending, auto, objects>>
rename_auto(next) ==
  /\ pc = "header"
  /\ auto' = Written(lines) /\ lines' = NoLines /\ pc' = next
  /\ UNCHANGED <<pending, header, objects>>

(* The process is killed; temporary files stay, unused.                    *)
killed ==
  /\ pc # "idle"
  /\ pc' = "idle" /\ lines' = NoLines /\ pending' = {}
  /\ UNCHANGED <<auto, header, objects>>

(* make: an object older than one of its prerequisites is compiled.        *)
compile(o) ==
  /\ pc = "idle" /\ header.has /\ newer[o]
  /\ newer' = [newer EXCEPT ![o] = FALSE]
  /\ built' = [built EXCEPT ![o] = [s \in Names |-> IF s \in Refs[o] THEN header.line[s] ELSE ""]]
  /\ torn' = (torn \/ header # auto)
  /\ UNCHANGED <<pc, lines, pending, auto, header>>

(* Everything else a tool does.                                            *)
elsewhere == pc \notin Writing /\ pc' \notin Writing /\ UNCHANGED <<auto, header, build>>

NextBuild ==
  \/ \E f \in [Names -> STRING] : conf_touch_deps(f)
  \/ \E s \in pending : conf_touch_dep(s)
  \/ rename_header
  \/ \E next \in STRING \ Writing : rename_auto(next)
  \/ killed
  \/ \E o \in Objs : compile(o)
  \/ elsewhere
SpecBuild == InitBuild /\ [][NextBuild]_autoVars

-----------------------------------------------------------------------------
(* After a complete syncconfig, an object make would not compile again has *)
(* been compiled with the values of the header, whatever was killed before *)
(* (unless something was compiled between the renames of a killed one).    *)
ObjectsCurrent ==
  pc = "idle" /\ header = auto /\ ~torn =>
    \A o \in Objs : ~newer[o] => \A s \in Names \cap Refs[o] : built[o][s] = header.line[s]
=============================================================================
