------------------------------ MODULE ShellOps ------------------------------
(***************************************************************************)
(* The line buffer of lethe-kernel/misc/shell.c, as functions of its        *)
(* variables.  capacity is the length of the memory behind shell_cmd, 0     *)
(* while the pointer is NULL; the characters themselves are left out.       *)
(*                                                                         *)
(* Nothing in shell.c looks whether an index is in the buffer: a store      *)
(* outside it is made, and the shell goes on.  stray is history: the        *)
(* functions that have stored outside, and on which side.                   *)
(***************************************************************************)
EXTENDS Integers

CONSTANT Line  \* 80: the buffer grows by this much

ASSUME LineAssumption == Line \in Nat \ {0}

Writers == {"push_char", "del_char", "execute_command", "memset"}

NoShell == [enabled |-> FALSE, capacity |-> 0, size |-> 0, cur |-> 0, stray |-> {}]

IsNull(s) == s.capacity = 0

(* shell_cmd[i] = ..., by the function f. *)
Outside(s, f, i) ==
  IF i < 0 THEN {<<f, "below">>} ELSE IF i >= s.capacity THEN {<<f, "above">>} ELSE {}

Stored(s, f, i) == s.stray \union Outside(s, f, i)

(* Variant: the buffer grows a character late. *)
Grown_Late(s) ==
  IF s.cur > s.size
  THEN [s EXCEPT !.size = s.size + Line, !.capacity = s.size + Line]
  ELSE s

(* The first half of push_char: room for one more character. *)
Grown(s) ==
  IF s.cur >= s.size
  THEN [s EXCEPT !.size = s.size + Line, !.capacity = s.size + Line]
  ELSE s

push_char(s) ==
  [Grown(s) EXCEPT !.cur = s.cur + 1, !.stray = Stored(Grown(s), "push_char", s.cur)]

(* On an empty line the cursor goes below 0. *)
del_char(s) == [s EXCEPT !.cur = s.cur - 1, !.stray = Stored(s, "del_char", s.cur - 1)]

(* execute_command ends the line without looking for room. *)
Terminated(s) == [s EXCEPT !.cur = s.cur + 1, !.stray = Stored(s, "execute_command", s.cur)]

(* The line has been read; memset clears shell_size bytes, whatever there is. *)
Emptied(s) == [s EXCEPT !.cur = 0, !.stray = IF s.size = 0 THEN s.stray ELSE Stored(s, "memset", s.size - 1)]
=============================================================================
