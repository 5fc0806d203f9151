---------------------------- MODULE KernelProofs ----------------------------
(***************************************************************************)
(* Interrupts find what they need, and the line stays in its buffer.        *)
(*                                                                         *)
(* What is on the stack is described by the statements that may follow one  *)
(* another in kmain and in a handler, and everything else by the statement  *)
(* each of them has reached.                                                *)
(***************************************************************************)
EXTENDS Kernel, TLAPS

(* The body of enable_pit and of enable_apic, executed with interrupts off. *)
TimerWords ==
  {Do("MAYBE_CLI"), Do("MAYBE_STI"), Do("pit_init"), Do("calibrate"), Do("enable_apic"),
   <<"unmask", "pit">>, <<"register", "pit">>, <<"source", "pit">>,
   <<"register", "timer">>, <<"mask", "pit">>, <<"unregister", "pit">>, <<"source", "tsc">>}

(* The statements of kmain, those up to sti and those after it. *)
BootWords == TimerWords \union {<<"unmask", "keyboard">>, <<"register", "keyboard">>, Do("sti")}

OpenWords ==
  {Do("interrupts_enabled"), Do("init_ahci"), Do("enable_msi"), <<"register", "ahci">>,
   Do("abar"), Do("ghc"), Do("send_cmd"), Do("enabled"), Do("shell_cur"), Do("shell_size"),
   Do("shell_cmd"), Do("check"), Do("hlt"), Do("again"), Do("shutdown")}

(* The statements of a handler: those of a command, and those that are      *)
(* reached with interrupts on if a command turned them on.                  *)
CommandWords == TimerWords \union {Do("kexit"), Do("enable_pit")}

ReturnWords == {Do("fini"), Do("eoi"), Do("iret")}

Words(f) ==
  IF f = 1 THEN BootWords \union OpenWords
  ELSE CommandWords \union ReturnWords \union {Do("kb_handle_key")}

Open(h) == h \in OpenWords \union ReturnWords

(* What may follow what, in the functions that set up the timer. *)
TimerFollows(a, b) ==
  /\ a = Do("MAYBE_CLI") =>
       b \in {Do("MAYBE_CLI"), Do("MAYBE_STI"), Do("pit_init"), Do("calibrate"), <<"register", "timer">>}
  /\ a = Do("pit_init") => b = <<"unmask", "pit">>
  /\ a = <<"unmask", "pit">> => b = <<"register", "pit">>
  /\ a = <<"register", "pit">> => b = <<"source", "pit">>
  /\ a \in {<<"source", "pit">>, <<"source", "tsc">>} => b = Do("MAYBE_STI")
  /\ a = <<"register", "timer">> => b = <<"mask", "pit">>
  /\ a = <<"mask", "pit">> => b = <<"unregister", "pit">>
  /\ a = <<"unregister", "pit">> => b = <<"source", "tsc">>

(* In kmain. *)
KmainFollows(a, b) ==
  /\ TimerFollows(a, b)
  /\ a = <<"unmask", "keyboard">> => b = <<"register", "keyboard">>
  /\ a = <<"register", "keyboard">> => b = Do("MAYBE_CLI")
  /\ a = Do("MAYBE_STI") => b \in {Do("enable_apic"), Do("sti")}
  /\ a \in {Do("enable_apic"), Do("calibrate")} => b = Do("sti")
  /\ a = Do("sti") => b = Do("interrupts_enabled")
  /\ a = Do("interrupts_enabled") => b = Do("init_ahci")
  /\ a \in {Do("init_ahci"), Do("send_cmd")} => b = Do("enabled")
  /\ a = Do("enable_msi") => b = <<"register", "ahci">>
  /\ a = <<"register", "ahci">> => b = Do("abar")
  /\ a = Do("abar") => b = Do("ghc")
  /\ a = Do("ghc") => b = Do("send_cmd")
  /\ a = Do("enabled") => b = Do("shell_cur")
  /\ a = Do("shell_cur") => b = Do("shell_size")
  /\ a = Do("shell_size") => b = Do("shell_cmd")
  /\ a = Do("shell_cmd") => b = Do("check")
  /\ a = Do("hlt") => b \in {Do("check"), Do("again")}
  /\ a \notin {Do("check"), Do("again"), Do("shutdown")}

(* In a handler. *)
HandlerFollows(a, b) ==
  /\ TimerFollows(a, b)
  /\ a \in {Do("MAYBE_STI"), Do("enable_apic"), Do("enable_pit"), Do("calibrate"), Do("kexit")} => b = Do("fini")
  /\ a \in {Do("kb_handle_key"), Do("fini")} => b = Do("eoi")
  /\ a = Do("eoi") => b = Do("iret")
  /\ a # Do("iret")

Follows(f, a, b) == IF f = 1 THEN KmainFollows(a, b) ELSE HandlerFollows(a, b)

Last(f) == IF f = 1 THEN {Do("check"), Do("again"), Do("shutdown")} ELSE {Do("iret")}

Path(s, f) ==
  /\ s \in Seq(Words(f))
  /\ s # <<>>
  /\ s[Len(s)] \in Last(f)
  /\ \A i \in 1 .. (Len(s) - 1) : Follows(f, s[i], s[i + 1])

StackOK(st) ==
  /\ st \in Seq(Seq(Words(1) \union Words(2)))
  /\ st # <<>>
  /\ \A f \in 1 .. Len(st) : Path(st[f], f)
  /\ \A f \in 1 .. (Len(st) - 1) : Open(st[f][1])

Reading == devices.pressed - (IF devices.key = "none" THEN 0 ELSE 1)

(* What the statements that are reached say of the rest. *)
Top == stack[Frame][1]
Kmain == stack[1][1]

(* Before interrupts_enabled is set; before the keyboard has a handler; in a *)
(* command; while init_shell has set the cursor but not the buffer.          *)
Booting(w) == w \in BootWords \union {Do("interrupts_enabled")}
Unready(w) == w \in {<<"unmask", "keyboard">>, <<"register", "keyboard">>}
Commanding(w) == w \in CommandWords \union {Do("fini")}
InShell(w) == w \in {Do("shell_size"), Do("shell_cmd")}

Interrupts ==
  /\ ~Open(Top) => ~cpu.iflag
  /\ Booting(Kmain) => ~kernel_config.interrupts_enabled
  /\ ~Unready(Kmain) => "keyboard" \in isr_handler_table

(* The disk controller. *)
Disk ==
  /\ "ahci" \in apic.irr => devices.ghc
  /\ Kmain \in {Do("abar"), Do("ghc")} \/ devices.ghc => "ahci" \in isr_handler_table
  /\ Kmain = Do("ghc") \/ devices.ghc => devices.abar

(* The PIT: without a handler it may interrupt only once it is not used. *)
Pit ==
  /\ "pit" \in apic.unmasked \union apic.irr =>
       \/ "pit" \in isr_handler_table
       \/ kernel_config.timer_source = {"tsc"}
       \/ Top \in {<<"register", "pit">>, <<"source", "tsc">>}
  /\ Top = <<"source", "pit">> => "pit" \in isr_handler_table

(* A handler can be interrupted only after a command, which took a key. *)
Nesting ==
  /\ 0 <= Reading
  /\ Frame - 2 <= Reading
  /\ cpu.iflag \/ (Frame > 1 /\ Commanding(Top)) => Frame - 1 <= Reading

(* The handler of a key is interrupted by none but the disk's, which is not *)
(* interrupted itself.                                                      *)
Handling(w) == Commanding(w) \/ w = Do("kb_handle_key")

Service ==
  /\ \A f \in 2 .. Frame : Handling(stack[f][1]) => "keyboard" \in apic.isr
  /\ \A f \in 2 .. (Frame - 1) : Handling(stack[f][1]) =>
       /\ f = Frame - 1 /\ ~cpu.iflag /\ Top \in {Do("eoi"), Do("iret")}
       /\ Top = Do("eoi") => "ahci" \in apic.isr

(* A line has been ended, and not yet emptied. *)
Ended == \E f \in 2 .. Frame : Commanding(stack[f][1])

Below == <<"del_char", "below">> \in shell.stray

(* The line, unless a key was handled half way through init_shell. *)
LineOK ==
  /\ Service
  /\ shell.cur < 0 => Below
  /\ ~early =>
       /\ Ended \/ shell.cur <= shell.capacity
       /\ Kmain # Do("shell_cmd") => shell.size = shell.capacity
       /\ Kmain = Do("shell_cmd") => shell.size = Line
       /\ InShell(Kmain) => shell.cur = 0 /\ ~Ended

KernelInv ==
  /\ HandlersAreReady
  /\ LineStaysInBuffer
  /\ Alive => StackOK(stack) /\ Interrupts /\ Disk /\ Pit /\ Nesting /\ LineOK

-----------------------------------------------------------------------------
(* The stack. *)

(* The rest of a frame is a path if there is a rest. *)
LEMMA PathTail ==
  ASSUME NEW f \in Nat, NEW s, Path(s, f), s[1] \notin Last(f)
  PROVE  /\ Path(Tail(s), f) /\ Follows(f, s[1], Tail(s)[1]) /\ Len(s) > 1
         /\ Tail(s)[1] = s[2] /\ s[1] \in Words(f) /\ s[2] \in Words(f)
<1>1. s \in Seq(Words(f)) /\ Len(s) \in Nat /\ Len(s) > 1 /\ s[Len(s)] \in Last(f)
  BY DEF Path
<1> DEFINE t == Tail(s)
<1>2. t \in Seq(Words(f)) /\ Len(t) = Len(s) - 1 /\ \A i \in 1 .. Len(t) : t[i] = s[i + 1]
  BY <1>1
<1> HIDE DEF t
<1>3. t # <<>> /\ t[Len(t)] = s[Len(s)] /\ t[1] = s[2]
  BY <1>1, <1>2
<1>4. \A i \in 1 .. (Len(t) - 1) : Follows(f, t[i], t[i + 1])
  <2> SUFFICES ASSUME NEW i \in 1 .. (Len(t) - 1) PROVE Follows(f, t[i], t[i + 1])
    OBVIOUS
  <2>1. i + 1 \in 1 .. (Len(s) - 1) /\ t[i] = s[i + 1] /\ t[i + 1] = s[(i + 1) + 1]
    BY <1>1, <1>2, SMTT(30), SMTT(60)
  <2> QED
    BY <2>1 DEF Path
<1>5. Follows(f, s[1], s[2]) /\ s[1] \in Words(f) /\ s[2] \in Words(f)
  <2>1. 1 \in 1 .. (Len(s) - 1) /\ 1 + 1 = 2
    BY <1>1
  <2>2. Follows(f, s[1], s[1 + 1])
    BY <2>1 DEF Path
  <2> QED
    BY <1>1, <2>1, <2>2
<1> QED
  BY <1>1, <1>2, <1>3, <1>4, <1>5 DEF Path, t

(* A body put before a path is one if the first statement of the path may   *)
(* follow the last of the body.                                             *)
Body(b, f) ==
  /\ b \in Seq(Words(f))
  /\ b # <<>>
  /\ \A i \in 1 .. (Len(b) - 1) : Follows(f, b[i], b[i + 1])

(* A called body in front of the rest of a function is a path through the   *)
(* function.                                                                *)
LEMMA PathBefore ==
  ASSUME NEW f \in Nat, NEW b, Body(b, f), NEW s, Path(s, f), Follows(f, b[Len(b)], s[1])
  PROVE  Path(b \o s, f) /\ (b \o s)[1] = b[1]
<1> DEFINE t == b \o s
<1>1. b \in Seq(Words(f)) /\ s \in Seq(Words(f)) /\ Len(b) \in Nat /\ Len(s) \in Nat /\ Len(b) > 0 /\ Len(s) > 0
  BY DEF Body, Path
<1>2. /\ t \in Seq(Words(f)) /\ Len(t) = Len(b) + Len(s)
      /\ \A i \in 1 .. Len(b) : t[i] = b[i]
      /\ \A i \in (Len(b) + 1) .. (Len(b) + Len(s)) : t[i] = s[i - Len(b)]
  BY <1>1
<1> HIDE DEF t
<1>3. t # <<>> /\ t[Len(t)] = s[Len(s)] /\ t[1] = b[1]
  <2>1. t # <<>>
    BY <1>1, <1>2
  <2>2. /\ Len(t) \in (Len(b) + 1) .. (Len(b) + Len(s)) /\ Len(t) - Len(b) = Len(s)
        /\ 1 \in 1 .. Len(b)
    <3>1. Len(t) = Len(b) + Len(s)
      BY <1>2, Zenon
    <3> QED
      BY <1>1, <3>1
  <2>3. t[Len(t)] = s[Len(t) - Len(b)] /\ t[1] = b[1]
    BY <1>2, <2>2, Zenon
  <2> QED
    BY <2>1, <2>2, <2>3, Zenon
<1>4. ASSUME NEW i \in 1 .. (Len(t) - 1) PROVE Follows(f, t[i], t[i + 1])
  <2>1. CASE i < Len(b)
    <3>1. i \in 1 .. (Len(b) - 1) /\ t[i] = b[i] /\ t[i + 1] = b[i + 1]
      BY <1>1, <1>2, <2>1
    <3> QED
      BY <3>1 DEF Body
  <2>2. CASE i = Len(b)
    <3>1. t[i] = b[Len(b)] /\ t[i + 1] = s[1]
      BY <1>1, <1>2, <2>2
    <3> QED
      BY <3>1
  <2>3. CASE i > Len(b)
    <3>1. i - Len(b) \in 1 .. (Len(s) - 1) /\ t[i] = s[i - Len(b)] /\ t[i + 1] = s[(i - Len(b)) + 1]
      BY <1>1, <1>2, <2>3
    <3> QED
      BY <3>1 DEF Path
  <2> QED
    BY <1>1, <2>1, <2>2, <2>3
<1> QED
  BY <1>2, <1>3, <1>4, Zenon DEF Path, t

(* Two bodies, one after the other. *)
Joined(t, b, s) == t = b \o s

(* Two bodies, one after the other, are a body. *)
LEMMA BodyJoined ==
  ASSUME NEW f \in Nat, NEW b, Body(b, f), NEW s, Body(s, f), Follows(f, b[Len(b)], s[1]), NEW t, Joined(t, b, s)
  PROVE  Body(t, f) /\ t[1] = b[1] /\ t[Len(t)] = s[Len(s)]
<1>1. b \in Seq(Words(f)) /\ s \in Seq(Words(f)) /\ Len(b) \in Nat /\ Len(s) \in Nat /\ Len(b) > 0 /\ Len(s) > 0
  BY DEF Body
<1>2. /\ t \in Seq(Words(f)) /\ Len(t) = Len(b) + Len(s)
      /\ \A i \in 1 .. Len(b) : t[i] = b[i]
      /\ \A i \in (Len(b) + 1) .. (Len(b) + Len(s)) : t[i] = s[i - Len(b)]
  BY <1>1 DEF Joined
<1>3. t # <<>> /\ t[Len(t)] = s[Len(s)] /\ t[1] = b[1]
  <2>1. t # <<>>
    BY <1>1, <1>2
  <2>2. /\ Len(t) \in (Len(b) + 1) .. (Len(b) + Len(s)) /\ Len(t) - Len(b) = Len(s)
        /\ 1 \in 1 .. Len(b)
    <3>1. Len(t) = Len(b) + Len(s)
      BY <1>2, Zenon
    <3> QED
      BY <1>1, <3>1
  <2>3. t[Len(t)] = s[Len(t) - Len(b)] /\ t[1] = b[1]
    BY <1>2, <2>2, Zenon
  <2> QED
    BY <2>1, <2>2, <2>3, Zenon
<1>4. ASSUME NEW i \in 1 .. (Len(t) - 1) PROVE Follows(f, t[i], t[i + 1])
  <2>1. CASE i < Len(b)
    <3>1. i \in 1 .. (Len(b) - 1) /\ t[i] = b[i] /\ t[i + 1] = b[i + 1]
      BY <1>1, <1>2, <2>1
    <3> QED
      BY <3>1 DEF Body
  <2>2. CASE i = Len(b)
    <3>1. t[i] = b[Len(b)] /\ t[i + 1] = s[1]
      BY <1>1, <1>2, <2>2, SMTT(30), SMTT(60)
    <3> QED
      BY <3>1
  <2>3. CASE i > Len(b)
    <3>1. i - Len(b) \in 1 .. (Len(s) - 1) /\ t[i] = s[i - Len(b)] /\ t[i + 1] = s[(i - Len(b)) + 1]
      BY <1>1, <1>2, <2>3
    <3> QED
      BY <3>1 DEF Body
  <2> QED
    BY <1>1, <2>1, <2>2, <2>3
<1> QED
  BY <1>2, <1>3, <1>4 DEF Body

(* The last statement of a frame is its last. *)
LEMMA PathLast ==
  ASSUME NEW f \in Nat, NEW s, Path(s, f), s[1] \in Last(f)
  PROVE  Len(s) = 1 /\ Tail(s) = <<>>
<1> DEFINE n == Len(s)
<1>1. s \in Seq(Words(f)) /\ n \in Nat /\ n > 0
  BY DEF Path
<1>2. ASSUME n > 1 PROVE FALSE
  <2>1. 1 \in 1 .. (n - 1)
    BY <1>1, <1>2
  <2>2. Follows(f, s[1], s[1 + 1])
    BY <2>1 DEF Path
  <2>3. \A a, b : KmainFollows(a, b) => a \notin {Do("check"), Do("again"), Do("shutdown")}
    BY DEF KmainFollows
  <2>4. \A a, b : HandlerFollows(a, b) => a \notin {Do("iret")}
    BY DEF HandlerFollows
  <2> QED
    BY <2>2, <2>3, <2>4 DEF Follows, Last
<1>3. n = 1
  <2> HIDE DEF n
  <2> QED
    BY <1>1, <1>2
<1>4. Tail(s) \in Seq(Words(f)) /\ Len(Tail(s)) = 0
  BY <1>1, <1>3
<1>5. \A t \in Seq(Words(f)) : t # <<>> => Len(t) \in Nat \ {0}
  OBVIOUS
<1>6. Tail(s) = <<>>
  BY <1>4, <1>5, Zenon
<1> QED
  BY <1>3, <1>6

(* The bodies of the functions that set up the timer. *)
LEMMA TimerBodies ==
  ASSUME NEW f \in Nat
  PROVE  /\ Body(enable_pit, f) /\ enable_pit[1] = Do("MAYBE_CLI") /\ enable_pit[Len(enable_pit)] = Do("MAYBE_STI")
         /\ Body(UseTsc, f) /\ UseTsc[1] = <<"register", "timer">> /\ UseTsc[Len(UseTsc)] = Do("MAYBE_STI")
<1>1. /\ enable_pit \in Seq(TimerWords) /\ Len(enable_pit) = 6
      /\ enable_pit[1] = Do("MAYBE_CLI") /\ enable_pit[2] = Do("pit_init") /\ enable_pit[3] = <<"unmask", "pit">>
      /\ enable_pit[4] = <<"register", "pit">> /\ enable_pit[5] = <<"source", "pit">>
      /\ enable_pit[6] = Do("MAYBE_STI")
  BY DEF enable_pit, TimerWords
<1>2. /\ UseTsc \in Seq(TimerWords) /\ Len(UseTsc) = 5
      /\ UseTsc[1] = <<"register", "timer">> /\ UseTsc[2] = <<"mask", "pit">> /\ UseTsc[3] = <<"unregister", "pit">>
      /\ UseTsc[4] = <<"source", "tsc">> /\ UseTsc[5] = Do("MAYBE_STI")
  BY DEF UseTsc, TimerWords
<1>3. TimerWords \subseteq Words(f)
  BY DEF Words, BootWords, CommandWords
<1>4. /\ Follows(f, Do("MAYBE_CLI"), Do("pit_init")) /\ Follows(f, Do("pit_init"), <<"unmask", "pit">>)
      /\ Follows(f, <<"unmask", "pit">>, <<"register", "pit">>) /\ Follows(f, <<"register", "pit">>, <<"source", "pit">>)
      /\ Follows(f, <<"source", "pit">>, Do("MAYBE_STI"))
  BY DEF Follows, KmainFollows, HandlerFollows, TimerFollows, Do
<1>5. /\ Follows(f, <<"register", "timer">>, <<"mask", "pit">>) /\ Follows(f, <<"mask", "pit">>, <<"unregister", "pit">>)
      /\ Follows(f, <<"unregister", "pit">>, <<"source", "tsc">>) /\ Follows(f, <<"source", "tsc">>, Do("MAYBE_STI"))
  BY DEF Follows, KmainFollows, HandlerFollows, TimerFollows, Do
<1>6. \A i \in 1 .. (Len(enable_pit) - 1) : Follows(f, enable_pit[i], enable_pit[i + 1])
  <2> SUFFICES ASSUME NEW i \in 1 .. 5 PROVE Follows(f, enable_pit[i], enable_pit[i + 1])
    BY <1>1
  <2>1. CASE i = 1
    <3>1. i + 1 = 2
      BY <2>1
    <3> QED
      BY <1>1, <1>4, <2>1, <3>1
  <2>2. CASE i = 2
    <3>1. i + 1 = 3
      BY <2>2
    <3> QED
      BY <1>1, <1>4, <2>2, <3>1, Zenon
  <2>3. CASE i = 3
    <3>1. i + 1 = 4
      BY <2>3
    <3> QED
      BY <1>1, <1>4, <2>3, <3>1, Zenon
  <2>4. CASE i = 4
    <3>1. i + 1 = 5
      BY <2>4
    <3> QED
      BY <1>1, <1>4, <2>4, <3>1, Zenon
  <2>5. CASE i = 5
    <3>1. i + 1 = 6
      BY <2>5
    <3> QED
      BY <1>1, <1>4, <2>5, <3>1, Zenon
  <2> QED
    BY <2>1, <2>2, <2>3, <2>4, <2>5
<1>7. \A i \in 1 .. (Len(UseTsc) - 1) : Follows(f, UseTsc[i], UseTsc[i + 1])
  <2> SUFFICES ASSUME NEW i \in 1 .. 4 PROVE Follows(f, UseTsc[i], UseTsc[i + 1])
    BY <1>2
  <2>1. CASE i = 1
    <3>1. i + 1 = 2
      BY <2>1
    <3> QED
      BY <1>2, <1>5, <2>1, <3>1, Zenon
  <2>2. CASE i = 2
    <3>1. i + 1 = 3
      BY <2>2
    <3> QED
      BY <1>2, <1>5, <2>2, <3>1, Zenon
  <2>3. CASE i = 3
    <3>1. i + 1 = 4
      BY <2>3
    <3> QED
      BY <1>2, <1>5, <2>3, <3>1, Zenon
  <2>4. CASE i = 4
    <3>1. i + 1 = 5
      BY <2>4
    <3> QED
      BY <1>2, <1>5, <2>4, <3>1, Zenon
  <2> QED
    BY <2>1, <2>2, <2>3, <2>4
<1>8. /\ enable_pit \in Seq(Words(f)) /\ enable_pit # <<>> /\ UseTsc \in Seq(Words(f)) /\ UseTsc # <<>>
  BY <1>1, <1>2, <1>3, SMTT(30), SMTT(60)
<1> QED
  BY <1>1, <1>2, <1>6, <1>7, <1>8 DEF Body

(* Only the frame on top changes. *)
Moved(st, st2) ==
  /\ StackOK(st2)
  /\ Len(st2) = Len(st)
  /\ \A f \in 1 .. (Len(st) - 1) : st2[f] = st[f]

(* Replacing what the running function has still to do keeps the stack      *)
(* sound.                                                                   *)
LEMMA NewTop ==
  ASSUME NEW st, StackOK(st), NEW s, Path(s, Len(st)), NEW st2, st2 = [st EXCEPT ![Len(st)] = s]
  PROVE  Moved(st, st2) /\ st2[Len(st)] = s
<1> DEFINE n == Len(st)
           W == Seq(Words(1) \union Words(2))
<1>1. st \in Seq(W) /\ n \in Nat /\ n > 0 /\ \A f \in 1 .. n : Path(st[f], f)
  BY DEF StackOK
<1>2. s \in W
  <2>1. s \in Seq(Words(n))
    BY DEF Path
  <2>2. Words(n) \subseteq Words(1) \union Words(2)
    BY DEF Words
  <2> QED
    BY <2>1, <2>2
<1> HIDE DEF W
<1>3. /\ st2 \in Seq(W) /\ Len(st2) = n /\ st2[n] = s
      /\ \A f \in 1 .. (n - 1) : st2[f] = st[f]
  BY <1>1, <1>2
<1> HIDE DEF n
<1>4. \A f \in 1 .. n : Path(st2[f], f)
  <2> SUFFICES ASSUME NEW f \in 1 .. n PROVE Path(st2[f], f)
    OBVIOUS
  <2>1. CASE f = n
    BY <1>3, <2>1 DEF n
  <2>2. CASE f # n
    <3>1. f \in 1 .. (n - 1)
      BY <1>1, <2>2
    <3> QED
      BY <1>1, <1>3, <3>1
  <2> QED
    BY <2>1, <2>2
<1>5. \A f \in 1 .. (n - 1) : Open(st2[f][1])
  BY <1>3, Zenon DEF StackOK, n
<1>6. st2 # <<>>
  BY <1>1, <1>3
<1> QED
  BY <1>3, <1>4, <1>5, <1>6, Zenon DEF StackOK, Moved, W, n

(* A statement that is executed. *)
LEMMA GoMoves ==
  ASSUME NEW st, StackOK(st), NEW st2, st2 = [st EXCEPT ![Len(st)] = Tail(st[Len(st)])],
         st[Len(st)][1] \notin Last(Len(st))
  PROVE  /\ Moved(st, st2)
         /\ Follows(Len(st), st[Len(st)][1], st2[Len(st)][1])
         /\ st2[Len(st)][1] \in Words(Len(st))
<1> DEFINE n == Len(st)
<1>1. n \in Nat /\ n > 0 /\ Path(st[n], n)
  <2>1. n \in Nat /\ n > 0
    BY SMTT(30), SMTT(60) DEF StackOK
  <2>2. \A f \in 1 .. n : Path(st[f], f)
    BY Zenon DEF StackOK
  <2> HIDE DEF n
  <2>3. n \in 1 .. n
    BY <2>1
  <2> QED
    BY <2>1, <2>2, <2>3, Zenon
<1>2. Path(Tail(st[n]), n) /\ Follows(n, st[n][1], Tail(st[n])[1]) /\ Tail(st[n])[1] \in Words(n)
  BY <1>1, PathTail
<1>3. Moved(st, st2) /\ st2[n] = Tail(st[n])
  BY <1>2, NewTop, Zenon
<1> QED
  BY <1>2, <1>3, Zenon

(* A statement that is replaced by the body of what it calls. *)
LEMMA CallMoves ==
  ASSUME NEW st, StackOK(st), NEW b, Body(b, Len(st)),
         NEW st2, st2 = [st EXCEPT ![Len(st)] = b \o Tail(st[Len(st)])],
         st[Len(st)][1] \notin Last(Len(st)),
         Follows(Len(st), b[Len(b)], st[Len(st)][2])
  PROVE  Moved(st, st2) /\ st2[Len(st)][1] = b[1]
<1> DEFINE n == Len(st)
<1>1. n \in Nat /\ n > 0 /\ Path(st[n], n)
  <2>1. n \in Nat /\ n > 0
    BY DEF StackOK
  <2>2. \A f \in 1 .. n : Path(st[f], f)
    BY Zenon DEF StackOK
  <2> HIDE DEF n
  <2>3. n \in 1 .. n
    BY <2>1
  <2> QED
    BY <2>1, <2>2, <2>3, Zenon
<1>2. Path(Tail(st[n]), n) /\ Tail(st[n])[1] = st[n][2]
  BY <1>1, PathTail
<1> DEFINE s == Tail(st[n])
<1>3. Follows(n, b[Len(b)], s[1])
  BY <1>2, Zenon
<1> HIDE DEF s, n
<1>4. Path(b \o s, n) /\ (b \o s)[1] = b[1]
  BY <1>1, <1>2, <1>3, PathBefore, Zenon DEF n, s
<1>5. Moved(st, st2) /\ st2[n] = b \o s
  BY <1>4, NewTop, ZenonT(60) DEF n, s
<1> QED
  BY <1>4, <1>5, Zenon DEF n

-----------------------------------------------------------------------------
(* The steps. *)

Control == StackOK(stack) /\ Interrupts /\ Disk /\ Pit /\ Nesting /\ LineOK

(* What a statement that does not change the number of frames leaves. *)
Stays ==
  /\ StackOK(stack')
  /\ Frame' = Frame
  /\ Frame = 1 => Kmain' = Top'
  /\ Frame # 1 => Kmain' = Kmain
  /\ \A f \in 2 .. Frame : f # Frame => stack'[f][1] = stack[f][1]

(* Where the processor is when it executes statement h. *)
Reached(h) ==
  /\ HandlersAreReady /\ LineStaysInBuffer /\ Control
  /\ fault = "none" /\ Alive
  /\ Frame \in Nat /\ Frame > 0
  /\ Top = h /\ h \in Words(Frame)
  /\ Frame = 1 => Kmain = h
  /\ Frame # 1 => Open(Kmain) /\ Kmain \in Words(1)

(* A statement that is about to be executed is one of its function. *)
LEMMA AtReached ==
  ASSUME KernelInv, NEW h, At(h)
  PROVE  Reached(h)
<1>1. HandlersAreReady /\ LineStaysInBuffer /\ Control /\ fault = "none" /\ Alive
  BY DEF KernelInv, At, Running, Alive, Control
<1>2. /\ stack \in Seq(Seq(Words(1) \union Words(2))) /\ stack # <<>>
      /\ \A f \in 1 .. Len(stack) : Path(stack[f], f)
      /\ \A f \in 1 .. (Len(stack) - 1) : Open(stack[f][1])
  BY <1>1 DEF Control, StackOK
<1>3. Frame \in Nat /\ Frame > 0 /\ Frame = Len(stack)
  BY <1>2 DEF Frame
<1>4. ASSUME NEW f \in 1 .. Frame PROVE stack[f] \in Seq(Words(f)) /\ stack[f] # <<>> /\ stack[f][1] \in Words(f)
  <2>1. stack[f] \in Seq(Words(f)) /\ stack[f] # <<>>
    BY <1>2, <1>3 DEF Path
  <2> QED
    BY <2>1
<1>5. Top = h
  <2>1. Head(stack[Frame]) = h /\ Frame \in 1 .. Frame
    BY <1>3 DEF At
  <2> QED
    BY <1>4, <2>1 DEF Top
<1>6. h \in Words(Frame) /\ Kmain \in Words(1) /\ (Frame = 1 => Kmain = h)
  BY <1>3, <1>4, <1>5 DEF Top, Kmain
<1>7. Frame # 1 => Open(Kmain)
  BY <1>2, <1>3 DEF Kmain
<1> QED
  BY <1>1, <1>3, <1>5, <1>6, <1>7 DEF Reached

(* What Moved says of the statements that are reached. *)
LEMMA MovedStays ==
  ASSUME StackOK(stack), Moved(stack, stack')
  PROVE  Stays
<1>1. Len(stack) \in Nat /\ Len(stack) > 0 /\ Len(stack') = Len(stack) /\ StackOK(stack')
  BY DEF StackOK, Moved
<1> QED
  BY <1>1 DEF Moved, Stays, Frame, Kmain, Top

(* A statement that is executed. *)
LEMMA GoStays ==
  ASSUME NEW h, Reached(h), Go, h \notin Last(Frame)
  PROVE  Stays /\ Follows(Frame, h, Top') /\ Top' \in Words(Frame) /\ ticked' = FALSE
<1>1. StackOK(stack) /\ stack \in Seq(Seq(Words(1) \union Words(2))) /\ Top = h
  BY Zenon DEF Reached, Control, StackOK
<1>2. stack[Frame] \in Seq(Words(Frame)) /\ Frame = Len(stack)
  <2>1. Frame \in 1 .. Len(stack) /\ Frame = Len(stack)
    BY <1>1 DEF Reached, Frame
  <2> QED
    BY <1>1, <2>1 DEF StackOK, Path
<1>3. <<>> \o Tail(stack[Frame]) = Tail(stack[Frame])
  <2>1. stack[Frame] # <<>>
    BY <1>1, <1>2 DEF StackOK, Path, Reached
  <2> QED
    BY <1>2, <2>1
<1>4. stack' = [stack EXCEPT ![Len(stack)] = Tail(stack[Len(stack)])]
  BY <1>1, <1>2, <1>3 DEF Go, Call, Reached
<1>5. stack[Len(stack)][1] \notin Last(Len(stack))
  BY <1>1, <1>2 DEF Top
<1>6. /\ Moved(stack, stack')
      /\ Follows(Len(stack), stack[Len(stack)][1], stack'[Len(stack)][1])
      /\ stack'[Len(stack)][1] \in Words(Len(stack))
  BY <1>1, <1>4, <1>5, GoMoves, Zenon
<1>7. Len(stack') = Len(stack)
  BY <1>6 DEF Moved
<1> QED
  BY <1>1, <1>2, <1>6, <1>7, MovedStays, Zenon DEF Top, Frame, Go, Call

(* The types, one by one. *)
Cpus == [iflag : BOOLEAN, hlt : BOOLEAN]

Apics == [on : BOOLEAN, irr : SUBSET Vectors, isr : SUBSET Vectors, unmasked : SUBSET {"keyboard", "pit"}]

Configs ==
  [kexit : BOOLEAN, interrupts_enabled : BOOLEAN, timer_source : SUBSET {"pit", "tsc"}, tsc_freq : BOOLEAN]

Devices ==
  [pit : {"off", "rate", "once"}, key : Keys \union {"none"}, pressed : 0 .. MaxKeys,
   msi : BOOLEAN, abar : BOOLEAN, ghc : BOOLEAN, busy : BOOLEAN]

Strays == SUBSET (Writers \X {"below", "above"})

Shells == [enabled : BOOLEAN, capacity : Nat, size : Nat, cur : Int, stray : Strays]

DataTypes ==
  /\ machine \in Machines
  /\ cpu \in Cpus
  /\ apic \in Apics
  /\ isr_handler_table \subseteq Vectors
  /\ kernel_config \in Configs
  /\ devices \in Devices
  /\ shell \in Shells
  /\ ticked \in BOOLEAN
  /\ early \in BOOLEAN

(* What is left to show of a step. *)
Good ==
  /\ DataTypes
  /\ Control
  /\ fault \in {"none", "timer", "pit", "push_char", "del_char", "execute_command", "memset"}
  /\ fault = "pit" => kernel_config.timer_source = {"tsc"}
  /\ LineStaysInBuffer

(* The part of the invariant that the steps establish implies the whole. *)
LEMMA GoodInv ==
  ASSUME Good
  PROVE  KernelInv
<1>1. Frame <= MaxFrame
  <2>1. devices.pressed \in 0 .. MaxKeys /\ Frame - 2 <= Reading /\ Frame \in Nat
    BY DEF Good, DataTypes, Devices, Control, Nesting, StackOK, Frame
  <2> QED
    BY <2>1, KernelAssumption DEF Reading, MaxFrame
<1>2. \A f \in 1 .. Frame : stack[f] # <<>>
  BY DEF Good, Control, StackOK, Path, Frame
<1>3. TypeOK
  BY <1>1, <1>2, Zenon DEF Good, DataTypes, Cpus, Apics, Configs, Devices, Shells, Strays, TypeOK, Vectors, Number
<1> QED
  BY <1>3, Zenon DEF Good, KernelInv, HandlersAreReady, LineStaysInBuffer, Control

(* When a statement is about to be executed the invariant holds. *)
LEMMA ReachedGood ==
  ASSUME NEW h, Reached(h)
  PROVE  Good
<1>1. DataTypes
  BY DEF Reached, HandlersAreReady, TypeOK, DataTypes, Cpus, Apics, Configs, Devices, Shells, Strays
<1> QED
  BY <1>1 DEF Reached, Good

-----------------------------------------------------------------------------
(* What a statement must not disturb for each part of the invariant to hold *)
(* after it.                                                                *)

(* What a step must leave alone to keep what is known of the interrupt      *)
(* flag.                                                                    *)
LEMMA InterruptsKept ==
  ASSUME NEW h, Reached(h), Stays,
         cpu'.iflag => Open(Top'),
         kernel_config'.interrupts_enabled => kernel_config.interrupts_enabled,
         "keyboard" \in isr_handler_table => "keyboard" \in isr_handler_table',
         Frame = 1 => (Booting(Top') => Booting(h)) /\ (Unready(h) => Unready(Top'))
  PROVE  Interrupts'
BY DEF Reached, Control, Interrupts, Stays

(* What a step must leave alone to keep what is known of the disk's         *)
(* interrupt.                                                               *)
LEMMA DiskKept ==
  ASSUME NEW h, Reached(h), Stays,
         "ahci" \in apic'.irr => "ahci" \in apic.irr,
         "ahci" \in isr_handler_table => "ahci" \in isr_handler_table',
         devices'.ghc <=> devices.ghc,
         devices.abar => devices'.abar,
         Frame = 1 => Top' \notin {Do("abar"), Do("ghc")}
  PROVE  Disk'
<1>1. Kmain' \in {Do("abar"), Do("ghc")} => Kmain \in {Do("abar"), Do("ghc")}
  BY DEF Stays
<1>2. Kmain' = Do("ghc") => Kmain = Do("ghc")
  BY DEF Stays
<1> QED
  BY <1>1, <1>2 DEF Reached, Control, Disk

(* What a step must leave alone to keep what is known of the PIT's          *)
(* interrupt.                                                               *)
LEMMA PitKept ==
  ASSUME NEW h, Reached(h), Stays,
         "pit" \in apic'.unmasked \union apic'.irr => "pit" \in apic.unmasked \union apic.irr,
         "pit" \in isr_handler_table => "pit" \in isr_handler_table',
         kernel_config.timer_source = {"tsc"} => kernel_config'.timer_source = {"tsc"},
         h \notin {<<"register", "pit">>, <<"source", "tsc">>},
         Top' # <<"source", "pit">>
  PROVE  Pit'
<1>1. Top = h
  BY DEF Reached
<1>2. Top \notin {<<"register", "pit">>, <<"source", "tsc">>}
  BY <1>1
<1> QED
  BY <1>2 DEF Reached, Control, Pit

(* What a step must leave alone to keep what is known of nested handlers. *)
LEMMA NestingKept ==
  ASSUME NEW h, Reached(h), Stays,
         Reading <= Reading', Reading \in Int, Reading' \in Int,
         cpu'.iflag => cpu.iflag,
         Frame > 1 /\ Commanding(Top') => Commanding(h)
  PROVE  Nesting'
BY DEF Reached, Control, Nesting, Stays

(* A statement leaves the type of what it does not assign. *)
LEMMA ReadingType ==
  ASSUME Good
  PROVE  Reading \in Int
BY KernelAssumption DEF Good, DataTypes, Devices, Reading

-----------------------------------------------------------------------------
(* The steps. *)

(* Where a statement that is executed leaves the processor. *)
Executed(h) ==
  /\ Reached(h) /\ h \in Words(Frame) /\ fault = "none" /\ Good
  /\ Stays /\ Follows(Frame, h, Top') /\ Top' \in Words(Frame) /\ ticked' = FALSE

(* Executing a statement leaves a sound stack, with the rest of the         *)
(* function on top.                                                         *)
LEMMA AtExecuted ==
  ASSUME KernelInv, NEW h, At(h), Go, h \notin Last(1) \union Last(2)
  PROVE  Executed(h)
<1>1. Reached(h)
  BY AtReached
<1>2. h \notin Last(Frame)
  BY DEF Last
<1> QED
  BY <1>1, <1>2, GoStays, ReachedGood, Zenon DEF Executed, Reached

(* The statements by their names, and by what the invariant says of them. *)
Name(w) == w[1]
Of(w) == w[2]

(* The names of the statements differ. *)
LEMMA Names ==
  /\ Name(Do("MAYBE_CLI")) = "MAYBE_CLI"
  /\ Name(Do("MAYBE_STI")) = "MAYBE_STI"
  /\ Name(Do("pit_init")) = "pit_init"
  /\ Name(Do("calibrate")) = "calibrate"
  /\ Name(Do("enable_apic")) = "enable_apic"
  /\ Name(Do("sti")) = "sti"
  /\ Name(Do("interrupts_enabled")) = "interrupts_enabled"
  /\ Name(Do("init_ahci")) = "init_ahci"
  /\ Name(Do("enable_msi")) = "enable_msi"
  /\ Name(Do("abar")) = "abar"
  /\ Name(Do("ghc")) = "ghc"
  /\ Name(Do("send_cmd")) = "send_cmd"
  /\ Name(Do("enabled")) = "enabled"
  /\ Name(Do("shell_cur")) = "shell_cur"
  /\ Name(Do("shell_size")) = "shell_size"
  /\ Name(Do("shell_cmd")) = "shell_cmd"
  /\ Name(Do("check")) = "check"
  /\ Name(Do("hlt")) = "hlt"
  /\ Name(Do("again")) = "again"
  /\ Name(Do("shutdown")) = "shutdown"
  /\ Name(Do("kexit")) = "kexit"
  /\ Name(Do("enable_pit")) = "enable_pit"
  /\ Name(Do("fini")) = "fini"
  /\ Name(Do("eoi")) = "eoi"
  /\ Name(Do("iret")) = "iret"
  /\ Name(Do("kb_handle_key")) = "kb_handle_key"
  /\ Name(<<"unmask", "pit">>) = "unmask" /\ Of(<<"unmask", "pit">>) = "pit"
  /\ Name(<<"register", "pit">>) = "register" /\ Of(<<"register", "pit">>) = "pit"
  /\ Name(<<"source", "pit">>) = "source" /\ Of(<<"source", "pit">>) = "pit"
  /\ Name(<<"register", "timer">>) = "register" /\ Of(<<"register", "timer">>) = "timer"
  /\ Name(<<"mask", "pit">>) = "mask" /\ Of(<<"mask", "pit">>) = "pit"
  /\ Name(<<"unregister", "pit">>) = "unregister" /\ Of(<<"unregister", "pit">>) = "pit"
  /\ Name(<<"source", "tsc">>) = "source" /\ Of(<<"source", "tsc">>) = "tsc"
  /\ Name(<<"unmask", "keyboard">>) = "unmask" /\ Of(<<"unmask", "keyboard">>) = "keyboard"
  /\ Name(<<"register", "keyboard">>) = "register" /\ Of(<<"register", "keyboard">>) = "keyboard"
  /\ Name(<<"register", "ahci">>) = "register" /\ Of(<<"register", "ahci">>) = "ahci"
<1>1. Name(Do("MAYBE_CLI")) = "MAYBE_CLI" /\ Name(Do("MAYBE_STI")) = "MAYBE_STI" /\ Name(Do("pit_init")) = "pit_init" /\ Name(Do("calibrate")) = "calibrate"
  BY DEF Name, Do
<1>2. Name(Do("enable_apic")) = "enable_apic" /\ Name(Do("sti")) = "sti" /\ Name(Do("interrupts_enabled")) = "interrupts_enabled" /\ Name(Do("init_ahci")) = "init_ahci"
  BY DEF Name, Do
<1>3. Name(Do("enable_msi")) = "enable_msi" /\ Name(Do("abar")) = "abar" /\ Name(Do("ghc")) = "ghc" /\ Name(Do("send_cmd")) = "send_cmd"
  BY DEF Name, Do
<1>4. Name(Do("enabled")) = "enabled" /\ Name(Do("shell_cur")) = "shell_cur" /\ Name(Do("shell_size")) = "shell_size" /\ Name(Do("shell_cmd")) = "shell_cmd"
  BY DEF Name, Do
<1>5. Name(Do("check")) = "check" /\ Name(Do("hlt")) = "hlt" /\ Name(Do("again")) = "again" /\ Name(Do("shutdown")) = "shutdown"
  BY DEF Name, Do
<1>6. Name(Do("kexit")) = "kexit" /\ Name(Do("enable_pit")) = "enable_pit" /\ Name(Do("fini")) = "fini" /\ Name(Do("eoi")) = "eoi"
  BY DEF Name, Do
<1>7. Name(Do("iret")) = "iret" /\ Name(Do("kb_handle_key")) = "kb_handle_key"
  BY DEF Name, Do
<1>8. Name(<<"unmask", "pit">>) = "unmask" /\ Of(<<"unmask", "pit">>) = "pit" /\ Name(<<"register", "pit">>) = "register" /\ Of(<<"register", "pit">>) = "pit"
  BY DEF Name, Of
<1>9. Name(<<"source", "pit">>) = "source" /\ Of(<<"source", "pit">>) = "pit" /\ Name(<<"register", "timer">>) = "register" /\ Of(<<"register", "timer">>) = "timer"
  BY DEF Name, Of
<1>10. Name(<<"mask", "pit">>) = "mask" /\ Of(<<"mask", "pit">>) = "pit" /\ Name(<<"unregister", "pit">>) = "unregister" /\ Of(<<"unregister", "pit">>) = "pit"
  BY DEF Name, Of
<1>11. Name(<<"source", "tsc">>) = "source" /\ Of(<<"source", "tsc">>) = "tsc" /\ Name(<<"unmask", "keyboard">>) = "unmask" /\ Of(<<"unmask", "keyboard">>) = "keyboard"
  BY DEF Name, Of
<1>12. Name(<<"register", "keyboard">>) = "register" /\ Of(<<"register", "keyboard">>) = "keyboard" /\ Name(<<"register", "ahci">>) = "register" /\ Of(<<"register", "ahci">>) = "ahci"
  BY DEF Name, Of
<1> QED
  BY <1>1, <1>2, <1>3, <1>4, <1>5, <1>6, <1>7, <1>8, <1>9, <1>10, <1>11, <1>12, Zenon

(* The statements after which a function goes on. *)
LEMMA NotLast ==
  ASSUME NEW w \in {Do("pit_init"), Do("enable_msi"), Do("send_cmd"), Do("enabled"), Do("shell_cur"), Do("shell_size"),
                    Do("shell_cmd"), Do("hlt"), Do("kb_handle_key"), Do("fini"), Do("eoi")}
  PROVE  w \notin Last(1) \union Last(2)
<1>1. Name(w) \in {"pit_init", "enable_msi", "send_cmd", "enabled", "shell_cur", "shell_size",
                   "shell_cmd", "hlt", "kb_handle_key", "fini", "eoi"}
  BY Names
<1>2. Name(w) \notin {"check", "again", "shutdown", "iret"}
  BY <1>1
<1> QED
  BY <1>2, Names, Zenon DEF Last

(* What follows init_shell's assignments, and the statements of the loop. *)
LEMMA LoopWords ==
  ASSUME NEW w \in {Do("shell_cur"), Do("shell_size"), Do("shell_cmd"), Do("check"), Do("hlt"), Do("shutdown")}
  PROVE  /\ w \in OpenWords /\ w # Do("interrupts_enabled") /\ w \notin {Do("abar"), Do("ghc")}
         /\ w \in {Do("hlt"), Do("shutdown")} => ~InShell(w)
<1>1. Name(w) \in {"shell_cur", "shell_size", "shell_cmd", "check", "hlt", "shutdown"}
  BY Names, ZenonT(60)
<1>2. Name(w) \notin {"interrupts_enabled", "abar", "ghc"}
  BY <1>1
<1>3. w \in {Do("hlt"), Do("shutdown")} => Name(w) \notin {"shell_size", "shell_cmd"}
  <2>1. w \in {Do("hlt"), Do("shutdown")} => Name(w) \in {"hlt", "shutdown"}
    BY Names, ZenonT(60)
  <2> QED
    BY <2>1
<1>4. w \in OpenWords
  BY Zenon DEF OpenWords
<1>5. w # Do("interrupts_enabled") /\ w \notin {Do("abar"), Do("ghc")}
  BY <1>2, Names, ZenonT(60)
<1>6. w \in {Do("hlt"), Do("shutdown")} => ~InShell(w)
  BY <1>3, Names, ZenonT(60) DEF InShell
<1> QED
  BY <1>4, <1>5, <1>6, Zenon

(* The names of the statements of enable_pit and enable_apic. *)
LEMMA TimerNames ==
  ASSUME NEW w \in TimerWords
  PROVE  /\ Name(w) \in {"MAYBE_CLI", "MAYBE_STI", "pit_init", "calibrate", "enable_apic",
                         "unmask", "register", "source", "mask", "unregister"}
         /\ Name(w) \in {"unmask", "register"} => Of(w) \in {"pit", "timer"}
BY Names DEF TimerWords

(* The names of kmain's statements after sti. *)
LEMMA OpenNames ==
  ASSUME NEW w \in OpenWords
  PROVE  /\ Name(w) \in {"interrupts_enabled", "init_ahci", "enable_msi", "register", "abar", "ghc", "send_cmd",
                         "enabled", "shell_cur", "shell_size", "shell_cmd", "check", "hlt", "again", "shutdown"}
         /\ Name(w) = "register" => Of(w) = "ahci"
BY Names, SMTT(30), SMTT(60) DEF OpenWords

(* The names of the statements that end a handler. *)
LEMMA ReturnNames ==
  ASSUME NEW w \in ReturnWords
  PROVE  Name(w) \in {"fini", "eoi", "iret"}
BY Names DEF ReturnWords

(* What the statements of enable_pit and enable_apic have in common. *)
LEMMA TimerTraits ==
  ASSUME NEW w \in TimerWords
  PROVE  /\ ~Open(w) /\ Booting(w) /\ Commanding(w) /\ ~Unready(w) /\ ~InShell(w)
         /\ w \notin {Do("abar"), Do("ghc")}
<1>1. ~Open(w)
  BY TimerNames, OpenNames, ReturnNames DEF Open
<1>2. Booting(w) /\ Commanding(w)
  BY DEF Booting, Commanding, BootWords, CommandWords
<1> QED
  BY <1>1, <1>2, TimerNames, Names DEF Unready, InShell

(* What kmain's statements after sti have in common. *)
LEMMA OpenTraits ==
  ASSUME NEW w \in OpenWords
  PROVE  Open(w) /\ (w # Do("interrupts_enabled") => ~Booting(w)) /\ ~Commanding(w) /\ ~Unready(w)
         /\ w \notin {<<"register", "pit">>, <<"source", "tsc">>, <<"source", "pit">>}
<1>1. w \notin TimerWords
  BY TimerNames, OpenNames
<1>2. w \notin {<<"unmask", "keyboard">>, <<"register", "keyboard">>, Do("sti"), Do("kexit"), Do("enable_pit"), Do("fini"),
                <<"register", "pit">>, <<"source", "tsc">>, <<"source", "pit">>}
  BY OpenNames, Names
<1> QED
  BY <1>1, <1>2 DEF Open, Booting, Commanding, Unready, BootWords, CommandWords

(* What the statements that end a handler have in common. *)
LEMMA ReturnTraits ==
  ASSUME NEW w \in ReturnWords
  PROVE  Open(w) /\ (w # Do("fini") => ~Commanding(w))
         /\ w \notin {<<"register", "pit">>, <<"source", "tsc">>, <<"source", "pit">>}
<1>1. w \notin TimerWords
  BY TimerNames, ReturnNames
<1>2. w \notin {Do("kexit"), Do("enable_pit"), <<"register", "pit">>, <<"source", "tsc">>, <<"source", "pit">>}
  BY ReturnNames, Names, SMTT(30), SMTT(60)
<1> QED
  BY <1>1, <1>2 DEF Open, Commanding, CommandWords

(* No statement of a command is one of the handler around it. *)
LEMMA CommandTraits ==
  ASSUME NEW w, Commanding(w)
  PROVE  w \notin {Do("kb_handle_key"), Do("eoi"), Do("iret")}
<1>1. w \in TimerWords \/ w \in {Do("kexit"), Do("enable_pit"), Do("fini")}
  BY Zenon DEF Commanding, CommandWords
<1>2. Name(w) \notin {"kb_handle_key", "eoi", "iret"}
  BY <1>1, TimerNames, Names
<1> QED
  BY <1>2, Names, Zenon

(* A statement of the keyboard's handler has no other such handler below    *)
(* it.                                                                      *)
LEMMA HandlingKept ==
  ASSUME NEW h, Reached(h), Stays, Frame # 1, Handling(h), apic'.isr = apic.isr
  PROVE  Service' /\ (Ended' <=> Commanding(Top')) /\ (Ended <=> Commanding(h))
<1>1. Frame \in 2 .. Frame /\ Frame \in Nat /\ Frame' = Frame /\ Top = h /\ stack[Frame][1] = h /\ Service /\ Top' = stack'[Frame][1]
  BY DEF Reached, Stays, Control, LineOK, Top
<1>2. h \notin {Do("eoi"), Do("iret")}
  <2>1. Do("kb_handle_key") \notin {Do("eoi"), Do("iret")}
    BY Names
  <2> QED
    BY <2>1, CommandTraits DEF Handling
<1>3. \A f \in 2 .. (Frame - 1) : ~Handling(stack[f][1])
  BY <1>1, <1>2, Zenon DEF Service
<1>4. "keyboard" \in apic'.isr
  BY <1>1, Zenon DEF Service
<1>5. \A f \in 2 .. Frame : f # Frame => f \in 2 .. (Frame - 1) /\ stack'[f][1] = stack[f][1]
  BY <1>1 DEF Stays
<1>6. \A f \in 2 .. (Frame - 1) : f \in 2 .. Frame /\ f # Frame
  BY <1>1
<1>7. \A f \in 2 .. (Frame - 1) : ~Handling(stack'[f][1])
  BY <1>3, <1>5, <1>6, Zenon
<1>8. Service'
  BY <1>1, <1>4, <1>7, Zenon DEF Service
<1>9. Ended' <=> Commanding(Top')
  BY <1>1, <1>5, <1>7, Zenon DEF Ended, Handling
<1>10. Ended <=> Commanding(h)
  BY <1>1, <1>3, <1>5, Zenon DEF Ended, Handling
<1> QED
  BY <1>8, <1>9, <1>10

(* In kmain, uninterrupted, no key is being handled. *)
LEMMA NoHandling ==
  ASSUME Frame = 1
  PROVE  Service /\ ~Ended
<1>1. 2 .. Frame = {} /\ 2 .. (Frame - 1) = {}
  OBVIOUS
<1> QED
  BY <1>1, Zenon DEF Service, Ended

(* What a step must leave alone to keep the shell's line in its buffer. *)
LEMMA LineKept ==
  ASSUME NEW h, Reached(h), Stays,
         shell' = shell, early => early', early' \in BOOLEAN, apic'.isr = apic.isr,
         Frame = 1 => h # Do("shell_cmd") /\ ~InShell(Top'),
         Frame > 1 => Commanding(h) /\ Commanding(Top')
  PROVE  LineOK'
<1>1. Kmain' = Do("shell_cmd") <=> Kmain = Do("shell_cmd")
  BY DEF Reached, Stays, InShell
<1>2. InShell(Kmain') => InShell(Kmain)
  BY DEF Reached, Stays
<1>3. Service' /\ (Ended' <=> Ended)
  <2>1. CASE Frame = 1
    <3>1. Frame' = 1
      BY <2>1 DEF Stays
    <3>2. 2 .. Frame' = {} /\ 2 .. (Frame' - 1) = {}
      BY <3>1
    <3>3. Service' /\ ~Ended'
      BY <3>2, Zenon DEF Service, Ended
    <3> QED
      BY <2>1, <3>3, NoHandling
  <2>2. CASE Frame # 1
    <3>1. Commanding(h) /\ Commanding(Top')
      BY <2>2 DEF Reached
    <3> QED
      BY <2>2, <3>1, HandlingKept, Zenon DEF Handling
  <2> QED
    BY <2>1, <2>2
<1> QED
  BY <1>1, <1>2, <1>3, Zenon DEF Reached, Control, LineOK, Below

(* A step that does not touch the line. *)
LEMMA BufferKept ==
  ASSUME LineStaysInBuffer, shell' = shell, early' = early
  PROVE  LineStaysInBuffer'
BY Zenon DEF LineStaysInBuffer

(* ioapic_enable_irq keeps the invariant: the handler was registered        *)
(* before.                                                                  *)
LEMMA UnmaskStep ==
  ASSUME KernelInv, NEW v \in Vectors, ioapic_enable_irq(v)
  PROVE  Good'
<1> DEFINE h == <<"unmask", v>>
<1>1. Executed(h)
  <2>1. h \notin Last(1) \union Last(2)
    BY DEF Last, Do
  <2> QED
    BY <2>1, AtExecuted DEF ioapic_enable_irq
<1>3. Reached(h) /\ Stays /\ Follows(Frame, h, Top') /\ ticked' = FALSE
  BY <1>1 DEF Executed
<1>4. Good /\ fault = "none" /\ h \in Words(Frame)
  BY <1>1 DEF Executed
<1>5. v \in {"keyboard", "pit"} /\ (Frame # 1 => v = "pit")
  BY <1>4, Zenon DEF Words, BootWords, OpenWords, CommandWords, TimerWords, ReturnWords, Do
<1>6. Top' = <<"register", v>>
  BY <1>3, <1>5 DEF Follows, KmainFollows, HandlerFollows, TimerFollows
<1>7. /\ ~Open(h) /\ Booting(h) /\ (Frame # 1 => Commanding(h)) /\ h # Do("shell_cmd")
      /\ h \notin {<<"register", "pit">>, <<"source", "tsc">>}
  BY <1>5 DEF Open, Booting, Commanding, OpenWords, ReturnWords, BootWords, TimerWords, CommandWords, Do
<1>8. /\ ~InShell(Top') /\ Top' \notin {Do("abar"), Do("ghc")} /\ (Unready(h) => Unready(Top')) /\ Top' # <<"source", "pit">>
      /\ (v = "pit" => Top' = <<"register", "pit">>)
  BY <1>5, <1>6 DEF InShell, Unready, Do
<1>9. /\ apic'.irr = apic.irr /\ apic'.isr = apic.isr /\ apic'.unmasked = apic.unmasked \union {v} /\ UNCHANGED <<cpu, isr_handler_table, kernel_config, devices, shell, early, fault>>
  BY <1>4 DEF Good, DataTypes, Apics, ioapic_enable_irq
<1>10. DataTypes'
  <2>1. apic' \in Apics
    BY <1>4, <1>5 DEF Good, DataTypes, Apics, ioapic_enable_irq
  <2> QED
    BY <1>3, <1>4, <2>1, Zenon DEF Good, DataTypes, ioapic_enable_irq
<1>11. Interrupts'
  <2>1. ~cpu.iflag
    BY <1>3, <1>7, SMTT(30), SMTT(60) DEF Reached, Control, Interrupts
  <2> QED
    BY <1>3, <1>7, <1>8, <1>9, <2>1, InterruptsKept
<1>12. Disk'
  BY <1>3, <1>8, <1>9, DiskKept
<1>13. Pit'
  <2>1. CASE v = "pit"
    BY <1>8, <2>1 DEF Pit
  <2>2. CASE v # "pit"
    BY <1>3, <1>7, <1>8, <1>9, <2>2, PitKept, SMTT(30), SMTT(60)
  <2> QED
    BY <2>1, <2>2
<1>14. Nesting'
  <2>1. Reading' = Reading
    BY <1>9 DEF Reading
  <2> QED
    BY <1>3, <1>4, <1>7, <1>9, <2>1, NestingKept, ReadingType
<1>15. LineOK'
  <2>1. Frame # 1 => Commanding(Top')
    BY <1>5, <1>6 DEF Commanding, CommandWords, TimerWords
  <2>2. Frame > 1 => Frame # 1
    OBVIOUS
  <2> QED
    BY <1>3, <1>4, <1>7, <1>8, <1>9, <1>10, <2>1, <2>2, LineKept, ZenonT(60) DEF DataTypes
<1> QED
  BY <1>3, <1>4, <1>9, <1>10, <1>11, <1>12, <1>13, <1>14, <1>15, BufferKept DEF Good, Control, Stays

(* ioapic_disable_irq keeps the invariant. *)
LEMMA MaskStep ==
  ASSUME KernelInv, NEW v \in Vectors, ioapic_disable_irq(v)
  PROVE  Good'
<1> DEFINE h == <<"mask", v>>
<1>1. Executed(h)
  <2>1. h \notin Last(1) \union Last(2)
    BY DEF Last, Do
  <2> QED
    BY <2>1, AtExecuted DEF ioapic_disable_irq
<1>2. Reached(h) /\ Stays /\ Follows(Frame, h, Top') /\ ticked' = FALSE
  BY <1>1 DEF Executed
<1>3. Good /\ fault = "none" /\ h \in Words(Frame)
  BY <1>1 DEF Executed
<1>4. v = "pit"
  BY <1>3, Zenon DEF Words, BootWords, OpenWords, CommandWords, TimerWords, ReturnWords, Do
<1>5. Top' = <<"unregister", "pit">>
  BY <1>2, <1>4 DEF Follows, KmainFollows, HandlerFollows, TimerFollows
<1>6. /\ ~Open(h) /\ Booting(h) /\ Commanding(h) /\ h # Do("shell_cmd") /\ ~Unready(h)
      /\ h \notin {<<"register", "pit">>, <<"source", "tsc">>}
  BY <1>4 DEF Open, Booting, Commanding, Unready, OpenWords, ReturnWords, BootWords, TimerWords, CommandWords, Do
<1>7. ~InShell(Top') /\ Top' \notin {Do("abar"), Do("ghc")} /\ Top' # <<"source", "pit">>
  BY <1>5 DEF InShell, Do
<1>8. /\ apic'.irr = apic.irr /\ apic'.isr = apic.isr /\ apic'.unmasked = apic.unmasked \ {v} /\ apic' \in Apics
      /\ UNCHANGED <<cpu, isr_handler_table, kernel_config, devices, shell, early, fault>>
  BY <1>3 DEF Good, DataTypes, Apics, ioapic_disable_irq
<1>9. DataTypes'
  BY <1>2, <1>3, <1>8, Zenon DEF Good, DataTypes, ioapic_disable_irq
<1>10. Interrupts'
  <2>1. ~cpu.iflag
    BY <1>2, <1>6 DEF Reached, Control, Interrupts
  <2> QED
    BY <1>2, <1>6, <1>8, <2>1, InterruptsKept
<1>11. Disk'
  BY <1>2, <1>7, <1>8, DiskKept, SMTT(30), SMTT(60)
<1>12. Pit'
  BY <1>2, <1>6, <1>7, <1>8, PitKept
<1>13. Nesting'
  <2>1. Reading' = Reading
    BY <1>8 DEF Reading
  <2> QED
    BY <1>2, <1>3, <1>6, <1>8, <2>1, NestingKept, ReadingType
<1>14. LineOK'
  <2>1. Commanding(Top')
    BY <1>5 DEF Commanding, CommandWords, TimerWords
  <2> QED
    BY <1>2, <1>6, <1>7, <1>8, <1>9, <2>1, LineKept, ZenonT(60) DEF DataTypes
<1> QED
  BY <1>2, <1>3, <1>8, <1>9, <1>10, <1>11, <1>12, <1>13, <1>14, BufferKept DEF Good, Control, Stays

(* register_handler keeps the invariant. *)
LEMMA RegisterStep ==
  ASSUME KernelInv, NEW v \in Vectors, register_handler(v)
  PROVE  Good'
<1> DEFINE h == <<"register", v>>
<1>1. Executed(h)
  <2>1. h \notin Last(1) \union Last(2)
    BY DEF Last, Do
  <2> QED
    BY <2>1, AtExecuted DEF register_handler
<1>2. Reached(h) /\ Stays /\ Follows(Frame, h, Top') /\ ticked' = FALSE
  BY <1>1 DEF Executed
<1>3. Good /\ fault = "none" /\ h \in Words(Frame)
  BY <1>1 DEF Executed
<1>4. Frame # 1 => v \in {"pit", "timer"}
  BY <1>3 DEF Words, BootWords, OpenWords, CommandWords, TimerWords, ReturnWords, Do
<1>5. v \in {"pit", "timer", "keyboard", "ahci"}
  BY SMTT(30), SMTT(60) DEF Vectors, Number
<1>6. /\ v = "pit" => Top' = <<"source", "pit">>
      /\ v = "timer" => Top' = <<"mask", "pit">>
      /\ v = "keyboard" => Top' = Do("MAYBE_CLI")
      /\ v = "ahci" => Top' = Do("abar")
  BY <1>2, <1>4 DEF Follows, KmainFollows, HandlerFollows, TimerFollows
<1>7. /\ v # "ahci" => ~Open(h) /\ Booting(h)
      /\ v \in {"pit", "timer"} => Commanding(h)
      /\ h # Do("shell_cmd") /\ h # <<"source", "tsc">>
      /\ Unready(h) => v = "keyboard"
  BY <1>5 DEF Open, Booting, Commanding, Unready, OpenWords, ReturnWords, BootWords, TimerWords, CommandWords, Do
<1>8. /\ ~InShell(Top')
      /\ v # "ahci" => Top' \notin {Do("abar"), Do("ghc")}
      /\ v = "ahci" => Open(Top') /\ ~Booting(Top') /\ Top' # Do("ghc")
      /\ v # "pit" => Top' # <<"source", "pit">>
  <2>1. CASE v # "ahci"
    <3>1. Top' \in {<<"source", "pit">>, <<"mask", "pit">>, Do("MAYBE_CLI")}
      BY <1>5, <1>6, <2>1
    <3>2. Top' \in TimerWords
      BY <3>1, SMTT(30), SMTT(60) DEF TimerWords
    <3>3. v # "pit" => Top' # <<"source", "pit">>
      BY <1>5, <1>6, <2>1, Names
    <3> QED
      BY <2>1, <3>2, <3>3, TimerTraits
  <2>2. CASE v = "ahci"
    <3>1. Top' = Do("abar")
      BY <1>6, <2>2
    <3>2. Top' \in OpenWords
      BY <3>1 DEF OpenWords
    <3>3. ~InShell(Top') /\ Top' # Do("interrupts_enabled") /\ Top' # Do("ghc") /\ Top' # <<"source", "pit">>
      BY <3>1, Zenon DEF InShell, Do
    <3> QED
      BY <2>2, <3>2, <3>3, OpenTraits
  <2> QED
    BY <2>1, <2>2
<1>9. /\ isr_handler_table' = isr_handler_table \union {v}
      /\ UNCHANGED <<cpu, apic, kernel_config, devices, shell, early, fault>>
  BY DEF register_handler
<1>10. DataTypes'
  BY <1>2, <1>3, <1>9, Zenon DEF Good, DataTypes, register_handler
<1>11. Interrupts'
  <2>1. v # "ahci" => ~cpu.iflag
    BY <1>2, <1>7 DEF Reached, Control, Interrupts
  <2>2. CASE v = "keyboard"
    <3>1. Booting(Kmain') => ~kernel_config.interrupts_enabled
      BY <1>2, <1>4, <1>7, <2>2, SMTT(30), SMTT(60) DEF Reached, Control, Interrupts, Stays
    <3> QED
      BY <1>9, <2>1, <2>2, <3>1, SMTT(30), SMTT(60) DEF Interrupts
  <2>3. CASE v # "keyboard"
    BY <1>2, <1>5, <1>7, <1>8, <1>9, <2>1, <2>3, InterruptsKept
  <2> QED
    BY <2>2, <2>3
<1>12. Disk'
  <2>1. CASE v = "ahci"
    <3>1. Kmain' # Do("ghc")
      BY <1>2, <1>4, <1>8, <2>1, SMTT(30), SMTT(60) DEF Stays
    <3> QED
      BY <1>2, <1>9, <2>1, <3>1 DEF Reached, Control, Disk
  <2>2. CASE v # "ahci"
    BY <1>2, <1>8, <1>9, <2>2, DiskKept
  <2> QED
    BY <2>1, <2>2, SMTT(30), SMTT(60)
<1>13. Pit'
  <2>1. CASE v = "pit"
    BY <1>9, <2>1, SMTT(30), SMTT(60) DEF Pit
  <2>2. CASE v # "pit"
    BY <1>2, <1>7, <1>8, <1>9, <2>2, PitKept, SMTT(30), SMTT(60)
  <2> QED
    BY <2>1, <2>2
<1>14. Nesting'
  <2>1. Reading' = Reading
    BY <1>9, SMTT(30), SMTT(60) DEF Reading
  <2> QED
    BY <1>2, <1>3, <1>4, <1>7, <1>9, <2>1, NestingKept, ReadingType
<1>15. LineOK'
  <2>1. Frame # 1 => Top' \in {<<"source", "pit">>, <<"mask", "pit">>}
    BY <1>4, <1>6
  <2>2. Frame # 1 => Commanding(Top')
    BY <2>1 DEF Commanding, CommandWords, TimerWords
  <2>3. Frame > 1 => Frame # 1
    OBVIOUS
  <2> QED
    BY <1>2, <1>4, <1>7, <1>8, <1>9, <1>10, <2>2, <2>3, LineKept, ZenonT(60) DEF DataTypes
<1> QED
  BY <1>2, <1>3, <1>9, <1>10, <1>11, <1>12, <1>13, <1>14, <1>15, BufferKept DEF Good, Control, Stays

(* Which statements are only in kmain, and which only in a handler. *)
LEMMA OnlyInKmain ==
  ASSUME NEW h, Reached(h), h \in OpenWords \union {Do("sti")}
  PROVE  Frame = 1
<1>1. h \notin TimerWords
  BY TimerNames, OpenTraits, TimerTraits, Names, SMTT(30), SMTT(60)
<1>2. h \notin ReturnWords
  BY ReturnNames, OpenNames, Names, SMTT(30), SMTT(60)
<1>3. h \notin {Do("kexit"), Do("enable_pit"), Do("kb_handle_key")}
  BY OpenNames, Names
<1> QED
  BY <1>1, <1>2, <1>3, SMTT(30), SMTT(60) DEF Reached, Words, CommandWords

(* These statements are reached only in a handler, never in kmain. *)
LEMMA OnlyInHandler ==
  ASSUME NEW h, Reached(h), h \in ReturnWords \union {Do("kexit"), Do("enable_pit"), Do("kb_handle_key")}
  PROVE  Frame # 1
<1>1. h \notin TimerWords
  BY TimerNames, ReturnTraits, TimerTraits, Names, SMTT(30), SMTT(60)
<1>2. h \notin OpenWords
  BY ReturnNames, OpenNames, Names, SMTT(30), SMTT(60)
<1>3. h \notin {<<"unmask", "keyboard">>, <<"register", "keyboard">>, Do("sti")}
  BY ReturnNames, Names, SMTT(30), SMTT(60)
<1> QED
  BY <1>1, <1>2, <1>3, SMTT(30), SMTT(60) DEF Reached, Words, BootWords

(* Steps that matter only by the statements they lead from and to. *)
Harmless(f, a, b) ==
  /\ Open(a) => Open(b)
  /\ f = 1 => /\ Booting(b) => Booting(a)
              /\ Unready(a) => Unready(b)
              /\ a # Do("shell_cmd") /\ ~InShell(b) /\ b \notin {Do("abar"), Do("ghc")}
  /\ f > 1 => Commanding(a) /\ Commanding(b)
  /\ a \notin {<<"register", "pit">>, <<"source", "tsc">>}
  /\ b # <<"source", "pit">>

Undisturbed ==
  /\ cpu'.iflag => cpu.iflag
  /\ apic'.irr = apic.irr /\ apic'.isr = apic.isr /\ apic'.unmasked = apic.unmasked
  /\ kernel_config'.interrupts_enabled => kernel_config.interrupts_enabled
  /\ kernel_config'.timer_source = kernel_config.timer_source
  /\ devices'.ghc <=> devices.ghc
  /\ devices.abar => devices'.abar
  /\ Reading' = Reading
  /\ UNCHANGED <<isr_handler_table, shell, early, fault>>

(* A step that changes neither handlers, masks nor the line keeps the       *)
(* invariant.                                                               *)
LEMMA QuietStep ==
  ASSUME NEW h, Reached(h), Stays, Harmless(Frame, h, Top'), Undisturbed, DataTypes'
  PROVE  Good'
<1>1. Good /\ fault = "none" /\ early' \in BOOLEAN
  BY ReachedGood, SMTT(30), SMTT(60) DEF Reached, DataTypes
<1>2. Interrupts'
  <2>1. cpu'.iflag => Open(Top')
    BY SMTT(30), SMTT(60) DEF Reached, Control, Interrupts, Undisturbed, Harmless
  <2> QED
    BY <2>1, InterruptsKept, SMTT(30), SMTT(60) DEF Undisturbed, Harmless
<1>3. Disk'
  BY DiskKept, SMTT(30), SMTT(60) DEF Undisturbed, Harmless
<1>4. Pit'
  BY PitKept, SMTT(30), SMTT(60) DEF Undisturbed, Harmless
<1>5. Nesting'
  BY <1>1, ReadingType, NestingKept, SMTT(30), SMTT(60) DEF Undisturbed, Harmless
<1>6. LineOK'
  BY <1>1, LineKept DEF Undisturbed, Harmless
<1> QED
  BY <1>1, <1>2, <1>3, <1>4, <1>5, <1>6, BufferKept DEF Good, Control, Stays, Undisturbed

(* From one statement of the timer's functions to another. *)
LEMMA TimerHarmless ==
  ASSUME NEW f \in Nat, NEW a \in TimerWords, NEW b \in TimerWords,
         a \notin {<<"register", "pit">>, <<"source", "tsc">>}, b # <<"source", "pit">>
  PROVE  Harmless(f, a, b)
<1>1. a # Do("shell_cmd")
  BY TimerNames, Names, SMTT(30), SMTT(60)
<1> QED
  BY <1>1, TimerTraits, SMTT(30), SMTT(60) DEF Harmless

(* unregister_handler keeps the invariant: only the PIT's handler goes, and *)
(* its line is masked.                                                      *)
LEMMA UnregisterStep ==
  ASSUME KernelInv, NEW v \in Vectors, unregister_handler(v)
  PROVE  Good'
<1> DEFINE h == <<"unregister", v>>
<1>1. Executed(h)
  <2>1. h \notin Last(1) \union Last(2)
    BY DEF Last, Do
  <2> QED
    BY <2>1, AtExecuted DEF unregister_handler
<1>2. Reached(h) /\ Stays /\ Follows(Frame, h, Top') /\ ticked' = FALSE
  BY <1>1 DEF Executed
<1>3. Good /\ fault = "none" /\ h \in Words(Frame)
  BY <1>1 DEF Executed
<1>4. v = "pit"
  BY <1>3, Zenon DEF Words, BootWords, OpenWords, CommandWords, TimerWords, ReturnWords, Do
<1>5. Top' = <<"source", "tsc">>
  BY <1>2, <1>4 DEF Follows, KmainFollows, HandlerFollows, TimerFollows
<1>6. /\ h \in TimerWords /\ Top' \in TimerWords
  BY <1>4, <1>5, SMTT(30), SMTT(60) DEF TimerWords
<1>7. h # Do("shell_cmd") /\ Top' # <<"source", "pit">>
  BY <1>4, <1>5, Names
<1>8. /\ isr_handler_table' = isr_handler_table \ {"pit"}
      /\ UNCHANGED <<cpu, apic, kernel_config, devices, shell, early, fault>>
  BY <1>4 DEF unregister_handler
<1>9. DataTypes'
  BY <1>2, <1>3, <1>8, Zenon DEF Good, DataTypes, unregister_handler
<1>10. Interrupts'
  <2>1. ~cpu.iflag
    BY <1>2, <1>6, TimerTraits, SMTT(30), SMTT(60) DEF Reached, Control, Interrupts
  <2> QED
    BY <1>2, <1>6, <1>8, <2>1, InterruptsKept, TimerTraits, SMTT(30), SMTT(60)
<1>11. Disk'
  BY <1>2, <1>6, <1>8, DiskKept, TimerTraits, SMTT(30), SMTT(60)
<1>12. Pit'
  BY <1>5, <1>7, SMTT(30), SMTT(60) DEF Pit
<1>13. Nesting'
  <2>1. Reading' = Reading
    BY <1>8, SMTT(30), SMTT(60) DEF Reading
  <2> QED
    BY <1>2, <1>3, <1>6, <1>8, <2>1, NestingKept, ReadingType, TimerTraits, SMTT(30), SMTT(60)
<1>14. LineOK'
  BY <1>2, <1>6, <1>7, <1>8, <1>9, LineKept, TimerTraits, SMTT(30), SMTT(60) DEF DataTypes
<1> QED
  BY <1>2, <1>3, <1>8, <1>9, <1>10, <1>11, <1>12, <1>13, <1>14, BufferKept DEF Good, Control, Stays

(* MAYBE_CLI keeps the invariant. *)
LEMMA MaybeCliStep ==
  ASSUME KernelInv, MaybeCli
  PROVE  Good'
<1> DEFINE h == Do("MAYBE_CLI")
<1>1. Executed(h)
  <2>1. h \notin Last(1) \union Last(2)
    BY Names DEF Last
  <2> QED
    BY <2>1, AtExecuted, SMTT(30), SMTT(60) DEF MaybeCli
<1>2. Reached(h) /\ Stays /\ Follows(Frame, h, Top') /\ ticked' = FALSE /\ Good /\ Frame \in Nat
  BY <1>1, ZenonT(60) DEF Executed, Reached
<1>3. Top' \in {Do("MAYBE_CLI"), Do("MAYBE_STI"), Do("pit_init"), Do("calibrate"), <<"register", "timer">>}
  BY <1>2 DEF Follows, KmainFollows, HandlerFollows, TimerFollows
<1>4. h \in TimerWords /\ Top' \in TimerWords
  BY <1>3, SMTT(30), SMTT(60) DEF TimerWords
<1>5. h \notin {<<"register", "pit">>, <<"source", "tsc">>} /\ Top' # <<"source", "pit">>
  BY <1>3, Names
<1>6. Harmless(Frame, h, Top')
  BY <1>2, <1>4, <1>5, TimerHarmless
<1>7. /\ cpu' \in Cpus /\ (cpu'.iflag => cpu.iflag)
      /\ apic' \in Apics /\ apic'.irr = apic.irr /\ apic'.isr = apic.isr /\ apic'.unmasked = apic.unmasked
  BY <1>2, ZenonT(60) DEF Good, DataTypes, Cpus, Apics, MaybeCli
<1>8. DataTypes'
  BY <1>2, <1>7, Zenon DEF Good, DataTypes, MaybeCli
<1>9. Undisturbed
  BY <1>7 DEF Undisturbed, Reading, MaybeCli
<1> QED
  BY <1>2, <1>6, <1>8, <1>9, QuietStep

(* sti keeps the invariant. *)
LEMMA StiStep ==
  ASSUME KernelInv, Sti
  PROVE  Good'
<1>1. PICK h \in {Do("sti"), Do("MAYBE_STI")} : At(h)
  BY DEF Sti
<1>2. Executed(h)
  <2>1. h \notin Last(1) \union Last(2)
    BY Names DEF Last
  <2> QED
    BY <1>1, <2>1, AtExecuted DEF Sti
<1>3. Reached(h) /\ Stays /\ Follows(Frame, h, Top') /\ ticked' = FALSE /\ Good /\ Frame \in Nat /\ Frame > 0
  BY <1>2 DEF Executed, Reached
<1>4. /\ cpu' \in Cpus /\ apic' \in Apics /\ apic'.irr = apic.irr /\ apic'.isr = apic.isr /\ apic'.unmasked = apic.unmasked
      /\ UNCHANGED <<machine, isr_handler_table, kernel_config, devices, shell, early, fault>>
  BY <1>3, ZenonT(60) DEF Good, DataTypes, Cpus, Apics, Sti
<1>5. DataTypes'
  BY <1>3, <1>4, Zenon DEF Good, DataTypes
<1>6. Reading' = Reading /\ Reading \in Int
  BY <1>3, <1>4, ReadingType DEF Reading
<1>7. CASE h = Do("sti")
  <2>1. Frame = 1
    BY <1>3, <1>7, OnlyInKmain, SMTT(30), SMTT(60)
  <2>2. Top' = Do("interrupts_enabled") /\ Kmain' = Top' /\ Frame' = Frame
    BY <1>3, <1>7, <2>1, SMTT(30), SMTT(60) DEF Follows, KmainFollows, Stays
  <2>3. Top' \in OpenWords /\ Booting(Top')
    BY <2>2, SMTT(30), SMTT(60) DEF OpenWords, Booting
  <2>4. Top' # Do("shell_cmd") /\ ~InShell(Top') /\ Top' \notin {Do("abar"), Do("ghc")}
    BY <2>2, Names DEF InShell
  <2>5. Open(Top') /\ ~Unready(Top') /\ ~Commanding(Top') /\ Top' \notin {<<"register", "pit">>, <<"source", "tsc">>, <<"source", "pit">>}
    BY <2>3, OpenTraits
  <2>6. Booting(h) /\ ~Unready(h) /\ h # Do("shell_cmd") /\ h \notin {<<"register", "pit">>, <<"source", "tsc">>}
    BY <1>7, Names, ZenonT(60) DEF Booting, BootWords, Unready
  <2>7. Interrupts'
    BY <1>3, <1>4, <2>5, <2>6, InterruptsKept, SMTT(30), SMTT(60)
  <2>8. Disk'
    BY <1>3, <1>4, <2>4, DiskKept, SMTT(30), SMTT(60)
  <2>9. Pit'
    BY <1>3, <1>4, <2>5, <2>6, PitKept, SMTT(30), SMTT(60)
  <2>10. Nesting'
    <3>1. 0 <= Reading
      BY <1>3, SMTT(30), SMTT(60) DEF Good, Control, Nesting
    <3> QED
      BY <1>3, <1>6, <2>1, <2>2, <3>1, SMTT(30), SMTT(60) DEF Nesting
  <2>11. LineOK'
    BY <1>3, <1>4, <1>5, <2>1, <2>4, <2>6, LineKept DEF DataTypes
  <2> QED
    BY <1>3, <1>4, <1>5, <2>7, <2>8, <2>9, <2>10, <2>11, BufferKept, SMTT(30), SMTT(60) DEF Good, Control, Stays
<1>8. CASE h = Do("MAYBE_STI")
  <2>1. h \in TimerWords /\ h \notin {<<"register", "pit">>, <<"source", "tsc">>} /\ h # Do("shell_cmd")
    BY <1>8, Names DEF TimerWords
  <2>2. CASE Frame = 1
    <3>1. Top' \in {Do("enable_apic"), Do("sti")}
      BY <1>3, <1>8, <2>2, SMTT(30), SMTT(60) DEF Follows, KmainFollows
    <3>2. /\ Booting(Top') /\ ~Unready(Top') /\ ~InShell(Top') /\ Top' # <<"source", "pit">>
          /\ Top' \notin {Do("abar"), Do("ghc")}
      BY <3>1, Names, SMTT(30), SMTT(60) DEF Booting, BootWords, TimerWords, Unready, InShell
    <3>3. ~At(Do("sti"))
      <4>1. At(Do("sti")) => Top = Do("sti")
        BY AtReached DEF Reached
      <4> QED
        BY <1>3, <1>8, <4>1, Names DEF Reached
    <3>4. ~kernel_config.interrupts_enabled
      BY <1>3, <2>1, <2>2, TimerTraits DEF Reached, Control, Interrupts
    <3>5. cpu' = cpu
      BY <3>3, <3>4, SMTT(30), SMTT(60) DEF Sti
    <3>6. Harmless(Frame, h, Top')
      BY <2>1, <2>2, <3>2, TimerTraits, SMTT(30), SMTT(60) DEF Harmless
    <3>7. Undisturbed
      BY <1>4, <1>6, <3>5, SMTT(30), SMTT(60) DEF Undisturbed
    <3> QED
      BY <1>3, <1>5, <3>6, <3>7, QuietStep, SMTT(30), SMTT(60)
  <2>3. CASE Frame # 1
    <3>1. Top' = Do("fini")
      BY <1>3, <1>8, <2>3 DEF Follows, HandlerFollows
    <3>2. Top' \in ReturnWords
      BY <3>1 DEF ReturnWords
    <3>3. Open(Top') /\ Top' \notin {<<"register", "pit">>, <<"source", "tsc">>, <<"source", "pit">>}
      BY <3>2, ReturnTraits, SMTT(30), SMTT(60)
    <3>4. Commanding(h) /\ Commanding(Top')
      BY <2>1, <3>1, TimerTraits, SMTT(30), SMTT(60) DEF Commanding
    <3>5. Interrupts'
      BY <1>3, <1>4, <2>3, <3>3, InterruptsKept, SMTT(30), SMTT(60)
    <3>6. Disk'
      BY <1>3, <1>4, <2>3, DiskKept, SMTT(30), SMTT(60)
    <3>7. Pit'
      BY <1>3, <1>4, <2>1, <3>3, PitKept, SMTT(30), SMTT(60)
    <3>8. Nesting'
      <4>1. 0 <= Reading /\ Frame - 1 <= Reading
        BY <1>3, <2>3, <3>4, SMTT(30), SMTT(60) DEF Reached, Control, Nesting
      <4>2. Frame' = Frame
        BY <1>3, SMTT(30), SMTT(60) DEF Stays
      <4> QED
        BY <1>3, <1>6, <4>1, <4>2, SMTT(30), SMTT(60) DEF Nesting
    <3>9. LineOK'
      BY <1>3, <1>4, <1>5, <2>3, <3>4, LineKept, SMTT(30), SMTT(60) DEF DataTypes
    <3> QED
      BY <1>3, <1>4, <1>5, <3>5, <3>6, <3>7, <3>8, <3>9, BufferKept DEF Good, Control, Stays
  <2> QED
    BY <2>2, <2>3, SMTT(30), SMTT(60)
<1> QED
  BY <1>7, <1>8

(* Setting INTERRUPTS_ENABLED keeps the invariant. *)
LEMMA InterruptsEnabledStep ==
  ASSUME KernelInv, SetInterruptsEnabled
  PROVE  Good'
<1> DEFINE h == Do("interrupts_enabled")
<1>1. Executed(h)
  <2>1. h \notin Last(1) \union Last(2)
    BY Names DEF Last
  <2> QED
    BY <2>1, AtExecuted, SMTT(30), SMTT(60) DEF SetInterruptsEnabled, SetConfig
<1>2. Reached(h) /\ Stays /\ Follows(Frame, h, Top') /\ ticked' = FALSE /\ Good
  BY <1>1, SMTT(30), SMTT(60) DEF Executed
<1>3. h \in OpenWords /\ h # Do("shell_cmd") /\ h \notin {<<"register", "pit">>, <<"source", "tsc">>}
  BY Names DEF OpenWords
<1>4. Frame = 1
  BY <1>2, <1>3, OnlyInKmain, SMTT(30), SMTT(60)
<1>5. Top' = Do("init_ahci") /\ Kmain' = Top'
  BY <1>2, <1>4, SMTT(30), SMTT(60) DEF Follows, KmainFollows, Stays
<1>6. /\ Top' \in OpenWords /\ Top' # Do("interrupts_enabled") /\ ~InShell(Top')
      /\ Top' \notin {Do("abar"), Do("ghc")} /\ Top' # <<"source", "pit">>
  BY <1>5, Names, SMTT(30), SMTT(60) DEF OpenWords, InShell
<1>7. Open(Top') /\ ~Booting(Top') /\ ~Commanding(Top') /\ ~Unready(h)
  BY <1>3, <1>6, OpenTraits
<1>8. /\ kernel_config' \in Configs /\ kernel_config'.timer_source = kernel_config.timer_source
      /\ UNCHANGED <<machine, cpu, apic, isr_handler_table, devices, shell, early, fault>>
  BY <1>2, Zenon DEF Good, DataTypes, Configs, SetInterruptsEnabled, SetConfig
<1>9. DataTypes'
  BY <1>2, <1>8, ZenonT(40) DEF Good, DataTypes
<1>10. Interrupts'
  BY <1>2, <1>4, <1>5, <1>7, <1>8, ZenonT(60) DEF Interrupts, Reached, Control
<1>11. Disk'
  BY <1>2, <1>6, <1>8, DiskKept, SMTT(30), SMTT(60)
<1>12. Pit'
  BY <1>2, <1>3, <1>6, <1>8, PitKept, SMTT(30), SMTT(60)
<1>13. Nesting'
  <2>1. Reading' = Reading /\ Reading \in Int
    BY <1>2, <1>8, ReadingType, SMTT(30), SMTT(60) DEF Reading
  <2> QED
    BY <1>2, <1>7, <1>8, <2>1, NestingKept, SMTT(30), SMTT(60)
<1>14. LineOK'
  BY <1>2, <1>3, <1>4, <1>6, <1>7, <1>8, <1>9, LineKept, SMTT(30), SMTT(60) DEF DataTypes
<1> QED
  BY <1>2, <1>8, <1>9, <1>10, <1>11, <1>12, <1>13, <1>14, BufferKept DEF Good, Control, Stays

(* Choosing the timer's source keeps the invariant. *)
LEMMA SourceStep ==
  ASSUME KernelInv, SourceIsPit \/ SourceIsTsc
  PROVE  Good'
<1>1. PICK h \in {<<"source", "pit">>, <<"source", "tsc">>} :
        /\ At(h) /\ Go
        /\ h = <<"source", "pit">> => SourceIsPit
        /\ h = <<"source", "tsc">> => SourceIsTsc
  BY DEF SourceIsPit, SourceIsTsc, SetConfig
<1>2. Executed(h)
  <2>1. h \notin Last(1) \union Last(2)
    BY Names DEF Last
  <2> QED
    BY <1>1, <2>1, AtExecuted, SMTT(30), SMTT(60)
<1>3. Reached(h) /\ Stays /\ Follows(Frame, h, Top') /\ ticked' = FALSE /\ Good /\ fault = "none"
  BY <1>2, SMTT(30), SMTT(60) DEF Executed
<1>4. Top' = Do("MAYBE_STI")
  BY <1>3 DEF Follows, KmainFollows, HandlerFollows, TimerFollows
<1>5. h \in TimerWords /\ Top' \in TimerWords
  BY <1>4, SMTT(30), SMTT(60) DEF TimerWords
<1>6. h # Do("shell_cmd") /\ Top' # <<"source", "pit">>
  BY <1>4, Names, SMTT(30), SMTT(60)
<1>7. /\ kernel_config' \in Configs /\ (kernel_config'.interrupts_enabled <=> kernel_config.interrupts_enabled)
      /\ h = <<"source", "tsc">> => kernel_config'.timer_source = {"tsc"}
      /\ UNCHANGED <<machine, cpu, apic, isr_handler_table, devices, shell, early, fault>>
  <2>1. CASE h = <<"source", "tsc">>
    BY <1>1, <1>3, <2>1 DEF Good, DataTypes, Configs, SourceIsTsc, SetConfig
  <2>2. CASE h = <<"source", "pit">>
    <3>1. h # <<"source", "tsc">>
      BY <2>2, Names
    <3> QED
      BY <1>1, <1>3, <2>2, <3>1, SMTT(30), SMTT(60) DEF Good, DataTypes, Configs, SourceIsPit, SetConfig
  <2> QED
    BY <2>1, <2>2
<1>8. DataTypes'
  BY <1>3, <1>7, ZenonT(60) DEF Good, DataTypes
<1>9. Interrupts'
  <2>1. ~cpu.iflag
    BY <1>3, <1>5, TimerTraits, SMTT(30), SMTT(60) DEF Reached, Control, Interrupts
  <2> QED
    BY <1>3, <1>5, <1>7, <2>1, InterruptsKept, TimerTraits, SMTT(30), SMTT(60)
<1>10. Disk'
  BY <1>3, <1>5, <1>7, DiskKept, TimerTraits
<1>11. Pit'
  <2>1. CASE h = <<"source", "tsc">>
    BY <1>6, <1>7, <2>1, SMTT(30), SMTT(60) DEF Pit
  <2>2. CASE h = <<"source", "pit">>
    <3>1. "pit" \in isr_handler_table
      BY <1>3, <2>2, SMTT(30), SMTT(60) DEF Reached, Control, Pit
    <3> QED
      BY <1>6, <1>7, <3>1, SMTT(30), SMTT(60) DEF Pit
  <2> QED
    BY <2>1, <2>2, SMTT(30), SMTT(60)
<1>12. Nesting'
  <2>1. Reading' = Reading /\ Reading \in Int
    BY <1>3, <1>7, ReadingType, SMTT(30), SMTT(60) DEF Reading
  <2> QED
    BY <1>3, <1>5, <1>7, <2>1, NestingKept, TimerTraits, SMTT(30), SMTT(60)
<1>13. LineOK'
  BY <1>3, <1>5, <1>6, <1>7, <1>8, LineKept, TimerTraits, SMTT(30), SMTT(60) DEF DataTypes
<1> QED
  BY <1>3, <1>7, <1>8, <1>9, <1>10, <1>11, <1>12, <1>13, BufferKept DEF Good, Control, Stays

(* kexit keeps the invariant. *)
LEMMA KexitStep ==
  ASSUME KernelInv, kexit
  PROVE  Good'
<1> DEFINE h == Do("kexit")
<1>1. Executed(h)
  <2>1. h \notin Last(1) \union Last(2)
    BY Names DEF Last
  <2> QED
    BY <2>1, AtExecuted, SMTT(30), SMTT(60) DEF kexit, SetConfig
<1>2. Reached(h) /\ Stays /\ Follows(Frame, h, Top') /\ ticked' = FALSE /\ Good
  BY <1>1 DEF Executed
<1>3. Frame # 1
  BY <1>2, OnlyInHandler, SMTT(30), SMTT(60)
<1>4. Top' = Do("fini")
  BY <1>2, <1>3, SMTT(30), SMTT(60) DEF Follows, HandlerFollows
<1>5. Top' \in ReturnWords /\ Commanding(h) /\ Commanding(Top') /\ h \notin {<<"register", "pit">>, <<"source", "tsc">>}
  BY <1>4, Names, SMTT(30), SMTT(60) DEF ReturnWords, Commanding, CommandWords
<1>6. Harmless(Frame, h, Top')
  BY <1>3, <1>5, ReturnTraits DEF Harmless
<1>7. /\ kernel_config' \in Configs /\ kernel_config'.timer_source = kernel_config.timer_source
      /\ kernel_config'.interrupts_enabled <=> kernel_config.interrupts_enabled
      /\ UNCHANGED <<machine, cpu, apic, isr_handler_table, devices, shell, early, fault>>
  BY <1>2, Zenon DEF Good, DataTypes, Configs, kexit, SetConfig
<1>8. DataTypes'
  BY <1>2, <1>7, Zenon DEF Good, DataTypes
<1>9. Undisturbed
  BY <1>7, SMTT(30), SMTT(60) DEF Undisturbed, Reading
<1> QED
  BY <1>2, <1>6, <1>8, <1>9, QuietStep

(* The statement after the one that is reached. *)
LEMMA SecondWord ==
  ASSUME NEW h, Reached(h), h \notin Last(1) \union Last(2)
  PROVE  /\ Follows(Frame, h, stack[Frame][2])
         /\ stack[Frame] \in Seq(Words(Frame)) /\ h \notin Last(Frame) /\ Frame \in Nat /\ Frame = Len(stack)
         /\ stack[Frame][1] = h
<1>1. StackOK(stack) /\ Top = h /\ Frame \in Nat /\ Frame > 0 /\ Frame = Len(stack)
  BY DEF Reached, Control, Frame
<1>2. Path(stack[Frame], Frame) /\ stack[Frame][1] = h
  BY <1>1 DEF StackOK, Top
<1>3. h \notin Last(Frame)
  BY SMTT(30), SMTT(60) DEF Last
<1>4. Follows(Frame, stack[Frame][1], Tail(stack[Frame])[1]) /\ Tail(stack[Frame])[1] = stack[Frame][2]
  BY <1>1, <1>2, <1>3, PathTail
<1>5. Follows(Frame, h, stack[Frame][2])
  BY <1>2, <1>4, Zenon
<1>6. stack[Frame] \in Seq(Words(Frame))
  BY <1>2 DEF Path
<1> QED
  BY <1>1, <1>2, <1>3, <1>5, <1>6, SMTT(30), SMTT(60)

(* A call. *)
LEMMA CallStays ==
  ASSUME NEW h, Reached(h), h \notin Last(1) \union Last(2),
         NEW b, Body(b, Frame), Call(b), Follows(Frame, b[Len(b)], stack[Frame][2])
  PROVE  Stays /\ Top' = b[1] /\ ticked' = FALSE
<1>1. StackOK(stack) /\ stack \in Seq(Seq(Words(1) \union Words(2))) /\ Frame = Len(stack)
  BY ZenonT(60) DEF Reached, Control, StackOK, Frame
<1>2. stack[Frame][1] = h /\ h \notin Last(Frame)
  BY SecondWord
<1>3. stack' = [stack EXCEPT ![Len(stack)] = b \o Tail(stack[Len(stack)])] /\ ticked' = FALSE
  BY <1>1, SMTT(30), SMTT(60) DEF Call
<1>4. stack[Len(stack)][1] \notin Last(Len(stack)) /\ Follows(Len(stack), b[Len(b)], stack[Len(stack)][2]) /\ Body(b, Len(stack))
  BY <1>1, <1>2
<1>5. Moved(stack, stack') /\ stack'[Len(stack)][1] = b[1]
  BY <1>1, <1>3, <1>4, CallMoves, ZenonT(60)
<1>6. Len(stack') = Len(stack)
  BY <1>5 DEF Moved
<1> QED
  BY <1>1, <1>3, <1>5, <1>6, MovedStays, Zenon DEF Top, Frame

(* After the functions that set up the timer comes what may come after them. *)
LEMMA AfterTimer ==
  ASSUME NEW f \in Nat, NEW h \in {Do("enable_apic"), Do("enable_pit"), Do("calibrate")}, NEW b, Follows(f, h, b),
         f = 1 => h # Do("enable_pit"), NEW a \in {Do("MAYBE_STI"), Do("calibrate")}
  PROVE  Follows(f, a, b)
<1>1. CASE f = 1
  <2>1. b = Do("sti")
    BY <1>1 DEF Follows, KmainFollows
  <2>2. CASE a = Do("MAYBE_STI")
    BY <1>1, <2>1, <2>2, Zenon DEF Follows, KmainFollows, TimerFollows, Do
  <2>3. CASE a = Do("calibrate")
    BY <1>1, <2>1, <2>3, Zenon DEF Follows, KmainFollows, TimerFollows, Do
  <2> QED
    BY <2>2, <2>3, SMTT(30), SMTT(60)
<1>2. CASE f # 1
  <2>1. b = Do("fini")
    BY <1>2 DEF Follows, HandlerFollows
  <2>2. CASE a = Do("MAYBE_STI")
    BY <1>2, <2>1, <2>2, Zenon DEF Follows, HandlerFollows, TimerFollows, Do
  <2>3. CASE a = Do("calibrate")
    BY <1>2, <2>1, <2>3, Zenon DEF Follows, HandlerFollows, TimerFollows, Do
  <2> QED
    BY <2>2, <2>3
<1> QED
  BY <1>1, <1>2

(* The body of enable_apic. *)
LEMMA ApicBody ==
  ASSUME NEW f \in Nat
  PROVE  /\ Body(enable_apic, f) /\ enable_apic[1] = Do("MAYBE_CLI")
         /\ enable_apic[Len(enable_apic)] \in {Do("MAYBE_STI"), Do("calibrate")}
<1> DEFINE rest == IF kernel_config.tsc_freq THEN UseTsc ELSE IF ~machine.tsc_deadline THEN enable_pit ELSE << Do("calibrate") >>
           cli == << Do("MAYBE_CLI") >>
<1>1. /\ Body(rest, f) /\ rest[1] \in {Do("MAYBE_CLI"), <<"register", "timer">>, Do("calibrate")}
      /\ rest[Len(rest)] \in {Do("MAYBE_STI"), Do("calibrate")}
  <2>1. Do("calibrate") \in Words(f)
    BY DEF Words, BootWords, CommandWords, TimerWords
  <2> DEFINE c == << Do("calibrate") >>
  <2>2. c \in Seq(Words(f)) /\ Len(c) = 1 /\ c[1] = Do("calibrate") /\ c # <<>>
    BY <2>1
  <2> HIDE DEF c
  <2>3. Body(c, f) /\ c[Len(c)] = Do("calibrate")
    BY <2>2, SMTT(30), SMTT(60) DEF Body
  <2> QED
    BY <2>2, <2>3, TimerBodies, Zenon DEF c
<1>2. Do("MAYBE_CLI") \in Words(f)
  BY DEF Words, BootWords, CommandWords, TimerWords
<1>3. cli \in Seq(Words(f)) /\ Len(cli) = 1 /\ cli[1] = Do("MAYBE_CLI")
  BY <1>2
<1>4. \A b \in {Do("MAYBE_CLI"), <<"register", "timer">>, Do("calibrate")} : Follows(f, Do("MAYBE_CLI"), b)
  <2>1. Follows(f, Do("MAYBE_CLI"), Do("MAYBE_CLI"))
    BY SMTT(30), SMTT(60) DEF Follows, KmainFollows, HandlerFollows, TimerFollows, Do
  <2>2. Follows(f, Do("MAYBE_CLI"), <<"register", "timer">>)
    BY SMTT(30), SMTT(60) DEF Follows, KmainFollows, HandlerFollows, TimerFollows, Do
  <2>3. Follows(f, Do("MAYBE_CLI"), Do("calibrate"))
    BY DEF Follows, KmainFollows, HandlerFollows, TimerFollows, Do
  <2> QED
    BY <2>1, <2>2, <2>3, SMTT(30), SMTT(60)
<1> HIDE DEF rest, cli
<1>5. Body(cli, f) /\ cli[Len(cli)] = Do("MAYBE_CLI")
  BY <1>3, SMTT(30), SMTT(60) DEF Body
<1>6. Follows(f, cli[Len(cli)], rest[1])
  BY <1>1, <1>4, <1>5
<1>7. Joined(enable_apic, cli, rest)
  BY SMTT(30), SMTT(60) DEF enable_apic, cli, rest, Joined
<1>8. Body(enable_apic, f) /\ enable_apic[1] = cli[1] /\ enable_apic[Len(enable_apic)] = rest[Len(rest)]
  BY <1>1, <1>5, <1>6, <1>7, BodyJoined, SMTT(30), SMTT(60)
<1> QED
  BY <1>1, <1>3, <1>8

(* From one statement of kmain to another, once interrupts are on. *)
LEMMA OpenHarmless ==
  ASSUME NEW a \in OpenWords, NEW b \in OpenWords, a # Do("shell_cmd"), b # Do("interrupts_enabled"),
         ~InShell(b), b \notin {Do("abar"), Do("ghc")}
  PROVE  Harmless(1, a, b)
<1>1. Open(b) /\ ~Booting(b) /\ ~Unready(a) /\ ~Commanding(b) /\ b # <<"source", "pit">>
      /\ a \notin {<<"register", "pit">>, <<"source", "tsc">>}
  BY OpenTraits, SMTT(30), SMTT(60)
<1> QED
  BY <1>1 DEF Harmless

(* The body of init_ahci, if there is a controller. *)
LEMMA AhciBody ==
  ASSUME machine.ahci
  PROVE  /\ Body(init_ahci, 1) /\ init_ahci[1] = Do("enable_msi")
         /\ init_ahci[Len(init_ahci)] = Do("send_cmd")
<1> DEFINE s == init_ahci
<1>1. /\ s \in Seq(OpenWords) /\ Len(s) = 5
      /\ s[1] = Do("enable_msi") /\ s[2] = <<"register", "ahci">> /\ s[3] = Do("abar")
      /\ s[4] = Do("ghc") /\ s[5] = Do("send_cmd")
  BY SMTT(30), SMTT(60) DEF init_ahci, OpenWords
<1> HIDE DEF s
<1>2. /\ Follows(1, Do("enable_msi"), <<"register", "ahci">>) /\ Follows(1, <<"register", "ahci">>, Do("abar"))
      /\ Follows(1, Do("abar"), Do("ghc")) /\ Follows(1, Do("ghc"), Do("send_cmd"))
  BY DEF Follows, KmainFollows, TimerFollows, Do
<1>3. \A i \in 1 .. (Len(s) - 1) : Follows(1, s[i], s[i + 1])
  <2> SUFFICES ASSUME NEW i \in 1 .. 4 PROVE Follows(1, s[i], s[i + 1])
    BY <1>1, SMTT(30), SMTT(60)
  <2>1. CASE i = 1
    <3>1. i + 1 = 2
      BY <2>1, SMTT(30), SMTT(60)
    <3> QED
      BY <1>1, <1>2, <2>1, <3>1, SMTT(30), SMTT(60)
  <2>2. CASE i = 2
    <3>1. i + 1 = 3
      BY <2>2, SMTT(30), SMTT(60)
    <3> QED
      BY <1>1, <1>2, <2>2, <3>1
  <2>3. CASE i = 3
    <3>1. i + 1 = 4
      BY <2>3, SMTT(30), SMTT(60)
    <3> QED
      BY <1>1, <1>2, <2>3, <3>1
  <2>4. CASE i = 4
    <3>1. i + 1 = 5
      BY <2>4
    <3> QED
      BY <1>1, <1>2, <2>4, <3>1
  <2> QED
    BY <2>1, <2>2, <2>3, <2>4, SMTT(30), SMTT(60)
<1>4. s \in Seq(Words(1)) /\ s # <<>>
  BY <1>1, SMTT(30), SMTT(60) DEF Words
<1> QED
  BY <1>1, <1>3, <1>4, SMTT(30), SMTT(60) DEF Body, s

(* A call, or a return without one, that changes nothing else. *)
LEMMA CallStep ==
  ASSUME KernelInv, CallFunction
  PROVE  Good'
<1>1. UNCHANGED <<machine, cpu, apic, isr_handler_table, kernel_config, devices, shell, early, fault>>
  BY DEF CallFunction
<1>2. Undisturbed
  BY <1>1 DEF Undisturbed, Reading
<1>3. ASSUME NEW h, Reached(h), ticked' = FALSE PROVE DataTypes'
  BY <1>1, <1>3, ReachedGood, Zenon DEF Good, DataTypes
<1>4. CASE At(Do("enable_apic")) /\ Call(enable_apic)
  <2> DEFINE h == Do("enable_apic")
  <2>1. Reached(h) /\ h \notin Last(1) \union Last(2) /\ Frame \in Nat
    BY <1>4, AtReached, Names, SMTT(30), SMTT(60) DEF Last, Reached
  <2>2. Follows(Frame, h, stack[Frame][2])
    BY <2>1, SecondWord, SMTT(30), SMTT(60)
  <2>3. h # Do("enable_pit")
    BY Names, SMTT(30), SMTT(60)
  <2>4. /\ Body(enable_apic, Frame) /\ enable_apic[1] = Do("MAYBE_CLI")
        /\ Follows(Frame, enable_apic[Len(enable_apic)], stack[Frame][2])
    BY <2>1, <2>2, <2>3, ApicBody, AfterTimer
  <2>5. Stays /\ Top' = Do("MAYBE_CLI") /\ ticked' = FALSE
    BY <1>4, <2>1, <2>4, CallStays, ZenonT(60)
  <2>6. h \in TimerWords /\ Top' \in TimerWords /\ h \notin {<<"register", "pit">>, <<"source", "tsc">>} /\ Top' # <<"source", "pit">>
    BY <2>5, Names DEF TimerWords
  <2>7. Harmless(Frame, h, Top')
    BY <2>1, <2>6, TimerHarmless
  <2> QED
    BY <1>2, <1>3, <2>1, <2>5, <2>7, QuietStep, ZenonT(60)
<1>5. CASE At(Do("enable_pit")) /\ Call(enable_pit)
  <2> DEFINE h == Do("enable_pit")
  <2>1. Reached(h) /\ h \notin Last(1) \union Last(2) /\ Frame \in Nat
    BY <1>5, AtReached, Names, SMTT(30), SMTT(60) DEF Last, Reached
  <2>2. Frame # 1 /\ Follows(Frame, h, stack[Frame][2])
    BY <2>1, SecondWord, OnlyInHandler, SMTT(30), SMTT(60)
  <2>3. /\ Body(enable_pit, Frame) /\ enable_pit[1] = Do("MAYBE_CLI")
        /\ Follows(Frame, enable_pit[Len(enable_pit)], stack[Frame][2])
    BY <2>1, <2>2, TimerBodies, AfterTimer
  <2>4. Stays /\ Top' = Do("MAYBE_CLI") /\ ticked' = FALSE
    BY <1>5, <2>1, <2>3, CallStays, ZenonT(60)
  <2>5. /\ Top' \in TimerWords /\ h \notin {<<"register", "pit">>, <<"source", "tsc">>} /\ Top' # <<"source", "pit">>
        /\ Commanding(h) /\ ~Open(h) /\ Commanding(Top')
    <3>1. ~Open(h)
      BY OpenNames, ReturnNames, Names, SMTT(30), SMTT(60) DEF Open
    <3> QED
      BY <2>4, <3>1, Names, SMTT(30), SMTT(60) DEF TimerWords, Commanding, CommandWords
  <2>6. Harmless(Frame, h, Top')
    BY <2>2, <2>5 DEF Harmless
  <2> QED
    BY <1>2, <1>3, <2>1, <2>4, <2>6, QuietStep, ZenonT(60)
<1>6. CASE At(Do("init_ahci")) /\ Call(init_ahci)
  <2> DEFINE h == Do("init_ahci")
  <2>1. /\ Reached(h) /\ h \notin Last(1) \union Last(2)
        /\ h \in OpenWords /\ h # Do("shell_cmd")
    BY <1>6, AtReached, Names, SMTT(30), SMTT(60) DEF Last, OpenWords
  <2>2. Frame = 1 /\ Follows(1, h, stack[Frame][2])
    BY <2>1, SecondWord, OnlyInKmain
  <2>3. CASE machine.ahci
    <3>1. stack[Frame][2] = Do("enabled")
      BY <2>2, ZenonT(60) DEF Follows, KmainFollows
    <3>2. Follows(1, Do("send_cmd"), Do("enabled"))
      BY SMTT(30), SMTT(60) DEF Follows, KmainFollows, TimerFollows, Do
    <3>3. /\ Body(init_ahci, Frame) /\ init_ahci[1] = Do("enable_msi")
          /\ Follows(Frame, init_ahci[Len(init_ahci)], stack[Frame][2])
      BY <2>2, <2>3, <3>1, <3>2, AhciBody
    <3>4. Stays /\ Top' = Do("enable_msi") /\ ticked' = FALSE
      BY <1>6, <2>1, <3>3, CallStays, ZenonT(60)
    <3>5. Top' \in OpenWords /\ Top' # Do("interrupts_enabled") /\ ~InShell(Top') /\ Top' \notin {Do("abar"), Do("ghc")}
      BY <3>4, Names, SMTT(30), SMTT(60) DEF OpenWords, InShell
    <3>6. Harmless(Frame, h, Top')
      BY <2>1, <2>2, <3>5, OpenHarmless
    <3> QED
      BY <1>2, <1>3, <2>1, <3>4, <3>6, QuietStep, Zenon
  <2>4. CASE ~machine.ahci
    <3>1. Go
      BY <1>6, <2>4 DEF Go, init_ahci
    <3>2. Executed(h)
      BY <1>6, <2>1, <3>1, AtExecuted
    <3>3. Stays /\ Top' = Do("enabled") /\ ticked' = FALSE
      BY <2>2, <3>2, ZenonT(60) DEF Executed, Follows, KmainFollows
    <3>4. Top' \in OpenWords /\ Top' # Do("interrupts_enabled") /\ ~InShell(Top') /\ Top' \notin {Do("abar"), Do("ghc")}
      BY <3>3, Names DEF OpenWords, InShell
    <3>5. Harmless(Frame, h, Top')
      BY <2>1, <2>2, <3>4, OpenHarmless
    <3> QED
      BY <1>2, <1>3, <2>1, <3>3, <3>5, QuietStep, Zenon
  <2> QED
    BY <2>3, <2>4, ZenonT(60)
<1> QED
  BY <1>4, <1>5, <1>6 DEF CallFunction

(* calibrate_tsc_slow keeps the invariant. *)
LEMMA CalibrateStep ==
  ASSUME KernelInv, calibrate_tsc_slow
  PROVE  Good'
<1> DEFINE h == Do("calibrate")
<1>1. Reached(h) /\ h \notin Last(1) \union Last(2) /\ Frame \in Nat /\ Good
  BY AtReached, ReachedGood, Names DEF Last, Reached, calibrate_tsc_slow
<1>2. /\ devices' \in Devices /\ devices'.ghc = devices.ghc /\ devices'.abar = devices.abar
      /\ devices'.key = devices.key /\ devices'.pressed = devices.pressed
  BY <1>1 DEF Good, DataTypes, Devices, calibrate_tsc_slow
<1>3. /\ kernel_config' \in Configs /\ kernel_config'.timer_source = kernel_config.timer_source
      /\ kernel_config'.interrupts_enabled <=> kernel_config.interrupts_enabled
  BY <1>1, ZenonT(60) DEF Good, DataTypes, Configs, calibrate_tsc_slow
<1>4. UNCHANGED <<machine, cpu, apic, isr_handler_table, shell, early, fault>>
  BY DEF calibrate_tsc_slow
<1>5. Undisturbed
  BY <1>2, <1>3, <1>4, SMTT(30), SMTT(60) DEF Undisturbed, Reading
<1>6. h \in TimerWords /\ h \notin {<<"register", "pit">>, <<"source", "tsc">>} /\ h # Do("enable_pit") /\ h # Do("shell_cmd")
  BY Names DEF TimerWords
<1>7. ASSUME ticked' = FALSE PROVE DataTypes'
  BY <1>1, <1>2, <1>3, <1>4, <1>7, Zenon DEF Good, DataTypes
<1>8. CASE Call(UseTsc)
  <2>1. Follows(Frame, h, stack[Frame][2])
    BY <1>1, SecondWord, SMTT(30), SMTT(60)
  <2>2. /\ Body(UseTsc, Frame) /\ UseTsc[1] = <<"register", "timer">>
        /\ Follows(Frame, UseTsc[Len(UseTsc)], stack[Frame][2])
    BY <1>1, <1>6, <2>1, TimerBodies, AfterTimer
  <2>3. Stays /\ Top' = <<"register", "timer">> /\ ticked' = FALSE
    BY <1>1, <1>8, <2>2, CallStays, ZenonT(60)
  <2>4. Top' \in TimerWords /\ Top' # <<"source", "pit">>
    BY <2>3, Names, SMTT(30), SMTT(60) DEF TimerWords
  <2>5. Harmless(Frame, h, Top')
    BY <1>1, <1>6, <2>4, TimerHarmless
  <2> QED
    BY <1>1, <1>5, <1>7, <2>3, <2>5, QuietStep, ZenonT(60)
<1>9. CASE Go
  <2>1. Executed(h)
    BY <1>1, <1>9, AtExecuted DEF calibrate_tsc_slow
  <2>2. Stays /\ Follows(Frame, h, Top') /\ ticked' = FALSE
    BY <2>1 DEF Executed
  <2>3. Harmless(Frame, h, Top')
    <3>1. CASE Frame = 1
      <4>1. Top' = Do("sti")
        BY <2>2, <3>1 DEF Follows, KmainFollows
      <4>2. Booting(h) /\ ~Unready(h) /\ ~Open(h)
        BY <1>6, TimerTraits, SMTT(30), SMTT(60)
      <4>3. ~InShell(Top') /\ Top' \notin {Do("abar"), Do("ghc")} /\ Top' # <<"source", "pit">>
        BY <4>1, Names, SMTT(30), SMTT(60) DEF InShell
      <4> QED
        BY <1>6, <3>1, <4>2, <4>3, SMTT(30), SMTT(60) DEF Harmless
    <3>2. CASE Frame # 1
      <4>1. Top' = Do("fini")
        BY <2>2, <3>2, SMTT(30), SMTT(60) DEF Follows, HandlerFollows
      <4>2. Top' # <<"source", "pit">> /\ Commanding(Top')
        BY <4>1, Names DEF Commanding
      <4> QED
        BY <1>6, <3>2, <4>2, TimerTraits, SMTT(30), SMTT(60) DEF Harmless
    <3> QED
      BY <3>1, <3>2, SMTT(30), SMTT(60)
  <2> QED
    BY <1>1, <1>5, <1>7, <2>2, <2>3, QuietStep, Zenon
<1> QED
  BY <1>8, <1>9 DEF calibrate_tsc_slow

(* The writes to a device that no interrupt depends on. *)
LEMMA DeviceQuiet ==
  ASSUME KernelInv, NEW h \in {Do("pit_init"), Do("enable_msi"), Do("send_cmd")}, At(h), Go,
         devices' \in Devices, devices'.ghc = devices.ghc, devices'.abar = devices.abar,
         devices'.key = devices.key, devices'.pressed = devices.pressed,
         UNCHANGED <<machine, cpu, apic, isr_handler_table, kernel_config, shell, early, fault>>
  PROVE  Good'
<1>1. h \notin Last(1) \union Last(2)
  BY NotLast, Zenon
<1>2. Executed(h)
  BY <1>1, AtExecuted, ZenonT(60)
<1>3. Reached(h) /\ Stays /\ Follows(Frame, h, Top') /\ ticked' = FALSE /\ Good /\ Frame \in Nat
  BY <1>2, SMTT(30), SMTT(60) DEF Executed, Reached
<1>4. Undisturbed
  BY SMTT(30), SMTT(60) DEF Undisturbed, Reading
<1>5. DataTypes'
  BY <1>3, Zenon DEF Good, DataTypes
<1>6. Harmless(Frame, h, Top')
  <2>1. CASE h = Do("pit_init")
    <3>1. Top' = <<"unmask", "pit">>
      BY <1>3, <2>1, Zenon DEF Follows, KmainFollows, HandlerFollows, TimerFollows
    <3>2. h \in TimerWords /\ Top' \in TimerWords /\ Top' # <<"source", "pit">> /\ h \notin {<<"register", "pit">>, <<"source", "tsc">>}
      BY <2>1, <3>1, Names, ZenonT(60) DEF TimerWords
    <3> QED
      BY <1>3, <3>2, TimerHarmless
  <2>2. CASE h \in {Do("enable_msi"), Do("send_cmd")}
    <3>1. h \in OpenWords /\ h # Do("shell_cmd")
      BY <2>2, Names, ZenonT(60) DEF OpenWords
    <3>2. Frame = 1
      BY <1>3, <3>1, OnlyInKmain
    <3>3. Top' \in {<<"register", "ahci">>, Do("enabled")}
      BY <1>3, <2>2, <3>2, Zenon DEF Follows, KmainFollows
    <3>4. Top' \in OpenWords /\ Top' # Do("interrupts_enabled") /\ ~InShell(Top') /\ Top' \notin {Do("abar"), Do("ghc")}
      BY <3>3, Names, SMTT(30), SMTT(60), ZenonT(60) DEF OpenWords, InShell
    <3> QED
      BY <3>1, <3>2, <3>4, OpenHarmless
  <2> QED
    BY <2>1, <2>2, SMTT(30), SMTT(60)
<1> QED
  BY <1>3, <1>4, <1>5, <1>6, QuietStep, Zenon

(* abar, and then ghc: the controller has its handler before it may use it. *)
LEMMA DeviceOn ==
  ASSUME KernelInv, NEW h \in {Do("abar"), Do("ghc")}, At(h), Go,
         h = Do("abar") => devices' = [devices EXCEPT !.abar = TRUE],
         h = Do("ghc") => devices' = [devices EXCEPT !.ghc = TRUE],
         UNCHANGED <<machine, cpu, apic, isr_handler_table, kernel_config, shell, early, fault>>
  PROVE  Good'
<1>1. h \notin Last(1) \union Last(2) /\ h \in OpenWords /\ h # Do("shell_cmd")
  BY Names DEF Last, OpenWords
<1>2. Executed(h)
  BY <1>1, AtExecuted
<1>3. Reached(h) /\ Stays /\ Follows(Frame, h, Top') /\ ticked' = FALSE /\ Good /\ Frame = 1
  BY <1>1, <1>2, OnlyInKmain DEF Executed, Reached
<1>4. Kmain = h /\ Kmain' = Top'
  BY <1>3 DEF Reached, Stays
<1>5. (h = Do("abar") => Top' = Do("ghc")) /\ (h = Do("ghc") => Top' = Do("send_cmd"))
  BY <1>3 DEF Follows, KmainFollows
<1>6. Top' \in OpenWords /\ Top' # Do("interrupts_enabled") /\ ~InShell(Top') /\ Do("ghc") # Do("abar")
      /\ (h = Do("ghc") => Top' \notin {Do("abar"), Do("ghc")})
  BY <1>5, Names DEF OpenWords, InShell
<1>7. /\ Open(Top') /\ ~Booting(Top') /\ ~Unready(h) /\ ~Commanding(Top')
      /\ Top' # <<"source", "pit">> /\ h \notin {<<"register", "pit">>, <<"source", "tsc">>}
  BY <1>1, <1>6, OpenTraits
<1>8. /\ devices' \in Devices /\ devices'.key = devices.key /\ devices'.pressed = devices.pressed
      /\ (h = Do("abar") => devices'.abar /\ devices'.ghc = devices.ghc)
      /\ (h = Do("ghc") => devices'.ghc /\ devices'.abar = devices.abar)
  BY <1>3, ZenonT(60) DEF Good, DataTypes, Devices
<1>9. DataTypes'
  BY <1>3, <1>8, Zenon DEF Good, DataTypes
<1>10. Interrupts'
  BY <1>3, <1>7, InterruptsKept
<1>11. Disk'
  <2>1. Disk
    BY <1>3 DEF Good, Control
  <2>2. "ahci" \in isr_handler_table
    BY <1>4, <2>1 DEF Disk
  <2>3. CASE h = Do("abar")
    BY <1>8, <2>1, <2>2, <2>3 DEF Disk
  <2>4. CASE h = Do("ghc")
    BY <1>4, <1>8, <2>1, <2>2, <2>4 DEF Disk
  <2> QED
    BY <2>3, <2>4
<1>12. Pit'
  BY <1>3, <1>7, PitKept
<1>13. Nesting'
  <2>1. Reading' = Reading /\ Reading \in Int
    BY <1>3, <1>8, ReadingType DEF Reading
  <2> QED
    BY <1>3, <1>7, <2>1, NestingKept
<1>14. LineOK'
  BY <1>1, <1>3, <1>6, <1>7, <1>9, LineKept DEF DataTypes
<1> QED
  BY <1>3, <1>9, <1>10, <1>11, <1>12, <1>13, <1>14, BufferKept DEF Good, Control, Stays

(* Setting the disk's device pointer keeps the invariant. *)
LEMMA DeviceStep ==
  ASSUME KernelInv, SetDevice
  PROVE  Good'
<1>1. UNCHANGED <<machine, cpu, apic, isr_handler_table, kernel_config, shell, early, fault>>
  BY DEF SetDevice
<1>2. devices \in Devices
  BY Zenon DEF KernelInv, HandlersAreReady, TypeOK, Devices
<1>3. CASE At(Do("pit_init")) /\ Go /\ devices' = [devices EXCEPT !.pit = "rate"]
  <2>1. /\ devices' \in Devices /\ devices'.ghc = devices.ghc /\ devices'.abar = devices.abar
        /\ devices'.key = devices.key /\ devices'.pressed = devices.pressed
    BY <1>2, <1>3 DEF Devices
  <2> QED
    BY <1>1, <1>3, <2>1, DeviceQuiet
<1>4. CASE At(Do("enable_msi")) /\ Go /\ devices' = [devices EXCEPT !.msi = TRUE]
  <2>1. /\ devices' \in Devices /\ devices'.ghc = devices.ghc /\ devices'.abar = devices.abar
        /\ devices'.key = devices.key /\ devices'.pressed = devices.pressed
    BY <1>2, <1>4, Zenon DEF Devices
  <2> QED
    BY <1>1, <1>4, <2>1, DeviceQuiet
<1>5. CASE At(Do("abar")) /\ Go /\ devices' = [devices EXCEPT !.abar = TRUE]
  <2>1. Do("abar") # Do("ghc")
    BY Names
  <2> QED
    BY <1>1, <1>5, <2>1, DeviceOn, SMTT(30), SMTT(60)
<1>6. CASE At(Do("ghc")) /\ Go /\ devices' = [devices EXCEPT !.ghc = TRUE]
  <2>1. Do("abar") # Do("ghc")
    BY Names
  <2> QED
    BY <1>1, <1>6, <2>1, DeviceOn
<1>7. CASE At(Do("send_cmd")) /\ Go /\ devices' = [devices EXCEPT !.busy = TRUE]
  <2>1. /\ devices' \in Devices /\ devices'.ghc = devices.ghc /\ devices'.abar = devices.abar
        /\ devices'.key = devices.key /\ devices'.pressed = devices.pressed
    BY <1>2, <1>7, ZenonT(60) DEF Devices
  <2> QED
    BY <1>1, <1>7, <2>1, DeviceQuiet
<1> QED
  BY <1>3, <1>4, <1>5, <1>6, <1>7 DEF SetDevice

(* The shell's initialisation gives it an empty line and keeps the          *)
(* invariant.                                                               *)
LEMMA InitShellStep ==
  ASSUME KernelInv, InitShell
  PROVE  Good'
<1>1. UNCHANGED <<machine, cpu, apic, isr_handler_table, kernel_config, devices, early, fault>>
  BY DEF InitShell
<1>2. PICK h \in {Do("enabled"), Do("shell_cur"), Do("shell_size"), Do("shell_cmd")} :
        /\ At(h) /\ Go
        /\ h = Do("enabled") => shell' = [shell EXCEPT !.enabled = TRUE]
        /\ h = Do("shell_cur") => shell' = [shell EXCEPT !.cur = 0]
        /\ h = Do("shell_size") => shell' = [shell EXCEPT !.size = Line]
        /\ h = Do("shell_cmd") => shell' = [shell EXCEPT !.capacity = Line]
  BY Names, ZenonT(60) DEF InitShell
<1>3. h \notin Last(1) \union Last(2) /\ h \in OpenWords
  BY Names DEF Last, OpenWords
<1>4. Executed(h)
  BY <1>2, <1>3, AtExecuted, SMTT(30), SMTT(60)
<1>5. Reached(h) /\ Stays /\ Follows(Frame, h, Top') /\ ticked' = FALSE /\ Good /\ Frame = 1 /\ fault = "none"
  BY <1>3, <1>4, OnlyInKmain DEF Executed, Reached
<1>6. Kmain = h /\ Kmain' = Top' /\ Frame' = 1
  BY <1>5, Zenon DEF Reached, Stays
<1>7. /\ (h = Do("enabled") => Top' = Do("shell_cur"))
      /\ (h = Do("shell_cur") => Top' = Do("shell_size"))
      /\ (h = Do("shell_size") => Top' = Do("shell_cmd"))
      /\ (h = Do("shell_cmd") => Top' = Do("check"))
  BY <1>5, Zenon DEF Follows, KmainFollows
<1>8. Top' \in OpenWords /\ Top' # Do("interrupts_enabled") /\ Top' \notin {Do("abar"), Do("ghc")}
  <2>1. Top' \in {Do("shell_cur"), Do("shell_size"), Do("shell_cmd"), Do("check")}
    BY <1>7, Zenon
  <2> QED
    BY <2>1, LoopWords, Zenon
<1>9. /\ Open(Top') /\ ~Booting(Top') /\ ~Unready(h) /\ ~Commanding(Top')
      /\ Top' # <<"source", "pit">> /\ h \notin {<<"register", "pit">>, <<"source", "tsc">>}
  BY <1>3, <1>8, OpenTraits
<1>10. /\ shell' \in Shells /\ shell \in Shells
       /\ h = Do("enabled") => shell'.cur = shell.cur /\ shell'.size = shell.size /\ shell'.capacity = shell.capacity
       /\ h = Do("shell_cur") => shell'.cur = 0 /\ shell'.size = shell.size /\ shell'.capacity = shell.capacity
       /\ h = Do("shell_size") => shell'.cur = shell.cur /\ shell'.size = Line /\ shell'.capacity = shell.capacity
       /\ h = Do("shell_cmd") => shell'.cur = shell.cur /\ shell'.size = shell.size /\ shell'.capacity = Line
       /\ shell'.stray = shell.stray
  <2>1. shell \in Shells /\ Line \in Nat
    BY <1>5, LineAssumption, Zenon DEF Good, DataTypes
  <2>2. CASE h = Do("enabled")
    <3>1. h \notin {Do("shell_cur"), Do("shell_size"), Do("shell_cmd")} /\ shell' = [shell EXCEPT !.enabled = TRUE]
      BY <1>2, <2>2, Names
    <3> QED
      BY <2>1, <3>1, Zenon DEF Shells
  <2>3. CASE h = Do("shell_cur")
    <3>1. h \notin {Do("enabled"), Do("shell_size"), Do("shell_cmd")} /\ shell' = [shell EXCEPT !.cur = 0]
      BY <1>2, <2>3, Names
    <3> QED
      BY <2>1, <3>1 DEF Shells
  <2>4. CASE h = Do("shell_size")
    <3>1. h \notin {Do("enabled"), Do("shell_cur"), Do("shell_cmd")} /\ shell' = [shell EXCEPT !.size = Line]
      BY <1>2, <2>4, Names
    <3> QED
      BY <2>1, <3>1 DEF Shells
  <2>5. CASE h = Do("shell_cmd")
    <3>1. h \notin {Do("enabled"), Do("shell_cur"), Do("shell_size")} /\ shell' = [shell EXCEPT !.capacity = Line]
      BY <1>2, <2>5, Names
    <3> QED
      BY <2>1, <3>1 DEF Shells
  <2> QED
    BY <2>2, <2>3, <2>4, <2>5, Zenon
<1>11. DataTypes'
  BY <1>1, <1>5, <1>10, Zenon DEF Good, DataTypes
<1>12. Interrupts'
  BY <1>1, <1>5, <1>9, InterruptsKept, SMTT(30), SMTT(60)
<1>13. Disk'
  BY <1>1, <1>5, <1>8, DiskKept, SMTT(30), SMTT(60)
<1>14. Pit'
  BY <1>1, <1>5, <1>9, PitKept, SMTT(30), SMTT(60)
<1>15. Nesting'
  <2>1. Reading' = Reading /\ Reading \in Int
    BY <1>1, <1>5, ReadingType, SMTT(30), SMTT(60) DEF Reading
  <2> QED
    BY <1>1, <1>5, <1>9, <2>1, NestingKept, SMTT(30), SMTT(60)
<1>16. LineOK'
  <2>1. LineOK
    BY <1>5, SMTT(30), SMTT(60) DEF Good, Control
  <2>2. shell.cur \in Int /\ shell.size \in Nat /\ shell.capacity \in Nat
    BY <1>10 DEF Shells
  <2>3. Service' /\ ~Ended' /\ ~Ended
    <3>1. 2 .. Frame' = {} /\ 2 .. (Frame' - 1) = {}
      BY <1>6
    <3>2. Service' /\ ~Ended'
      BY <3>1, Zenon DEF Service, Ended
    <3> QED
      BY <1>5, <3>2, NoHandling
  <2>4. CASE h = Do("enabled")
    <3>1. ~InShell(Kmain') /\ Kmain' # Do("shell_cmd") /\ Kmain # Do("shell_cmd")
      BY <1>6, <1>7, <2>4, Names DEF InShell
    <3>2. early' = early /\ shell'.cur = shell.cur /\ shell'.size = shell.size /\ shell'.capacity = shell.capacity /\ shell'.stray = shell.stray
      BY <1>1, <1>10, <2>4, Zenon
    <3> QED
      BY <2>1, <2>3, <3>1, <3>2, ZenonT(60) DEF LineOK, Below
  <2>5. CASE h = Do("shell_cur")
    <3>1. Kmain' # Do("shell_cmd") /\ Kmain # Do("shell_cmd")
      BY <1>6, <1>7, <2>5, Names
    <3>2. early' = early /\ shell'.cur = 0 /\ shell'.size = shell.size /\ shell'.capacity = shell.capacity
      BY <1>1, <1>10, <2>5, Zenon
    <3>3. ~early => shell.size = shell.capacity
      BY <2>1, <3>1, Zenon DEF LineOK
    <3>4. 0 <= shell.capacity /\ ~(0 < 0)
      BY <2>2
    <3> QED
      BY <2>3, <3>1, <3>2, <3>3, <3>4, ZenonT(60) DEF LineOK
  <2>6. CASE h = Do("shell_size")
    <3>1. InShell(Kmain) /\ Kmain' = Do("shell_cmd") /\ Kmain # Do("shell_cmd")
      BY <1>6, <1>7, <2>6, Names, Zenon DEF InShell
    <3>2. early' = early /\ shell'.cur = shell.cur /\ shell'.size = Line /\ shell'.capacity = shell.capacity /\ shell'.stray = shell.stray
      BY <1>1, <1>10, <2>6, Zenon
    <3> QED
      BY <2>1, <2>3, <3>1, <3>2, ZenonT(60) DEF LineOK, Below
  <2>7. CASE h = Do("shell_cmd")
    <3>1. InShell(Kmain) /\ ~InShell(Kmain') /\ Kmain' # Do("shell_cmd") /\ Kmain = Do("shell_cmd")
      BY <1>6, <1>7, <2>7, Names, ZenonT(60) DEF InShell
    <3>2. early' = early /\ shell'.cur = shell.cur /\ shell'.size = shell.size /\ shell'.capacity = Line /\ shell'.stray = shell.stray
      BY <1>1, <1>10, <2>7, Zenon
    <3>3. ~early => shell.size = Line /\ shell.cur = 0
      BY <2>1, <3>1, Zenon DEF LineOK
    <3>4. 0 <= Line
      BY LineAssumption
    <3> QED
      BY <2>1, <2>3, <3>1, <3>2, <3>3, <3>4, ZenonT(60) DEF LineOK, Below
  <2> QED
    BY <2>4, <2>5, <2>6, <2>7, SMTT(30), SMTT(60)
<1>17. LineStaysInBuffer'
  <2>1. LineStaysInBuffer /\ LineOK /\ ~Ended
    BY <1>5, NoHandling DEF Good, Control
  <2>2. shell.cur \in Int /\ shell.capacity \in Nat /\ Line \in Nat
    BY <1>10, LineAssumption DEF Shells
  <2>3. ASSUME ~early PROVE shell'.cur <= shell'.capacity + 1
    <3>1. shell.cur <= shell.capacity
      BY <2>1, <2>3, Zenon DEF LineOK
    <3>2. h = Do("shell_cmd") => shell.cur = 0
      BY <1>6, <2>1, <2>3, Zenon DEF LineOK, InShell
    <3>3. \/ shell'.cur = shell.cur /\ shell'.capacity = shell.capacity
          \/ shell'.cur = 0 /\ shell'.capacity = shell.capacity
          \/ h = Do("shell_cmd") /\ shell'.cur = shell.cur /\ shell'.capacity = Line
      BY <1>2, <1>10, Zenon
    <3> QED
      BY <2>2, <3>1, <3>2, <3>3
  <2> QED
    BY <1>1, <1>10, <2>1, <2>3, Zenon DEF LineStaysInBuffer
<1> QED
  BY <1>1, <1>5, <1>11, <1>12, <1>13, <1>14, <1>15, <1>16, <1>17, SMTT(30), SMTT(60) DEF Good, Control, Stays

(* The halt loop replaces its last statement. *)
LEMMA CheckStep ==
  ASSUME KernelInv, Check
  PROVE  Good'
<1>1. UNCHANGED <<machine, cpu, apic, isr_handler_table, kernel_config, devices, shell, early, fault>> /\ ticked' = FALSE
  BY Zenon DEF Check, Call
<1>2. PICK h \in {Do("check"), Do("again")}, b \in {<< Do("shutdown") >>, << Do("hlt"), Do("again") >>, << Do("hlt"), Do("check") >>} :
        At(h) /\ Call(b)
  BY ZenonT(60) DEF Check
<1>3. Reached(h) /\ Good /\ h \in OpenWords /\ h # Do("shell_cmd") /\ h \in Last(1)
  BY <1>2, AtReached, ReachedGood, Names, SMTT(30), SMTT(60) DEF OpenWords, Last
<1>4. Frame = 1 /\ StackOK(stack) /\ Len(stack) = 1
  BY <1>3, OnlyInKmain, SMTT(30), SMTT(60) DEF Reached, Control, Frame
<1>5. Path(stack[1], 1) /\ stack[1][1] = h
  BY <1>3, <1>4, SMTT(30), SMTT(60) DEF StackOK, Reached, Kmain
<1>6. Tail(stack[1]) = <<>>
  BY <1>3, <1>5, PathLast, SMTT(30), SMTT(60)
<1>7. Path(b, 1) /\ b[1] \in {Do("shutdown"), Do("hlt")} /\ b \o <<>> = b
  <2>1. Follows(1, Do("hlt"), Do("again")) /\ Follows(1, Do("hlt"), Do("check"))
    BY Zenon DEF Follows, KmainFollows, TimerFollows, Do
  <2>2. {Do("shutdown"), Do("hlt"), Do("again"), Do("check")} \subseteq Words(1)
    BY SMTT(30), SMTT(60) DEF Words, OpenWords
  <2>3. CASE b = << Do("shutdown") >>
    <3>1. b \in Seq(Words(1)) /\ Len(b) = 1 /\ b[1] = Do("shutdown") /\ b # <<>> /\ b \o <<>> = b
      BY <2>2, <2>3, SMTT(30), SMTT(60)
    <3> QED
      BY <3>1 DEF Path, Last
  <2>4. CASE b = << Do("hlt"), Do("again") >>
    <3>1. b \in Seq(Words(1)) /\ Len(b) = 2 /\ b[1] = Do("hlt") /\ b[2] = Do("again") /\ b # <<>> /\ b \o <<>> = b
      BY <2>2, <2>4, SMTT(30), SMTT(60)
    <3>2. ASSUME NEW i \in 1 .. (Len(b) - 1) PROVE Follows(1, b[i], b[i + 1])
      BY <2>1, <3>1, SMTT(30), SMTT(60)
    <3> QED
      BY <3>1, <3>2, SMTT(30), SMTT(60) DEF Path, Last
  <2>5. CASE b = << Do("hlt"), Do("check") >>
    <3>1. b \in Seq(Words(1)) /\ Len(b) = 2 /\ b[1] = Do("hlt") /\ b[2] = Do("check") /\ b # <<>> /\ b \o <<>> = b
      BY <2>2, <2>5, SMTT(30), SMTT(60)
    <3>2. ASSUME NEW i \in 1 .. (Len(b) - 1) PROVE Follows(1, b[i], b[i + 1])
      BY <2>1, <3>1
    <3> QED
      BY <3>1, <3>2, SMTT(30), SMTT(60) DEF Path, Last
  <2> QED
    BY <2>3, <2>4, <2>5
<1>8. stack' = [stack EXCEPT ![Len(stack)] = b]
  <2>1. stack' = [stack EXCEPT ![1] = b \o Tail(stack[1])]
    BY <1>2, <1>4 DEF Call
  <2> QED
    BY <1>4, <1>6, <1>7, <2>1, Zenon
<1>9. Moved(stack, stack') /\ stack'[Len(stack)] = b
  BY <1>4, <1>7, <1>8, NewTop, ZenonT(60)
<1>10. Stays
  BY <1>4, <1>9, MovedStays
<1>11. Top' \in {Do("shutdown"), Do("hlt")}
  <2>1. Len(stack') = 1
    BY <1>4, <1>9, Zenon DEF Moved
  <2> QED
    BY <1>4, <1>7, <1>9, <2>1 DEF Top, Frame
<1>12. Top' \in OpenWords /\ Top' # Do("interrupts_enabled") /\ ~InShell(Top') /\ Top' \notin {Do("abar"), Do("ghc")}
  BY <1>11, LoopWords, Zenon
<1>13. Harmless(Frame, h, Top')
  BY <1>3, <1>4, <1>12, OpenHarmless
<1>14. Undisturbed /\ DataTypes'
  BY <1>1, <1>3, Zenon DEF Undisturbed, Reading, Good, DataTypes
<1> QED
  BY <1>3, <1>10, <1>13, <1>14, QuietStep

(* hlt keeps the invariant. *)
LEMMA HltStep ==
  ASSUME KernelInv, Hlt
  PROVE  Good'
<1> DEFINE h == Do("hlt")
<1>1. h \notin Last(1) \union Last(2) /\ h \in OpenWords /\ h # Do("shell_cmd")
  BY Names DEF Last, OpenWords
<1>2. Executed(h)
  BY <1>1, AtExecuted, SMTT(30), SMTT(60) DEF Hlt
<1>3. Reached(h) /\ Stays /\ Follows(Frame, h, Top') /\ ticked' = FALSE /\ Good /\ Frame = 1
  BY <1>1, <1>2, OnlyInKmain DEF Executed
<1>4. Top' \in {Do("check"), Do("again")}
  BY <1>3, ZenonT(60) DEF Follows, KmainFollows
<1>5. Top' \in OpenWords /\ Top' # Do("interrupts_enabled") /\ ~InShell(Top') /\ Top' \notin {Do("abar"), Do("ghc")}
  BY <1>4, Names, SMTT(30), SMTT(60) DEF OpenWords, InShell
<1>6. Harmless(Frame, h, Top')
  BY <1>1, <1>3, <1>5, OpenHarmless
<1>7. cpu' \in Cpus /\ cpu'.iflag = cpu.iflag
  BY <1>3, Zenon DEF Good, DataTypes, Cpus, Hlt
<1>8. Undisturbed /\ DataTypes'
  BY <1>3, <1>7, Zenon DEF Undisturbed, Reading, Good, DataTypes, Hlt
<1> QED
  BY <1>3, <1>6, <1>8, QuietStep, ZenonT(60)

(* Nothing is executed after shutdown. *)
LEMMA ShutdownStep ==
  ASSUME KernelInv, shutdown
  PROVE  KernelInv'
<1>1. stack' = <<>> /\ Frame' = 0 /\ ~Alive'
  BY DEF shutdown, Frame, Alive
<1>2. Frame' <= MaxFrame /\ \A f \in 1 .. Frame' : stack'[f] # <<>>
  BY <1>1, KernelAssumption, SMTT(30), SMTT(60) DEF MaxFrame
<1>3. DataTypes'
  <2>1. DataTypes
    BY Zenon DEF KernelInv, HandlersAreReady, TypeOK, DataTypes, Cpus, Apics, Configs, Devices, Shells, Strays
  <2> QED
    BY <2>1 DEF DataTypes, shutdown
<1>4. /\ fault' \in Vectors \union {"none", "ABAR uninitialized", "push_char", "del_char", "execute_command", "memset"}
  BY Zenon DEF KernelInv, HandlersAreReady, TypeOK, shutdown
<1>5. TypeOK'
  BY <1>2, <1>3, <1>4, Zenon DEF DataTypes, Cpus, Apics, Configs, Devices, Shells, Strays, TypeOK, MaxFrame
<1> QED
  BY <1>1, <1>5, Zenon DEF KernelInv, HandlersAreReady, LineStaysInBuffer, shutdown

-----------------------------------------------------------------------------
(* The keyboard handler. *)

(* kmain is in init_shell exactly when its next statement is one of         *)
(* init_shell.                                                              *)
LEMMA HeadOfKmain ==
  ASSUME StackOK(stack)
  PROVE  InInitShell <=> InShell(Kmain)
<1>1. stack \in Seq(Seq(Words(1) \union Words(2))) /\ Len(stack) \in Nat /\ Len(stack) > 0
  BY DEF StackOK
<1>2. 1 \in 1 .. Len(stack)
  BY <1>1, SMTT(30), SMTT(60)
<1>3. Path(stack[1], 1)
  BY <1>2, SMTT(30), SMTT(60) DEF StackOK
<1>4. stack[1] \in Seq(Words(1)) /\ stack[1] # <<>>
  BY <1>3, SMTT(30), SMTT(60) DEF Path
<1>5. Head(stack[1]) = stack[1][1]
  BY <1>4, SMTT(30), SMTT(60)
<1> QED
  BY <1>5 DEF InInitShell, InShell, Kmain

(* What reading a key leaves of the invariant: all but the line. *)
KeyRead(b) ==
  /\ Reached(Do("kb_handle_key")) /\ Good /\ fault = "none" /\ Frame # 1
  /\ Stays /\ Top' = b /\ ticked' = FALSE
  /\ Interrupts' /\ Disk' /\ Pit'
  /\ devices' \in Devices
  /\ Reading \in Int /\ Reading' \in Int /\ Reading <= Reading'
  /\ devices.key # "none" => Reading' = Reading + 1
  /\ early' \in BOOLEAN /\ (early => early') /\ (~early' => ~InShell(Kmain))
  /\ Service' /\ (Ended' <=> Commanding(b)) /\ ~Ended

(* kb_handle_key takes one key and goes on to a command or to the end of    *)
(* the handler.                                                             *)
LEMMA TakenKey ==
  ASSUME Reached(Do("kb_handle_key")), Stays, Taken, ticked' = FALSE,
         NEW b, b \in ReturnWords \union CommandWords, b \notin {<<"source", "pit">>}, Top' = b,
         UNCHANGED <<machine, cpu, apic, isr_handler_table, kernel_config>>
  PROVE  KeyRead(b)
<1> DEFINE h == Do("kb_handle_key")
<1>1. Good /\ fault = "none" /\ Frame # 1
  BY ReachedGood, OnlyInHandler, ZenonT(60) DEF Reached
<1>2. ~Open(h) /\ h \notin {<<"register", "pit">>, <<"source", "tsc">>}
  BY OpenNames, ReturnNames, Names, SMTT(30), SMTT(60) DEF Open
<1>3. ~cpu.iflag
  BY <1>2 DEF Reached, Control, Interrupts
<1>4. /\ devices' \in Devices /\ devices'.ghc = devices.ghc /\ devices'.abar = devices.abar
      /\ devices'.key = "none" /\ devices'.pressed = devices.pressed
  BY <1>1, SMTT(30), SMTT(60) DEF Good, DataTypes, Devices, Taken
<1>5. Interrupts'
  BY <1>1, <1>3, InterruptsKept, SMTT(30), SMTT(60)
<1>6. Disk'
  BY <1>1, <1>4, DiskKept, SMTT(30), SMTT(60)
<1>7. Pit'
  BY <1>2, PitKept, SMTT(30), SMTT(60)
<1>8. devices.pressed \in Int
  BY <1>1, KernelAssumption, SMTT(30), SMTT(60) DEF Good, DataTypes, Devices
<1>9. Reading \in Int /\ Reading' \in Int /\ Reading <= Reading' /\ (devices.key # "none" => Reading' = Reading + 1)
  BY <1>4, <1>8, SMTT(30), SMTT(60) DEF Reading
<1>10. StackOK(stack)
  BY DEF Reached, Control
<1>11. early' \in BOOLEAN /\ (early => early') /\ (~early' => ~InShell(Kmain))
  <2>1. early \in BOOLEAN
    BY <1>1 DEF Good, DataTypes
  <2>2. early' <=> (early \/ InInitShell)
    BY Zenon DEF Taken
  <2>3. early' \in BOOLEAN
    BY DEF Taken
  <2> QED
    BY <1>10, <2>1, <2>2, <2>3, HeadOfKmain, SMTT(30), SMTT(60)
<1>12. Service' /\ (Ended' <=> Commanding(b)) /\ ~Ended
  <2>1. ~Commanding(h) /\ Handling(h)
    BY CommandTraits, Zenon DEF Handling
  <2>2. Service' /\ (Ended' <=> Commanding(Top')) /\ (Ended <=> Commanding(h))
    BY <1>1, <2>1, HandlingKept, Zenon
  <2> QED
    BY <2>1, <2>2, Zenon
<1> QED
  BY <1>1, <1>4, <1>5, <1>6, <1>7, <1>9, <1>11, <1>12, Zenon DEF KeyRead

(* A key that is handled without a command. *)
LEMMA KeyGo ==
  ASSUME KernelInv, At(Do("kb_handle_key")), Go, Taken,
         UNCHANGED <<machine, cpu, apic, isr_handler_table, kernel_config>>
  PROVE  KeyRead(Do("eoi")) /\ Nesting'
<1> DEFINE h == Do("kb_handle_key")
<1>1. h \notin Last(1) \union Last(2)
  BY Names DEF Last
<1>2. Executed(h)
  BY <1>1, AtExecuted, SMTT(30), SMTT(60)
<1>3. Reached(h) /\ Stays /\ Follows(Frame, h, Top') /\ ticked' = FALSE /\ Good
  BY <1>2 DEF Executed
<1>4. Frame # 1
  BY <1>3, OnlyInHandler, SMTT(30), SMTT(60)
<1>5. Top' = Do("eoi")
  BY <1>3, <1>4, SMTT(30), SMTT(60) DEF Follows, HandlerFollows
<1>6. Do("eoi") \in ReturnWords /\ Do("eoi") # Do("fini") /\ Do("eoi") # <<"source", "pit">>
  BY Names DEF ReturnWords
<1>7. KeyRead(Do("eoi"))
  BY <1>3, <1>5, <1>6, TakenKey, Zenon
<1>8. Nesting'
  <2>1. ~Commanding(Top')
    BY <1>5, <1>6, ReturnTraits, SMTT(30), SMTT(60)
  <2>2. Reading \in Int /\ Reading' \in Int /\ Reading <= Reading'
    BY <1>7, SMTT(30), SMTT(60) DEF KeyRead
  <2> QED
    BY <1>3, <2>1, <2>2, NestingKept, SMTT(30), SMTT(60)
<1> QED
  BY <1>7, <1>8, ZenonT(60)

(* The line after a key, if the shell is not in the middle of init_shell. *)
LEMMA KeyLine ==
  ASSUME NEW b, KeyRead(b),
         shell'.cur < 0 => Below',
         ~early' => /\ Commanding(b) \/ shell'.cur <= shell'.capacity
                    /\ shell'.size = shell'.capacity
  PROVE  LineOK'
<1>1. Kmain' = Kmain
  BY SMTT(30), SMTT(60) DEF KeyRead, Stays
<1>2. ~early' => ~InShell(Kmain') /\ Kmain' # Do("shell_cmd")
  BY <1>1, SMTT(30), SMTT(60) DEF KeyRead, InShell
<1> QED
  BY <1>2, Zenon DEF KeyRead, LineOK

(* The line before it. *)
LEMMA LineBefore ==
  ASSUME NEW b, KeyRead(b)
  PROVE  /\ shell \in Shells /\ LineStaysInBuffer /\ (shell.cur < 0 => Below)
         /\ ~early' => ~early /\ shell.cur <= shell.capacity /\ shell.size = shell.capacity
<1>1. LineOK /\ LineStaysInBuffer /\ shell \in Shells /\ ~Ended /\ (early => early')
  BY Zenon DEF KeyRead, Good, Control, DataTypes
<1>2. ~early' => ~early /\ Kmain # Do("shell_cmd")
  BY <1>1, ZenonT(60) DEF KeyRead, InShell
<1> QED
  BY <1>1, <1>2, Zenon DEF LineOK

(* The shell after a store, and after push_char has made room. *)
LEMMA ShellStored ==
  ASSUME NEW s \in Shells, NEW c \in Int, NEW t \in Strays
  PROVE  [s EXCEPT !.cur = c, !.stray = t] \in Shells
BY Zenon DEF Shells

LEMMA ShellGrown ==
  ASSUME NEW s \in Shells, NEW n \in Nat
  PROVE  /\ [s EXCEPT !.size = n, !.capacity = n] \in Shells
         /\ [s EXCEPT !.size = n, !.capacity = n].stray = s.stray
BY Zenon DEF Shells

(* A store leaves the line in its buffer if it is below the end, or ends    *)
(* the line, and follows a backspace on an empty line if it is below the    *)
(* start.                                                                   *)
LEMMA StoreKept ==
  ASSUME LineStaysInBuffer, shell.stray \in Strays,
         NEW f \in Writers, NEW s, s.capacity \in Nat, NEW i \in Int,
         shell'.stray = shell.stray \union Outside(s, f, i),
         i < 0 => Below \/ f = "del_char",
         ~early' => /\ ~early /\ (i < s.capacity \/ f = "execute_command")
                    /\ shell'.cur <= shell'.capacity + 1
  PROVE  LineStaysInBuffer' /\ shell'.stray \in Strays
         /\ (Below => Below') /\ (f = "del_char" /\ i < 0 => Below')
<1> DEFINE O == Outside(s, f, i)
<1>1. /\ i < 0 => O = {<<f, "below">>}
      /\ i >= s.capacity => O = {<<f, "above">>}
      /\ 0 <= i /\ i < s.capacity => O = {}
  BY DEF Outside
<1>2. i < 0 \/ i >= s.capacity \/ (0 <= i /\ i < s.capacity)
  OBVIOUS
<1>3. i >= s.capacity => ~(i < s.capacity) /\ ~(i < 0)
  OBVIOUS
<1> HIDE DEF O
<1>4. O \in Strays
  <2>1. <<f, "below">> \in Writers \X {"below", "above"} /\ <<f, "above">> \in Writers \X {"below", "above"}
    OBVIOUS
  <2> QED
    BY <1>1, <1>2, <2>1 DEF Strays
<1>5. shell'.stray \in Strays
  BY <1>4 DEF O, Strays
<1>6. ASSUME NEW g \in Writers, <<g, "above">> \in O PROVE g = f /\ i >= s.capacity
  BY <1>1, <1>2, <1>6
<1>7. ASSUME NEW g \in Writers, <<g, "below">> \in O PROVE g = f /\ i < 0
  BY <1>1, <1>2, <1>7
<1>8. Below => Below'
  BY DEF Below
<1>9. f = "del_char" /\ i < 0 => Below'
  BY <1>1 DEF Below, O
<1>10. ASSUME ~early', NEW g \in Writers, <<g, "above">> \in shell'.stray PROVE g = "execute_command"
  <2>1. CASE <<g, "above">> \in shell.stray
    BY <1>10, <2>1, Zenon DEF LineStaysInBuffer
  <2>2. CASE <<g, "above">> \in O
    BY <1>3, <1>6, <1>10, <2>2, Zenon
  <2> QED
    BY <1>10, <2>1, <2>2 DEF O
<1>11. ASSUME NEW g \in Writers, <<g, "below">> \in shell'.stray PROVE Below'
  <2>1. CASE <<g, "below">> \in shell.stray
    BY <1>8, <2>1, Zenon DEF LineStaysInBuffer, Below
  <2>2. CASE <<g, "below">> \in O
    BY <1>7, <1>8, <1>9, <2>2, Zenon
  <2> QED
    BY <1>11, <2>1, <2>2 DEF O
<1>12. LineStaysInBuffer'
  BY <1>10, <1>11, Zenon DEF LineStaysInBuffer, Below
<1> QED
  BY <1>5, <1>8, <1>9, <1>12

(* memset stays in the buffer. *)
LEMMA EmptiedKept ==
  ASSUME shell \in Shells, LineStaysInBuffer, shell' = Emptied(shell),
         ~early' => ~early /\ shell.size = shell.capacity
  PROVE  /\ shell' \in Shells /\ shell'.cur = 0 /\ shell'.size = shell.size /\ shell'.capacity = shell.capacity
         /\ LineStaysInBuffer'
<1>1. shell.size \in Nat /\ shell.capacity \in Nat /\ shell.stray \in Strays
  BY DEF Shells
<1> DEFINE t == IF shell.size = 0 THEN shell.stray ELSE Stored(shell, "memset", shell.size - 1)
<1>2. shell' = [shell EXCEPT !.cur = 0, !.stray = t]
  BY Zenon DEF Emptied
<1> HIDE DEF t
<1>3. shell'.cur = 0 /\ shell'.size = shell.size /\ shell'.capacity = shell.capacity /\ shell'.stray = t
  BY <1>2 DEF Shells
<1>4. shell'.cur <= shell'.capacity + 1
  BY <1>1, <1>3
<1>5. CASE shell.size = 0
  <2>1. shell'.stray = shell.stray
    BY <1>3, <1>5 DEF t
  <2>2. LineStaysInBuffer'
    BY <1>4, <2>1, Zenon DEF LineStaysInBuffer
  <2>3. shell' \in Shells
    <3>1. t \in Strays /\ 0 \in Int
      BY <1>1, <1>3, <2>1
    <3> QED
      BY <1>2, <3>1, ShellStored, Zenon
  <2> QED
    BY <1>3, <2>2, <2>3
<1>6. CASE shell.size # 0
  <2>1. shell'.stray = shell.stray \union Outside(shell, "memset", shell.size - 1)
    BY <1>3, <1>6 DEF t, Stored
  <2>2. shell.size - 1 \in Int /\ ~(shell.size - 1 < 0) /\ (shell.size = shell.capacity => shell.size - 1 < shell.capacity)
    BY <1>1, <1>6
  <2>3. "memset" \in Writers
    BY DEF Writers
  <2>4. LineStaysInBuffer' /\ shell'.stray \in Strays
    BY <1>1, <1>4, <2>1, <2>2, <2>3, StoreKept, Zenon
  <2>5. shell' \in Shells
    <3>1. t \in Strays /\ 0 \in Int
      BY <1>3, <2>4
    <3> QED
      BY <1>2, <3>1, ShellStored, Zenon
  <2> QED
    BY <1>3, <2>4, <2>5
<1> QED
  BY <1>5, <1>6

(* After a key was read, the shell's line is all that is left to show. *)
LEMMA KeyGood ==
  ASSUME NEW b, KeyRead(b), Nesting', LineOK', LineStaysInBuffer', shell' \in Shells,
         UNCHANGED <<machine, cpu, apic, isr_handler_table, kernel_config>>,
         fault' \in {"none", "push_char", "del_char", "execute_command", "memset"}
  PROVE  Good'
<1>1. DataTypes'
  BY Zenon DEF KeyRead, Good, DataTypes
<1> QED
  BY <1>1 DEF KeyRead, Good, Control, Stays

(* A key without a character keeps the invariant. *)
LEMMA NoCharStep ==
  ASSUME KernelInv, NoChar
  PROVE  Good'
<1>1. At(Do("kb_handle_key")) /\ Go /\ Taken /\ UNCHANGED <<machine, cpu, apic, isr_handler_table, kernel_config, shell, fault>>
  BY DEF NoChar, KeyIs
<1>2. KeyRead(Do("eoi")) /\ Nesting'
  BY <1>1, KeyGo, SMTT(30), SMTT(60)
<1>3. shell' = shell /\ fault' = "none" /\ (Below => Below')
  BY <1>1, <1>2, Zenon DEF KeyRead, Below
<1>4. LineOK'
  BY <1>2, <1>3, KeyLine, LineBefore, Zenon
<1>5. LineStaysInBuffer' /\ shell' \in Shells
  BY <1>2, <1>3, LineBefore, Zenon DEF LineStaysInBuffer
<1> QED
  BY <1>1, <1>2, <1>3, <1>4, <1>5, KeyGood, SMTT(30), SMTT(60)

(* push_char keeps the line within its buffer. *)
LEMMA PushCharStep ==
  ASSUME KernelInv, PushChar
  PROVE  Good'
<1>1. At(Do("kb_handle_key")) /\ Go /\ Taken /\ UNCHANGED <<machine, cpu, apic, isr_handler_table, kernel_config>>
  BY SMTT(30), SMTT(60) DEF PushChar, KeyIs
<1>2. KeyRead(Do("eoi")) /\ Nesting'
  BY <1>1, KeyGo, SMTT(30), SMTT(60)
<1>3. shell \in Shells /\ Line \in Nat /\ Line > 0
  BY <1>2, LineBefore, LineAssumption, SMTT(30), SMTT(60)
<1> DEFINE g == Grown(shell)
<1>4. /\ g.capacity \in Nat /\ g.size \in Nat /\ g.stray = shell.stray /\ g \in Shells
      /\ shell.cur \in Int /\ shell.stray \in Strays
  <2>1. shell.size + Line \in Nat
    BY <1>3 DEF Shells
  <2>2. g \in Shells /\ g.stray = shell.stray
    BY <1>3, <2>1, ShellGrown DEF Grown
  <2> QED
    BY <1>3, <2>2 DEF Shells
<1>5. ASSUME shell.cur <= shell.capacity, shell.size = shell.capacity
      PROVE  shell.cur < g.capacity /\ g.size = g.capacity
  BY <1>3, <1>5 DEF Grown, Shells
<1> HIDE DEF g
<1>6. shell' = [g EXCEPT !.cur = shell.cur + 1, !.stray = g.stray \union Outside(g, "push_char", shell.cur)]
  BY Zenon DEF PushChar, push_char, Stored, g
<1>7. /\ shell'.cur = shell.cur + 1 /\ shell'.size = g.size /\ shell'.capacity = g.capacity
      /\ shell'.stray = shell.stray \union Outside(g, "push_char", shell.cur)
  BY <1>4, <1>6 DEF Shells
<1>8. ~early' => ~early /\ shell.cur < g.capacity /\ shell'.size = shell'.capacity
  BY <1>2, <1>5, <1>7, LineBefore, Zenon
<1>9. /\ ~early' => shell'.cur <= shell'.capacity /\ shell'.cur <= shell'.capacity + 1
      /\ shell'.cur < 0 => shell.cur < 0
  BY <1>4, <1>7, <1>8
<1>10. "push_char" \in Writers
  BY DEF Writers
<1>11. LineStaysInBuffer' /\ shell'.stray \in Strays /\ (Below => Below')
  BY <1>2, <1>4, <1>7, <1>8, <1>9, <1>10, LineBefore, StoreKept, Zenon
<1>12. LineOK'
  BY <1>2, <1>8, <1>9, <1>11, LineBefore, KeyLine, Zenon
<1>13. shell' \in Shells
  <2>1. shell.cur + 1 \in Int
    BY <1>4
  <2> QED
    BY <1>4, <1>6, <1>7, <1>11, <2>1, ShellStored
<1>14. fault' \in {"none", "push_char"}
  BY DEF PushChar
<1> QED
  BY <1>1, <1>2, <1>11, <1>12, <1>13, <1>14, KeyGood, Zenon

(* del_char keeps what is known of the line: below its buffer it is known   *)
(* to have stored.                                                          *)
LEMMA DelCharStep ==
  ASSUME KernelInv, DelChar
  PROVE  Good'
<1>1. At(Do("kb_handle_key")) /\ Go /\ Taken /\ UNCHANGED <<machine, cpu, apic, isr_handler_table, kernel_config>>
  BY ZenonT(60) DEF DelChar, KeyIs
<1>2. KeyRead(Do("eoi")) /\ Nesting'
  BY <1>1, KeyGo
<1>3. shell \in Shells
  BY <1>2, LineBefore
<1>4. shell.cur \in Int /\ shell.capacity \in Nat /\ shell.stray \in Strays
  BY <1>3 DEF Shells
<1>5. shell' = [shell EXCEPT !.cur = shell.cur - 1, !.stray = shell.stray \union Outside(shell, "del_char", shell.cur - 1)]
  BY Zenon DEF DelChar, del_char, Stored
<1>6. /\ shell'.cur = shell.cur - 1 /\ shell'.size = shell.size /\ shell'.capacity = shell.capacity
      /\ shell'.stray = shell.stray \union Outside(shell, "del_char", shell.cur - 1)
  BY <1>3, <1>5 DEF Shells
<1>7. ~early' => ~early /\ shell.cur <= shell.capacity /\ shell'.size = shell'.capacity
  BY <1>2, <1>6, LineBefore, Zenon
<1>8. /\ ~early' => shell.cur - 1 < shell.capacity /\ shell'.cur <= shell'.capacity /\ shell'.cur <= shell'.capacity + 1
      /\ shell.cur - 1 \in Int /\ (shell'.cur < 0 => shell.cur - 1 < 0)
  BY <1>4, <1>6, <1>7
<1>9. "del_char" \in Writers
  BY DEF Writers
<1>10. LineStaysInBuffer' /\ shell'.stray \in Strays /\ (shell.cur - 1 < 0 => Below')
  BY <1>2, <1>4, <1>6, <1>7, <1>8, <1>9, LineBefore, StoreKept, Zenon
<1>11. LineOK'
  BY <1>2, <1>7, <1>8, <1>10, KeyLine, Zenon
<1>12. shell' \in Shells
  BY <1>3, <1>5, <1>8, <1>10 DEF Shells
<1>13. fault' \in {"none", "del_char"}
  BY DEF DelChar
<1> QED
  BY <1>1, <1>2, <1>10, <1>11, <1>12, <1>13, KeyGood, Zenon

(* The body of a command. *)
LEMMA CommandBody ==
  ASSUME NEW f \in Nat, f # 1, NEW body \in {<<>>} \union {<< Do(c) >> : c \in Commands}
  PROVE  LET b == body \o << Do("fini") >> IN
           /\ Body(b, f) /\ b[Len(b)] = Do("fini")
           /\ b[1] \in {Do("fini"), Do("kexit"), Do("enable_pit"), Do("enable_apic")}
<1> DEFINE e == << Do("fini") >>
<1>1. {Do("fini"), Do("kexit"), Do("enable_pit"), Do("enable_apic")} \subseteq Words(f)
  BY SMTT(30), SMTT(60) DEF Words, CommandWords, TimerWords, ReturnWords
<1>2. e \in Seq(Words(f)) /\ Len(e) = 1 /\ e[1] = Do("fini") /\ e # <<>> /\ <<>> \o e = e
  BY <1>1, SMTT(30), SMTT(60)
<1>3. Body(e, f) /\ e[Len(e)] = Do("fini")
  <2> HIDE DEF e
  <2> QED
    BY <1>2, SMTT(30), SMTT(60) DEF Body
<1>4. CASE body = <<>>
  BY <1>2, <1>3, <1>4, SMTT(30), SMTT(60)
<1>5. CASE body \in {<< Do(c) >> : c \in Commands}
  <2>1. PICK c \in Commands : body = << Do(c) >>
    BY <1>5
  <2>2. c \in {"kexit", "enable_pit", "enable_apic"}
    BY KernelAssumption
  <2>3. Do(c) \in {Do("kexit"), Do("enable_pit"), Do("enable_apic")}
    BY <2>2, SMTT(30), SMTT(60)
  <2> DEFINE w == Do(c)
  <2>4. w \in Words(f) /\ w \in {Do("kexit"), Do("enable_pit"), Do("enable_apic")}
    BY <1>1, <2>3, SMTT(30), SMTT(60)
  <2>5. Follows(f, w, Do("fini"))
    <3>1. Follows(f, Do("kexit"), Do("fini"))
      BY Zenon DEF Follows, HandlerFollows, TimerFollows, Do
    <3>2. Follows(f, Do("enable_pit"), Do("fini"))
      BY Zenon DEF Follows, HandlerFollows, TimerFollows, Do
    <3>3. Follows(f, Do("enable_apic"), Do("fini"))
      BY Zenon DEF Follows, HandlerFollows, TimerFollows, Do
    <3> QED
      BY <2>3, <3>1, <3>2, <3>3
  <2> DEFINE d == << w >>
  <2> HIDE DEF w
  <2>6. d \in Seq(Words(f)) /\ Len(d) = 1 /\ d[1] = w /\ d # <<>>
    BY <2>4, SMTT(30), SMTT(60)
  <2> HIDE DEF d, e
  <2>7. Body(d, f) /\ d[Len(d)] = w
    BY <2>6, SMTT(30), SMTT(60) DEF Body
  <2> DEFINE g == body \o << Do("fini") >>
  <2>8. Joined(g, d, e)
    BY <2>1, SMTT(30), SMTT(60) DEF d, e, w, Joined
  <2> HIDE DEF g
  <2>9. Follows(f, d[Len(d)], e[1])
    BY <1>2, <2>5, <2>7, SMTT(30), SMTT(60)
  <2>10. Body(g, f) /\ g[1] = d[1] /\ g[Len(g)] = e[Len(e)]
    BY <1>3, <2>7, <2>8, <2>9, BodyJoined, SMTT(30), SMTT(60)
  <2> QED
    BY <1>3, <2>4, <2>6, <2>10, SMTT(30), SMTT(60) DEF g
<1> QED
  BY <1>4, <1>5, SMTT(30), SMTT(60)

(* After a command the line is ended, and emptied once the command returns. *)
LEMMA ExecuteStep ==
  ASSUME KernelInv, ExecuteCommand
  PROVE  Good'
<1> DEFINE h == Do("kb_handle_key")
<1>1. At(h) /\ Taken /\ devices.key = "enter" /\ UNCHANGED <<machine, cpu, apic, isr_handler_table, kernel_config>>
  BY DEF ExecuteCommand, KeyIs
<1>2. Reached(h) /\ Frame # 1 /\ shell \in Shells /\ Frame \in Nat /\ Frame > 0
  BY <1>1, AtReached, OnlyInHandler, ReachedGood, ZenonT(60) DEF Good, DataTypes, Reached
<1>3. CASE Go /\ shell' = Emptied(shell) /\ fault' = Clearing
  <2>1. KeyRead(Do("eoi")) /\ Nesting'
    BY <1>1, <1>3, KeyGo
  <2>2. ~early' => ~early /\ shell.size = shell.capacity
    BY <2>1, LineBefore, Zenon
  <2>3. /\ shell' \in Shells /\ shell'.cur = 0 /\ shell'.size = shell.size /\ shell'.capacity = shell.capacity
        /\ LineStaysInBuffer'
    BY <1>3, <2>1, <2>2, LineBefore, EmptiedKept, Zenon
  <2>4. ~(shell'.cur < 0) /\ shell'.cur <= shell'.capacity
    BY <2>3 DEF Shells
  <2>5. LineOK'
    BY <2>1, <2>2, <2>3, <2>4, KeyLine, Zenon
  <2>6. fault' \in {"none", "memset"}
    BY <1>3 DEF Clearing
  <2> QED
    BY <1>1, <2>1, <2>3, <2>5, <2>6, KeyGood, Zenon
<1>4. CASE /\ \E body \in {<<>>} \union {<< Do(c) >> : c \in Commands} : Call(body \o << Do("fini") >>)
           /\ shell' = Terminated(shell)
           /\ fault' = IF IsNull(shell) THEN "execute_command" ELSE "none"
  <2>1. PICK body \in {<<>>} \union {<< Do(c) >> : c \in Commands} : Call(body \o << Do("fini") >>)
    BY <1>4
  <2> DEFINE b == body \o << Do("fini") >>
  <2>2. /\ Body(b, Frame) /\ b[Len(b)] = Do("fini") /\ Call(b)
        /\ b[1] \in {Do("fini"), Do("kexit"), Do("enable_pit"), Do("enable_apic")}
    BY <1>2, <2>1, CommandBody, ZenonT(60)
  <2> HIDE DEF b
  <2>3. h \notin Last(1) \union Last(2)
    BY Names DEF Last
  <2>4. Follows(Frame, Do("fini"), stack[Frame][2])
    <3>1. Follows(Frame, h, stack[Frame][2])
      BY <1>2, <2>3, SecondWord, Zenon
    <3>2. stack[Frame][2] = Do("eoi")
      BY <1>2, <3>1, Zenon DEF Follows, HandlerFollows
    <3>3. HandlerFollows(Do("fini"), Do("eoi"))
      BY Zenon DEF HandlerFollows, TimerFollows, Do
    <3> QED
      BY <1>2, <3>2, <3>3, Zenon DEF Follows
  <2>5. Stays /\ Top' = b[1] /\ ticked' = FALSE
    BY <1>2, <2>2, <2>3, <2>4, CallStays, Zenon
  <2> DEFINE w == b[1]
  <2>6. w \in ReturnWords \union CommandWords /\ w \notin {<<"source", "pit">>} /\ Top' = w
    BY <2>2, <2>5, Names, ZenonT(60) DEF ReturnWords, CommandWords, TimerWords
  <2> HIDE DEF w
  <2>7. KeyRead(w)
    BY <1>1, <1>2, <2>5, <2>6, TakenKey, Zenon
  <2>8. Nesting'
    <3>1. Reading' = Reading + 1 /\ Reading \in Int /\ Frame' = Frame
      <4>1. devices.key = "enter"
        BY <1>1, Zenon
      <4>2. devices.key # "none"
        BY <4>1, SMTT(30), SMTT(60)
      <4> QED
        BY <2>7, <4>2, Zenon DEF KeyRead, Stays
    <3>2. 0 <= Reading /\ Frame - 2 <= Reading
      BY <1>2, Zenon DEF Reached, Control, Nesting
    <3>3. Frame \in Nat
      BY <1>2, ZenonT(60)
    <3>4. 0 <= Reading' /\ Frame' - 1 <= Reading' /\ Frame' - 2 <= Reading'
      BY <3>1, <3>2, <3>3, SMTT(30), SMTT(60)
    <3> QED
      BY <3>4, Zenon DEF Nesting
  <2>9. Commanding(w)
    BY <2>2, Zenon DEF w, Commanding, CommandWords, TimerWords
  <2>10. shell.cur \in Int /\ shell.capacity \in Nat /\ shell.stray \in Strays
    BY <1>2 DEF Shells
  <2>11. shell' = [shell EXCEPT !.cur = shell.cur + 1, !.stray = shell.stray \union Outside(shell, "execute_command", shell.cur)]
    BY <1>4, Zenon DEF Terminated, Stored
  <2>12. /\ shell'.cur = shell.cur + 1 /\ shell'.size = shell.size /\ shell'.capacity = shell.capacity
         /\ shell'.stray = shell.stray \union Outside(shell, "execute_command", shell.cur)
    BY <1>2, <2>11 DEF Shells
  <2>13. ~early' => ~early /\ shell.cur <= shell.capacity /\ shell'.size = shell'.capacity
    BY <2>7, <2>12, LineBefore, Zenon
  <2>14. /\ ~early' => shell'.cur <= shell'.capacity + 1
         /\ shell'.cur < 0 => shell.cur < 0
    BY <2>10, <2>12, <2>13
  <2>15. "execute_command" \in Writers
    BY DEF Writers
  <2>16. LineStaysInBuffer' /\ shell'.stray \in Strays /\ (Below => Below')
    BY <2>7, <2>10, <2>12, <2>13, <2>14, <2>15, LineBefore, StoreKept, Zenon
  <2>17. LineOK'
    BY <2>7, <2>9, <2>13, <2>14, <2>16, LineBefore, KeyLine, Zenon
  <2>18. shell' \in Shells
    <3>1. shell.cur + 1 \in Int
      BY <2>10
    <3> QED
      BY <1>2, <2>11, <2>12, <2>16, <3>1, ShellStored
  <2>19. fault' \in {"none", "execute_command"}
    BY <1>4, Zenon
  <2> QED
    BY <1>1, <2>7, <2>8, <2>16, <2>17, <2>18, <2>19, KeyGood, ZenonT(60)
<1> QED
  BY <1>3, <1>4, SMTT(30), SMTT(60) DEF ExecuteCommand

(* The clearing of the line after a command keeps the invariant. *)
LEMMA FiniStep ==
  ASSUME KernelInv, Fini
  PROVE  Good'
<1> DEFINE h == Do("fini")
<1>1. h \notin Last(1) \union Last(2) /\ h \in ReturnWords
  BY Names, SMTT(30), SMTT(60), ZenonT(60) DEF Last, ReturnWords
<1>2. UNCHANGED <<machine, cpu, apic, isr_handler_table, kernel_config, devices, early>> /\ shell' = Emptied(shell) /\ fault' = Clearing
  BY SMTT(30), SMTT(60) DEF Fini
<1>3. Executed(h)
  BY <1>1, AtExecuted, SMTT(30), SMTT(60) DEF Fini
<1>4. Reached(h) /\ Stays /\ Follows(Frame, h, Top') /\ ticked' = FALSE /\ Good /\ Frame # 1 /\ fault = "none"
  BY <1>1, <1>3, OnlyInHandler, SMTT(30), SMTT(60) DEF Executed
<1>5. Top' = Do("eoi")
  BY <1>4, SMTT(30), SMTT(60) DEF Follows, HandlerFollows
<1>6. Top' \in ReturnWords /\ Top' # Do("fini") /\ Commanding(h)
  BY <1>5, Names, SMTT(30), SMTT(60) DEF ReturnWords, Commanding
<1>7. Open(Top') /\ ~Commanding(Top') /\ Top' # <<"source", "pit">> /\ h \notin {<<"register", "pit">>, <<"source", "tsc">>}
  BY <1>1, <1>6, ReturnTraits
<1>8. Service' /\ ~Ended' /\ Ended
  <2>1. Handling(h)
    BY <1>6 DEF Handling
  <2>2. Service' /\ (Ended' <=> Commanding(Top')) /\ (Ended <=> Commanding(h))
    BY <1>2, <1>4, <2>1, HandlingKept, Zenon
  <2> QED
    BY <1>6, <1>7, <2>2
<1>9. Kmain' = Kmain /\ (~early => Kmain # Do("shell_cmd") /\ ~InShell(Kmain))
  BY <1>4, <1>8, Zenon DEF Stays, Good, Control, LineOK, InShell
<1>10. ~early => shell.size = shell.capacity
  BY <1>4, <1>9, SMTT(30), SMTT(60) DEF Good, Control, LineOK
<1>11. /\ shell' \in Shells /\ shell'.cur = 0 /\ shell'.size = shell.size /\ shell'.capacity = shell.capacity
       /\ LineStaysInBuffer'
  BY <1>2, <1>4, <1>10, EmptiedKept, Zenon DEF Good, DataTypes
<1>12. LineOK' /\ fault' \in {"none", "memset"}
  <2>1. ~(shell'.cur < 0) /\ shell'.cur <= shell'.capacity
    BY <1>11 DEF Shells
  <2>2. LineOK'
    BY <1>2, <1>8, <1>9, <1>10, <1>11, <2>1, Zenon DEF LineOK
  <2> QED
    BY <1>2, <2>2 DEF Clearing
<1>13. DataTypes'
  BY <1>2, <1>4, <1>11, ZenonT(60) DEF Good, DataTypes
<1>14. Interrupts'
  BY <1>2, <1>4, <1>7, InterruptsKept, SMTT(30), SMTT(60)
<1>15. Disk'
  BY <1>2, <1>4, DiskKept, SMTT(30), SMTT(60)
<1>16. Pit'
  BY <1>2, <1>4, <1>7, PitKept, SMTT(30), SMTT(60)
<1>17. Nesting'
  <2>1. Reading' = Reading /\ Reading \in Int
    BY <1>2, <1>4, ReadingType DEF Reading
  <2> QED
    BY <1>2, <1>4, <1>7, <2>1, NestingKept, SMTT(30), SMTT(60)
<1> QED
  BY <1>2, <1>4, <1>11, <1>12, <1>13, <1>14, <1>15, <1>16, <1>17, ZenonT(60) DEF Good, Control, Stays

-----------------------------------------------------------------------------
(* The end of a handler, and the interrupts. *)

(* lapic_send_eoi keeps the invariant. *)
LEMMA EoiStep ==
  ASSUME KernelInv, lapic_send_eoi
  PROVE  Good'
<1> DEFINE h == Do("eoi")
<1>1. h \notin Last(1) \union Last(2) /\ h \in ReturnWords
  BY Names, Zenon DEF Last, ReturnWords
<1>2. Reached(h) /\ Good
  BY AtReached, ReachedGood DEF lapic_send_eoi
<1>3. Frame # 1 /\ Frame = Len(stack) /\ h \notin Last(Frame) /\ stack[Frame][1] = h /\ StackOK(stack)
  BY <1>1, <1>2, OnlyInHandler, SecondWord, Zenon DEF Reached, Control
<1>4. stack' = [stack EXCEPT ![Len(stack)] = Tail(stack[Len(stack)])]
  BY <1>3 DEF lapic_send_eoi, StackOK
<1>5. Moved(stack, stack') /\ Follows(Len(stack), stack[Len(stack)][1], stack'[Len(stack)][1])
  BY <1>3, <1>4, GoMoves, ZenonT(60)
<1>6. Stays
  BY <1>3, <1>5, MovedStays, SMTT(30), SMTT(60)
<1>7. Follows(Frame, h, Top')
  <2>1. Len(stack') = Len(stack)
    BY <1>5, SMTT(30), SMTT(60) DEF Moved
  <2> QED
    BY <1>3, <1>5, <2>1, SMTT(30), SMTT(60) DEF Top, Frame
<1>8. Top' = Do("iret")
  BY <1>3, <1>7, SMTT(30), SMTT(60) DEF Follows, HandlerFollows
<1>9. Top' \in ReturnWords /\ Top' # Do("fini")
  BY <1>8, Names DEF ReturnWords
<1>10. /\ Open(h) /\ Open(Top') /\ ~Commanding(h) /\ ~Commanding(Top') /\ Top' # <<"source", "pit">>
       /\ h \notin {<<"register", "pit">>, <<"source", "tsc">>} /\ ~Handling(Top') /\ h # Do("iret")
  <2>1. h # Do("fini") /\ Top' # Do("kb_handle_key") /\ h # Do("iret")
    BY <1>8, Names
  <2> QED
    BY <1>1, <1>9, <2>1, ReturnTraits, Zenon DEF Handling
<1>11. /\ apic' \in Apics /\ apic'.irr = apic.irr /\ apic'.unmasked = apic.unmasked /\ apic'.isr = apic.isr \ Highest(apic.isr)
       /\ UNCHANGED <<machine, cpu, isr_handler_table, kernel_config, devices, shell, ticked, early, fault>>
  BY <1>2 DEF Good, DataTypes, Apics, lapic_send_eoi
<1>12. DataTypes'
  BY <1>2, <1>11, Zenon DEF Good, DataTypes
<1>13. Interrupts'
  BY <1>2, <1>3, <1>6, <1>10, <1>11, InterruptsKept, Zenon
<1>14. Disk'
  BY <1>2, <1>3, <1>6, <1>11, DiskKept, Zenon
<1>15. Pit'
  BY <1>2, <1>6, <1>10, <1>11, PitKept, Zenon
<1>16. Nesting'
  <2>1. Reading' = Reading /\ Reading \in Int
    BY <1>2, <1>11, ReadingType DEF Reading
  <2>2. Reading <= Reading' /\ Reading' \in Int /\ (cpu'.iflag => cpu.iflag)
    BY <1>11, <2>1
  <2> QED
    BY <1>2, <1>6, <1>10, <2>1, <2>2, NestingKept, Zenon
<1>17. /\ Frame' = Frame /\ Frame \in Nat /\ Frame > 1 /\ Top' = stack'[Frame][1] /\ Top = h /\ Kmain' = Kmain
       /\ \A f \in 2 .. Frame : f # Frame => f \in 2 .. (Frame - 1) /\ stack'[f][1] = stack[f][1]
       /\ \A f \in 2 .. (Frame - 1) : f \in 2 .. Frame /\ f # Frame
  BY <1>2, <1>3, <1>6 DEF Stays, Reached, Top
<1>18. LineOK'
  <2>1. LineOK /\ Service
    BY <1>2 DEF Good, Control, LineOK
  <2>2. "ahci" \in apic.isr => "keyboard" \notin Highest(apic.isr)
    <3>1. Number["ahci"] = 121 /\ Number["keyboard"] = 33 /\ ~(121 <= 33)
      BY DEF Number
    <3> QED
      BY <3>1, Zenon DEF Highest
  <2>3. ASSUME NEW f \in 2 .. Frame, Handling(stack'[f][1])
        PROVE  f = Frame - 1 /\ ~cpu.iflag /\ "keyboard" \in apic'.isr
    <3>1. f # Frame
      BY <1>10, <1>17, <2>3
    <3>2. f \in 2 .. (Frame - 1) /\ Handling(stack[f][1])
      BY <1>17, <2>3, <3>1, Zenon
    <3>3. "keyboard" \in apic.isr /\ "ahci" \in apic.isr /\ f = Frame - 1 /\ ~cpu.iflag
      BY <1>17, <2>1, <3>2, Zenon DEF Service
    <3> QED
      BY <1>11, <2>2, <3>3
  <2>4. Service'
    BY <1>8, <1>10, <1>11, <1>17, <2>3, Zenon DEF Service
  <2>5. Ended' <=> Ended
    BY <1>3, <1>10, <1>17, Zenon DEF Ended
  <2> QED
    BY <1>11, <1>17, <2>1, <2>4, <2>5, Zenon DEF LineOK, Below
<1> QED
  BY <1>2, <1>6, <1>11, <1>12, <1>13, <1>14, <1>15, <1>16, <1>18, BufferKept, ZenonT(60) DEF Good, Control, Stays

(* A frame that can be interrupted is at none of the statements on which the *)
(* handlers depend.                                                         *)
LEMMA OpenIs ==
  ASSUME NEW w, Open(w)
  PROVE  w \notin {<<"register", "pit">>, <<"source", "tsc">>, <<"source", "pit">>} /\ ~Unready(w)
<1>1. \A x \in ReturnWords : ~Unready(x)
  BY ReturnNames, Names DEF Unready
<1> QED
  BY <1>1, OpenTraits, ReturnTraits, ZenonT(60) DEF Open

(* The return from a handler keeps the invariant. *)
LEMMA IretStep ==
  ASSUME KernelInv, Iret
  PROVE  Good'
<1> DEFINE h == Do("iret")
           n == Frame - 1
           W == Seq(Words(1) \union Words(2))
<1>1. h \in ReturnWords /\ h # Do("fini")
  BY Names DEF ReturnWords
<1>2. Reached(h) /\ Good /\ fault = "none" /\ Top = h
  BY AtReached, ReachedGood, SMTT(30), SMTT(60) DEF Iret, Reached
<1>3. Frame # 1 /\ Frame \in Nat /\ Frame > 0
  BY <1>1, <1>2, OnlyInHandler DEF Reached
<1>4. n \in Nat /\ n > 0 /\ n < Frame
  BY <1>3, SMTT(30), SMTT(60)
<1>5. /\ stack \in Seq(W) /\ Len(stack) = Frame
      /\ \A f \in 1 .. Frame : Path(stack[f], f)
      /\ \A f \in 1 .. n : Open(stack[f][1])
  BY <1>2, SMTT(30), SMTT(60) DEF Reached, Control, StackOK, Frame
<1> HIDE DEF W, n
<1>6. stack' \in Seq(W) /\ Len(stack') = n /\ \A f \in 1 .. n : stack'[f] = stack[f]
  <2>1. stack' = SubSeq(stack, 1, n)
    BY SMTT(30), SMTT(60) DEF Iret, n
  <2> QED
    BY <1>4, <1>5, <2>1
<1>7. Frame' = n /\ Kmain' = Kmain /\ Open(Top') /\ Top' = stack[n][1]
  BY <1>4, <1>5, <1>6, SMTT(30), SMTT(60) DEF Frame, Kmain, Top
<1>8. StackOK(stack')
  <2>1. stack' # <<>>
    BY <1>4, <1>6, SMTT(30), SMTT(60)
  <2>2. \A f \in 1 .. Len(stack') : Path(stack'[f], f)
    BY <1>4, <1>5, <1>6, <1>3, SMTT(30), SMTT(60)
  <2>3. \A f \in 1 .. (Len(stack') - 1) : Open(stack'[f][1])
    BY <1>4, <1>5, <1>6
  <2> QED
    BY <1>6, <2>1, <2>2, <2>3, SMTT(30), SMTT(60) DEF StackOK, W
<1>9. UNCHANGED <<machine, apic, isr_handler_table, kernel_config, devices, shell, ticked, early, fault>> /\ cpu' \in Cpus
  BY <1>2, Zenon DEF Iret, Good, DataTypes, Cpus
<1>10. DataTypes'
  BY <1>2, <1>9, Zenon DEF Good, DataTypes
<1>11. Interrupts'
  BY <1>2, <1>7, <1>9, ZenonT(60) DEF Good, Control, Interrupts
<1>12. Disk'
  BY <1>2, <1>7, <1>9 DEF Good, Control, Disk
<1>13. Pit'
  <2>1. Top \notin {<<"register", "pit">>, <<"source", "tsc">>} /\ Top' # <<"source", "pit">>
    BY <1>1, <1>2, <1>7, OpenIs, ReturnTraits, SMTT(30), SMTT(60)
  <2> QED
    BY <1>2, <1>9, <2>1, BufferKept, ZenonT(60) DEF Good, Control, Pit
<1>14. Nesting'
  <2>1. Reading' = Reading /\ Reading \in Int /\ 0 <= Reading /\ Frame - 2 <= Reading
    BY <1>2, <1>9, ReadingType, Zenon DEF Reading, Good, Control, Nesting
  <2> QED
    BY <1>3, <1>7, <2>1, SMTT(20) DEF Nesting, n
<1>15. LineOK'
  <2>1. LineOK /\ Service
    BY <1>2 DEF Good, Control, LineOK
  <2>2. /\ \A f \in 2 .. n : f \in 2 .. Frame /\ f \in 2 .. (Frame - 1) /\ stack'[f] = stack[f]
        /\ \A f \in 2 .. Frame : f # Frame => f \in 2 .. n
        /\ \A f \in 2 .. (n - 1) : f \in 2 .. n /\ f # Frame - 1
    BY <1>3, <1>4, <1>6 DEF n
  <2>3. ~Commanding(stack[Frame][1])
    BY <1>1, <1>2, ReturnTraits DEF Top
  <2>4. Ended' <=> Ended
    BY <1>7, <2>2, <2>3, Zenon DEF Ended
  <2>5. Service'
    BY <1>7, <1>9, <2>1, <2>2, Zenon DEF Service
  <2> QED
    BY <1>7, <1>9, <2>1, <2>4, <2>5, Zenon DEF LineOK, Below
<1> QED
  BY <1>2, <1>8, <1>9, <1>10, <1>11, <1>12, <1>13, <1>14, <1>15, BufferKept, ZenonT(60) DEF Good, Control

(* What the hardware does while the kernel is alive. *)
LEMMA AliveGood ==
  ASSUME KernelInv, Alive
  PROVE  Good /\ fault = "none" /\ Frame \in Nat /\ Frame > 0 /\ Frame = Len(stack)
         /\ stack \in Seq(Seq(Words(1) \union Words(2)))
<1>1. DataTypes
  BY Zenon DEF KernelInv, HandlersAreReady, TypeOK, DataTypes, Cpus, Apics, Configs, Devices, Shells, Strays
<1>2. Control /\ fault = "none" /\ LineStaysInBuffer
  BY DEF KernelInv, Control, Alive
<1>3. /\ Frame \in Nat /\ Frame > 0 /\ Frame = Len(stack)
      /\ stack \in Seq(Seq(Words(1) \union Words(2)))
  BY <1>2, SMTT(30) DEF Control, StackOK, Frame
<1> QED
  BY <1>1, <1>2, <1>3 DEF Good

(* What the devices do by themselves keeps the invariant. *)
LEMMA DevicesStep ==
  ASSUME KernelInv, (\E k \in Keys : PressKey(k)) \/ PitTick \/ AhciInterrupt
  PROVE  Good'
<1>1. Alive /\ UNCHANGED <<machine, stack, cpu, isr_handler_table, kernel_config, shell, early, fault>>
  BY Zenon DEF PressKey, PitTick, AhciInterrupt
<1>2. Good /\ fault = "none"
  BY <1>1, AliveGood, SMTT(30), SMTT(60)
<1>3. UNCHANGED <<Frame, Top, Kmain>>
  BY <1>1, SMTT(30), SMTT(60) DEF Frame, Top, Kmain
<1>4. apic \in Apics /\ devices \in Devices
  BY <1>2 DEF Good, DataTypes
<1>5. ticked' \in BOOLEAN
  BY <1>2, Zenon DEF Good, DataTypes, PressKey, PitTick, AhciInterrupt
<1>6. ASSUME NEW v \in Vectors, Request(v)
      PROVE  apic' \in Apics /\ apic'.unmasked = apic.unmasked /\ apic'.isr = apic.isr /\ apic'.irr \subseteq apic.irr \union {v}
  BY <1>4, <1>6, SMTT(30), SMTT(60) DEF Request, Apics
<1>7. {"keyboard", "pit", "ahci"} \subseteq Vectors
  BY DEF Vectors, Number
<1>8. /\ apic' \in Apics /\ devices' \in Devices /\ apic'.unmasked = apic.unmasked /\ apic'.isr = apic.isr
      /\ devices'.ghc = devices.ghc /\ devices'.abar = devices.abar
      /\ "ahci" \in apic'.irr => "ahci" \in apic.irr \/ devices.ghc
      /\ "pit" \in apic'.irr => "pit" \in apic.irr \/ "pit" \in apic.unmasked
      /\ Reading' = Reading
  <2>1. CASE \E k \in Keys : PressKey(k)
    <3>1. PICK k \in Keys : PressKey(k)
      BY <2>1
    <3>2. devices' = [devices EXCEPT !.key = k, !.pressed = devices.pressed + 1] /\ devices.pressed < MaxKeys /\ devices.key = "none"
      BY <3>1, Zenon DEF PressKey
    <3>3. k # "none" /\ devices.pressed \in 0 .. MaxKeys /\ devices.pressed + 1 \in 0 .. MaxKeys
      BY <1>4, <3>2, KernelAssumption DEF Keys, Devices
    <3>4. /\ devices' \in Devices /\ devices'.ghc = devices.ghc /\ devices'.abar = devices.abar
          /\ devices'.key = k /\ devices'.pressed = devices.pressed + 1
      BY <1>4, <3>2, <3>3, Zenon DEF Devices
    <3>5. Reading' = Reading
      BY <3>2, <3>3, <3>4, KernelAssumption, SMTT(30), SMTT(60) DEF Reading
    <3>6. apic' \in Apics /\ apic'.unmasked = apic.unmasked /\ apic'.isr = apic.isr /\ apic'.irr \subseteq apic.irr \union {"keyboard"}
      <4>1. Request("keyboard") \/ apic' = apic
        BY <3>1, Zenon DEF PressKey
      <4> QED
        BY <1>4, <1>6, <1>7, <4>1
    <3> QED
      BY <3>4, <3>5, <3>6, SMTT(30), SMTT(60)
  <2>2. CASE PitTick
    <3>1. devices' = [devices EXCEPT !.pit = IF devices.pit = "once" THEN "off" ELSE devices.pit] /\ "pit" \in apic.unmasked
      BY <2>2 DEF PitTick
    <3>2. /\ devices' \in Devices /\ devices'.ghc = devices.ghc /\ devices'.abar = devices.abar
          /\ devices'.key = devices.key /\ devices'.pressed = devices.pressed
      BY <1>4, <3>1 DEF Devices
    <3>3. apic' \in Apics /\ apic'.unmasked = apic.unmasked /\ apic'.isr = apic.isr /\ apic'.irr \subseteq apic.irr \union {"pit"}
      BY <1>6, <1>7, <2>2 DEF PitTick
    <3> QED
      BY <3>1, <3>2, <3>3 DEF Reading
  <2>3. CASE AhciInterrupt
    <3>1. devices' = [devices EXCEPT !.busy = FALSE] /\ devices.ghc
      BY <2>3 DEF AhciInterrupt
    <3>2. /\ devices' \in Devices /\ devices'.ghc = devices.ghc /\ devices'.abar = devices.abar
          /\ devices'.key = devices.key /\ devices'.pressed = devices.pressed
      BY <1>4, <3>1, Zenon DEF Devices
    <3>3. apic' \in Apics /\ apic'.unmasked = apic.unmasked /\ apic'.isr = apic.isr /\ apic'.irr \subseteq apic.irr \union {"ahci"}
      BY <1>6, <1>7, <2>3, SMTT(30), SMTT(60) DEF AhciInterrupt
    <3> QED
      BY <3>1, <3>2, <3>3, Zenon DEF Reading
  <2> QED
    BY <2>1, <2>2, <2>3, ZenonT(60)
<1>9. DataTypes'
  BY <1>1, <1>2, <1>5, <1>8, SMTT(30), SMTT(60) DEF Good, DataTypes
<1>10. StackOK(stack')
  BY <1>1, <1>2 DEF Good, Control
<1>11. Interrupts'
  BY <1>1, <1>2, <1>3, ZenonT(40) DEF Good, Control, Interrupts
<1>12. Disk'
  BY <1>1, <1>2, <1>3, <1>8, Zenon DEF Good, Control, Disk
<1>13. Pit'
  BY <1>1, <1>2, <1>3, <1>8, Zenon DEF Good, Control, Pit
<1>14. Nesting'
  BY <1>1, <1>2, <1>3, <1>8, ZenonT(60) DEF Good, Control, Nesting
<1>15. LineOK'
  <2>1. Service' <=> Service
    BY <1>1, <1>3, <1>8, Zenon DEF Service
  <2>2. Ended' <=> Ended
    BY <1>1, <1>3, Zenon DEF Ended
  <2> QED
    BY <1>1, <1>2, <1>3, <2>1, <2>2, Zenon DEF Good, Control, LineOK, Below
<1> QED
  BY <1>1, <1>2, <1>9, <1>10, <1>11, <1>12, <1>13, <1>14, <1>15, BufferKept, Zenon DEF Good, Control

(* The body of a handler. *)
LEMMA HandlerPath ==
  ASSUME NEW v, NEW f \in Nat, f # 1
  PROVE  Path(Handler(v), f) /\ Handler(v)[1] = (IF v = "keyboard" THEN Do("kb_handle_key") ELSE Do("eoi"))
<1> DEFINE e == << Do("eoi"), Do("iret") >>
           k == << Do("kb_handle_key") >>
<1>1. {Do("kb_handle_key"), Do("eoi"), Do("iret")} \subseteq Words(f)
  BY SMTT(30), SMTT(60) DEF Words, ReturnWords
<1>2. Follows(f, Do("kb_handle_key"), Do("eoi")) /\ Follows(f, Do("eoi"), Do("iret"))
  BY SMTT(30), SMTT(60) DEF Follows, HandlerFollows, TimerFollows, Do
<1>3. e \in Seq(Words(f)) /\ Len(e) = 2 /\ e[1] = Do("eoi") /\ e[2] = Do("iret") /\ e # <<>> /\ <<>> \o e = e
  BY <1>1, SMTT(30), SMTT(60)
<1>4. k \in Seq(Words(f)) /\ Len(k) = 1 /\ k[1] = Do("kb_handle_key") /\ k # <<>>
  BY <1>1
<1>5. Handler(v) = IF v = "keyboard" THEN k \o e ELSE <<>> \o e
  BY Zenon DEF Handler
<1> HIDE DEF e, k
<1>6. Path(e, f)
  <2>1. ASSUME NEW i \in 1 .. (Len(e) - 1) PROVE Follows(f, e[i], e[i + 1])
    BY <1>2, <1>3, SMTT(30), SMTT(60)
  <2> QED
    BY <1>3, <2>1, SMTT(30), SMTT(60) DEF Path, Last
<1>7. Body(k, f) /\ k[Len(k)] = Do("kb_handle_key")
  BY <1>4 DEF Body
<1>8. Path(k \o e, f) /\ (k \o e)[1] = Do("kb_handle_key")
  BY <1>2, <1>3, <1>4, <1>6, <1>7, PathBefore, Zenon
<1> QED
  BY <1>3, <1>5, <1>6, <1>8, SMTT(30), SMTT(60)

(* An interrupt that is delivered finds its handler, and its frame is       *)
(* sound.                                                                   *)
LEMMA InterruptStep ==
  ASSUME KernelInv, NEW v \in Vectors, Interrupt(v)
  PROVE  Good'
<1> DEFINE s == Handler(v)
           W == Seq(Words(1) \union Words(2))
           n == Frame
<1>1. /\ Good /\ Control /\ fault = "none" /\ n \in Nat /\ n > 0 /\ n = Len(stack) /\ stack \in Seq(W)
  BY AliveGood DEF Interrupt, Good
<1>2. cpu.iflag /\ v \in apic.irr
  BY SMTT(30), SMTT(60) DEF Interrupt, Deliverable, Highest
<1>3. Open(Top) /\ Open(Kmain)
  <2>1. Open(Top)
    BY <1>1, <1>2, SMTT(30), SMTT(60) DEF Control, Interrupts
  <2>2. \A f \in 1 .. (n - 1) : Open(stack[f][1])
    BY <1>1, SMTT(30), SMTT(60) DEF Control, StackOK
  <2> QED
    BY <1>1, <2>1, <2>2, SMTT(30), SMTT(60) DEF Top, Kmain
<1>4. Path(s, n + 1) /\ s[1] = (IF v = "keyboard" THEN Do("kb_handle_key") ELSE Do("eoi"))
  BY <1>1, HandlerPath
<1>5. s \in W
  <2>1. s \in Seq(Words(n + 1)) /\ Words(n + 1) \subseteq Words(1) \union Words(2)
    BY <1>1, <1>4 DEF Path, Words
  <2> QED
    BY <2>1, SMTT(30), SMTT(60)
<1> HIDE DEF s, W
<1>6. stack' \in Seq(W) /\ Len(stack') = n + 1 /\ stack'[n + 1] = s /\ \A f \in 1 .. n : stack'[f] = stack[f]
  BY <1>1, <1>5, SMTT(30), SMTT(60) DEF Interrupt, s
<1>7. Frame' = n + 1 /\ Top' = s[1] /\ Kmain' = Kmain
  BY <1>1, <1>6, SMTT(30), SMTT(60) DEF Frame, Top, Kmain
<1> HIDE DEF n
<1>8. StackOK(stack')
  <2>1. ASSUME NEW f \in 1 .. (n + 1) PROVE Path(stack'[f], f)
    <3>1. CASE f = n + 1
      BY <1>4, <1>6, <3>1, SMTT(30), SMTT(60)
    <3>2. CASE f # n + 1
      <4>1. f \in 1 .. n
        BY <1>1, <3>2, SMTT(30), SMTT(60)
      <4>2. Path(stack[f], f)
        BY <1>1, <4>1, SMTT(30), SMTT(60) DEF Control, StackOK
      <4> QED
        BY <1>6, <4>1, <4>2, SMTT(30), SMTT(60)
    <3> QED
      BY <3>1, <3>2, SMTT(30), SMTT(60)
  <2>2. ASSUME NEW f \in 1 .. n PROVE Open(stack'[f][1])
    <3>1. CASE f = n
      BY <1>3, <1>6, <3>1, SMTT(30), SMTT(60) DEF Top, n
    <3>2. CASE f # n
      <4>1. f \in 1 .. (n - 1)
        BY <1>1, <3>2, SMTT(30), SMTT(60)
      <4>2. Open(stack[f][1])
        BY <1>1, <4>1, SMTT(30), SMTT(60) DEF Control, StackOK
      <4> QED
        BY <1>6, <4>2
    <3> QED
      BY <3>1, <3>2, SMTT(30), SMTT(60)
  <2>3. stack' # <<>> /\ Len(stack') - 1 = n
    BY <1>1, <1>6
  <2> QED
    BY <1>6, <2>1, <2>2, <2>3, SMTT(30), SMTT(60) DEF StackOK, W
<1>9. UNCHANGED <<machine, isr_handler_table, kernel_config, devices, shell, ticked, early>>
  BY DEF Interrupt
<1>10. apic' \in Apics /\ apic'.irr = apic.irr \ {v} /\ apic'.unmasked = apic.unmasked
  BY <1>1, Zenon DEF Interrupt, Good, DataTypes, Apics
<1>11. cpu' \in Cpus /\ cpu'.iflag = FALSE
  BY SMTT(30), SMTT(60) DEF Interrupt, Cpus
<1>12. DataTypes'
  BY <1>1, <1>9, <1>10, <1>11 DEF Good, DataTypes
<1>13. ~Commanding(Top') /\ Top' # <<"source", "pit">>
  <2>1. Do("eoi") \in ReturnWords /\ Do("eoi") # Do("fini")
    BY Names, Zenon DEF ReturnWords
  <2>2. ~Commanding(Do("kb_handle_key"))
    BY TimerNames, Names, SMTT(30), SMTT(60), ZenonT(60) DEF Commanding, CommandWords
  <2> QED
    BY <1>4, <1>7, <2>1, <2>2, ReturnTraits, Names, ZenonT(60)
<1>14. /\ Top \notin {<<"register", "pit">>, <<"source", "tsc">>} /\ ~Unready(Kmain)
  BY <1>3, OpenIs
<1>15. fault' \in {"none", "timer", "pit"} /\ (fault' = "pit" => kernel_config.timer_source = {"tsc"})
  <2>1. v \in {"timer", "keyboard", "pit", "ahci"}
    BY SMTT(30), SMTT(60) DEF Vectors, Number
  <2>2. v = "keyboard" => v \in isr_handler_table
    BY <1>1, <1>14, SMTT(30), SMTT(60) DEF Control, Interrupts
  <2>3. v = "ahci" => v \in isr_handler_table /\ devices.abar
    BY <1>1, <1>2, SMTT(30), SMTT(60) DEF Control, Disk
  <2>4. v = "pit" => v \in isr_handler_table \/ kernel_config.timer_source = {"tsc"}
    BY <1>1, <1>2, <1>14, SMTT(30), SMTT(60) DEF Control, Pit
  <2> QED
    BY <2>1, <2>2, <2>3, <2>4, Zenon DEF Interrupt, Missing
<1>16. Interrupts'
  BY <1>1, <1>7, <1>9, <1>11, SMTT(30) DEF Control, Interrupts
<1>17. Disk'
  BY <1>1, <1>7, <1>9, <1>10, Zenon DEF Control, Disk
<1>18. Pit'
  BY <1>1, <1>9, <1>10, <1>13, <1>14, ZenonT(60) DEF Control, Pit
<1>19. Nesting'
  <2>1. Reading' = Reading /\ Reading \in Int /\ 0 <= Reading /\ n - 1 <= Reading
    BY <1>1, <1>2, <1>9, ReadingType, Zenon DEF Reading, Control, Nesting, n
  <2> QED
    BY <1>1, <1>7, <1>11, <1>13, <2>1, SMTT(30), SMTT(60) DEF Nesting
<1>20. LineOK'
  <2>1. LineOK /\ Service /\ Frame = n
    BY <1>1 DEF Control, LineOK, n
  <2>2. /\ \A f \in 2 .. (n + 1) : f # n + 1 => f \in 2 .. n
        /\ \A f \in 2 .. n : f \in 2 .. (n + 1) /\ stack'[f] = stack[f] /\ (f # n => f \in 2 .. (n - 1))
        /\ (n + 1) - 1 = n
    BY <1>1, <1>6
  <2>3. apic'.isr = apic.isr \union {v}
    BY <1>1, Zenon DEF Interrupt, Good, DataTypes, Apics
  <2>4. "keyboard" \in apic.isr => v = "ahci"
    <3>1. v \in {"timer", "keyboard", "pit", "ahci"}
      BY SMTT(30), SMTT(60) DEF Vectors, Number
    <3>2. "keyboard" \in apic.isr => Class(v) > Class("keyboard")
      BY Zenon DEF Interrupt, Deliverable
    <3>3. Class("timer") = 2 /\ Class("keyboard") = 2 /\ Class("pit") = 2
      BY DEF Class, Number
    <3> QED
      BY <3>1, <3>2, <3>3
  <2>5. Handling(Top') => v = "keyboard"
    <3>1. Do("eoi") # Do("kb_handle_key")
      BY Names
    <3> QED
      BY <1>4, <1>7, <1>13, <3>1, Zenon DEF Handling
  <2>6. \A f \in 2 .. n : Handling(stack[f][1]) => f = n /\ "keyboard" \in apic.isr
    BY <1>2, <2>1, <2>2, Zenon DEF Service
  <2>7. \A f \in 2 .. (n + 1) : Handling(stack'[f][1]) => "keyboard" \in apic'.isr
    BY <1>6, <1>7, <2>2, <2>3, <2>5, <2>6, Zenon
  <2>8. "ahci" # "keyboard"
    OBVIOUS
  <2>9. Service'
    BY <1>4, <1>7, <1>11, <2>2, <2>3, <2>4, <2>6, <2>7, <2>8, ZenonT(60) DEF Service
  <2>10. Ended' <=> Ended
    BY <1>6, <1>7, <1>13, <2>1, <2>2, ZenonT(60) DEF Ended
  <2> QED
    BY <1>7, <1>9, <2>1, <2>9, <2>10, ZenonT(60) DEF LineOK, Below
<1>21. LineStaysInBuffer'
  BY <1>1, <1>9, BufferKept, Zenon DEF Good
<1> QED
  BY <1>8, <1>9, <1>12, <1>15, <1>16, <1>17, <1>18, <1>19, <1>20, <1>21, Zenon DEF Good, Control

-----------------------------------------------------------------------------
(* Every step keeps the invariant. *)
LEMMA KernelNext ==
  ASSUME KernelInv, [Next]_vars
  PROVE  KernelInv'
<1>1. CASE UNCHANGED vars
  <2>1. HandlersAreReady' /\ LineStaysInBuffer'
    <3>1. DataTypes'
      <4>1. DataTypes
        BY Zenon DEF KernelInv, HandlersAreReady, TypeOK, DataTypes, Cpus, Apics, Configs, Devices, Shells, Strays
      <4> QED
        BY <1>1, <4>1 DEF DataTypes, vars
    <3>2. /\ fault' \in Vectors \union {"none", "ABAR uninitialized", "push_char", "del_char", "execute_command", "memset"}
          /\ Frame' <= MaxFrame /\ \A f \in 1 .. Frame' : stack'[f] # <<>>
      BY <1>1, Zenon DEF KernelInv, HandlersAreReady, TypeOK, vars, Frame
    <3>3. TypeOK'
      BY <3>1, <3>2, ZenonT(60) DEF DataTypes, Cpus, Apics, Configs, Devices, Shells, Strays, TypeOK, MaxFrame
    <3> QED
      BY <1>1, <3>3, ZenonT(60) DEF vars, KernelInv, HandlersAreReady, LineStaysInBuffer
  <2>2. UNCHANGED <<Frame, Top, Kmain, Reading, Alive>>
    BY <1>1, SMTT(30), SMTT(60) DEF vars, Frame, Top, Kmain, Reading, Alive
  <2>3. UNCHANGED <<machine, cpu, apic, isr_handler_table, kernel_config, devices, shell, stack, ticked, early, fault>>
    BY <1>1 DEF vars
  <2>4. StackOK(stack)' <=> StackOK(stack)
    BY <2>3, Zenon DEF StackOK
  <2>5. Interrupts' <=> Interrupts
    BY <2>2, <2>3, Zenon DEF Interrupts
  <2>6. Disk' <=> Disk
    BY <2>2, <2>3, Zenon DEF Disk
  <2>7. Pit' <=> Pit
    BY <2>2, <2>3, Zenon DEF Pit
  <2>8. Nesting' <=> Nesting
    BY <2>2, <2>3, Zenon DEF Nesting
  <2>9. LineOK' <=> LineOK
    BY <2>2, <2>3, Zenon DEF LineOK, Service, Ended, Below
  <2> QED
    BY <2>1, <2>2, <2>4, <2>5, <2>6, <2>7, <2>8, <2>9, Zenon DEF KernelInv
<1>2. CASE shutdown
  BY <1>2, ShutdownStep
<1>3. CASE Next /\ ~shutdown
  <2>1. Good'
    BY <1>3, UnmaskStep, MaskStep, RegisterStep, UnregisterStep, MaybeCliStep, StiStep, InterruptsEnabledStep,
       SourceStep, KexitStep, CallStep, CalibrateStep, DeviceStep, InitShellStep, CheckStep, HltStep, NoCharStep,
       PushCharStep, DelCharStep, ExecuteStep, FiniStep, EoiStep, IretStep, DevicesStep, InterruptStep, ZenonT(60)
       DEF Next, Processor, TakeInterrupt
  <2> QED
    BY <2>1, GoodInv, PTL
<1> QED
  BY <1>1, <1>2, <1>3

(* A body of one statement, and of two. *)
LEMMA SmallBodies ==
  ASSUME NEW f \in Nat, NEW a \in Words(f), NEW b \in Words(f), Follows(f, a, b)
  PROVE  /\ Body(<<a>>, f) /\ <<a>>[1] = a /\ <<a>>[Len(<<a>>)] = a
         /\ Body(<<a, b>>, f) /\ <<a, b>>[1] = a /\ <<a, b>>[Len(<<a, b>>)] = b
<1> DEFINE s == <<a>>
           t == <<a, b>>
<1>1. s \in Seq(Words(f)) /\ s # <<>> /\ Len(s) = 1 /\ s[1] = a
  OBVIOUS
<1>2. t \in Seq(Words(f)) /\ t # <<>> /\ Len(t) = 2 /\ t[1] = a /\ t[2] = b
  OBVIOUS
<1> HIDE DEF s, t
<1>3. Body(s, f) /\ s[Len(s)] = a
  BY <1>1, SMTT(30), SMTT(60) DEF Body
<1>4. Body(t, f) /\ t[Len(t)] = b
  <2>1. ASSUME NEW i \in 1 .. (Len(t) - 1) PROVE Follows(f, t[i], t[i + 1])
    BY <1>2, SMTT(20)
  <2> QED
    BY <1>2, <2>1, SMTT(30), SMTT(60) DEF Body
<1> QED
  BY <1>1, <1>2, <1>3, <1>4, SMTT(30), SMTT(60) DEF s, t

(* What kmain has to execute. *)
LEMMA KmainPath == Path(kmain, 1) /\ kmain[1] = <<"unmask", "keyboard">>
<1> DEFINE A == init_kb_status
           B == enable_tasking
           X == << Do("enable_apic") >>
           C == enable_interrupts
           Y == << Do("init_ahci") >>
           D1 == << Do("enabled"), Do("shell_cur") >>
           D2 == << Do("shell_size"), Do("shell_cmd") >>
           D == init_shell
           K == << Do("check") >>
<1>1. {<<"unmask", "keyboard">>, <<"register", "keyboard">>, Do("MAYBE_CLI"), Do("MAYBE_STI"), Do("enable_apic"),
       Do("sti"), Do("interrupts_enabled"), Do("init_ahci"), Do("enabled"), Do("shell_cur"),
       Do("shell_size"), Do("shell_cmd"), Do("check")} \subseteq Words(1)
  BY DEF Words, BootWords, TimerWords, OpenWords
<1>2. /\ Follows(1, <<"unmask", "keyboard">>, <<"register", "keyboard">>)
      /\ Follows(1, <<"register", "keyboard">>, Do("MAYBE_CLI"))
      /\ Follows(1, Do("MAYBE_CLI"), Do("MAYBE_STI"))
      /\ Follows(1, Do("MAYBE_STI"), Do("enable_apic"))
  BY Zenon DEF Follows, KmainFollows, TimerFollows, Do
<1>3. /\ Follows(1, Do("enable_apic"), Do("sti"))
      /\ Follows(1, Do("sti"), Do("interrupts_enabled"))
      /\ Follows(1, Do("interrupts_enabled"), Do("init_ahci"))
      /\ Follows(1, Do("init_ahci"), Do("enabled"))
  BY Zenon DEF Follows, KmainFollows, TimerFollows, Do
<1>4. /\ Follows(1, Do("enabled"), Do("shell_cur"))
      /\ Follows(1, Do("shell_cur"), Do("shell_size"))
      /\ Follows(1, Do("shell_size"), Do("shell_cmd"))
      /\ Follows(1, Do("shell_cmd"), Do("check"))
  BY Zenon DEF Follows, KmainFollows, TimerFollows, Do
<1>5. /\ Body(A, 1) /\ A[1] = <<"unmask", "keyboard">> /\ A[Len(A)] = <<"register", "keyboard">>
      /\ Body(B, 1) /\ B[1] = Do("MAYBE_CLI") /\ B[Len(B)] = Do("MAYBE_STI")
      /\ Body(X, 1) /\ X[1] = Do("enable_apic") /\ X[Len(X)] = Do("enable_apic")
  BY <1>1, <1>2, <1>3, SmallBodies, Zenon DEF init_kb_status, enable_tasking
<1>6. /\ Body(C, 1) /\ C[1] = Do("sti") /\ C[Len(C)] = Do("interrupts_enabled")
      /\ Body(Y, 1) /\ Y[1] = Do("init_ahci") /\ Y[Len(Y)] = Do("init_ahci")
  BY <1>1, <1>3, SmallBodies, Zenon DEF enable_interrupts
<1>7. /\ Body(D1, 1) /\ D1[1] = Do("enabled") /\ D1[Len(D1)] = Do("shell_cur")
      /\ Body(D2, 1) /\ D2[1] = Do("shell_size") /\ D2[Len(D2)] = Do("shell_cmd")
  BY <1>1, <1>4, SmallBodies, Zenon
<1>8. D = D1 \o D2
  BY SMTT(30), SMTT(60) DEF init_shell
<1>9. Path(K, 1) /\ K[1] = Do("check")
  <2>1. K \in Seq(Words(1)) /\ Len(K) = 1 /\ K[1] = Do("check") /\ K # <<>>
    BY <1>1
  <2> HIDE DEF K
  <2> QED
    BY <2>1, SMTT(30), SMTT(60) DEF Path, Last
<1>10. kmain = (((((A \o B) \o X) \o C) \o Y) \o D) \o K
  BY SMTT(30), SMTT(60) DEF kmain
<1> HIDE DEF A, B, X, C, Y, D1, D2, D, K
<1>11. Body(D, 1) /\ D[1] = Do("enabled") /\ D[Len(D)] = Do("shell_cmd")
  <2>1. Body(D1, 1) /\ Body(D2, 1)
    BY <1>4, <1>7, SMTT(30), SMTT(60)
  <2>2. Follows(1, D1[Len(D1)], D2[1])
    BY <1>4, <1>7
  <2>3. Joined(D, D1, D2)
    BY <1>8, SMTT(30), SMTT(60) DEF Joined
  <2>4. Body(D, 1) /\ D[1] = D1[1] /\ D[Len(D)] = D2[Len(D2)]
    BY <2>1, <2>2, <2>3, BodyJoined, SMTT(30), SMTT(60)
  <2> QED
    BY <1>7, <2>4, SMTT(30), SMTT(60)
<1> DEFINE S1 == A \o B
           S2 == S1 \o X
           S3 == S2 \o C
           S4 == S3 \o Y
           S5 == S4 \o D
<1>12. Body(S1, 1) /\ S1[1] = <<"unmask", "keyboard">> /\ S1[Len(S1)] = Do("MAYBE_STI")
  <2>1. Body(A, 1) /\ Body(B, 1)
    BY <1>2, <1>5, SMTT(30), SMTT(60)
  <2>2. Follows(1, A[Len(A)], B[1])
    BY <1>2, <1>5
  <2>3. Joined(S1, A, B)
    BY ZenonT(60) DEF Joined
  <2> HIDE DEF S1
  <2>4. Body(S1, 1) /\ S1[1] = A[1] /\ S1[Len(S1)] = B[Len(B)]
    BY <2>1, <2>2, <2>3, BodyJoined
  <2> QED
    BY <1>2, <1>5, <2>4, SMTT(30), SMTT(60)
<1> HIDE DEF S1
<1>13. Body(S2, 1) /\ S2[1] = <<"unmask", "keyboard">> /\ S2[Len(S2)] = Do("enable_apic")
  <2>1. Body(S1, 1) /\ Body(X, 1)
    BY <1>2, <1>5, <1>12, SMTT(30), SMTT(60)
  <2>2. Follows(1, S1[Len(S1)], X[1])
    BY <1>2, <1>5, <1>12, SMTT(30), SMTT(60)
  <2>3. Joined(S2, S1, X)
    BY SMTT(30), SMTT(60) DEF Joined
  <2> HIDE DEF S2
  <2>4. Body(S2, 1) /\ S2[1] = S1[1] /\ S2[Len(S2)] = X[Len(X)]
    BY <2>1, <2>2, <2>3, BodyJoined, SMTT(30), SMTT(60)
  <2> QED
    BY <1>2, <1>5, <1>12, <2>4, SMTT(30), SMTT(60)
<1> HIDE DEF S2
<1>14. Body(S3, 1) /\ S3[1] = <<"unmask", "keyboard">> /\ S3[Len(S3)] = Do("interrupts_enabled")
  <2>1. Body(S2, 1) /\ Body(C, 1)
    BY <1>3, <1>6, <1>13, Zenon
  <2>2. Follows(1, S2[Len(S2)], C[1])
    BY <1>3, <1>6, <1>13, Zenon
  <2>3. Joined(S3, S2, C)
    BY DEF Joined
  <2> HIDE DEF S3
  <2>4. Body(S3, 1) /\ S3[1] = S2[1] /\ S3[Len(S3)] = C[Len(C)]
    BY <2>1, <2>2, <2>3, BodyJoined
  <2> QED
    BY <1>3, <1>6, <1>13, <2>4, Zenon
<1> HIDE DEF S3
<1>15. Body(S4, 1) /\ S4[1] = <<"unmask", "keyboard">> /\ S4[Len(S4)] = Do("init_ahci")
  <2>1. Body(S3, 1) /\ Body(Y, 1)
    BY <1>3, <1>6, <1>14, Zenon
  <2>2. Follows(1, S3[Len(S3)], Y[1])
    BY <1>3, <1>6, <1>14, Zenon
  <2>3. Joined(S4, S3, Y)
    BY DEF Joined
  <2> HIDE DEF S4
  <2>4. Body(S4, 1) /\ S4[1] = S3[1] /\ S4[Len(S4)] = Y[Len(Y)]
    BY <2>1, <2>2, <2>3, BodyJoined
  <2> QED
    BY <1>3, <1>6, <1>14, <2>4, Zenon
<1> HIDE DEF S4
<1>16. Body(S5, 1) /\ S5[1] = <<"unmask", "keyboard">> /\ S5[Len(S5)] = Do("shell_cmd")
  <2>1. Body(S4, 1) /\ Body(D, 1)
    BY <1>3, <1>11, <1>15, ZenonT(60)
  <2>2. Follows(1, S4[Len(S4)], D[1])
    BY <1>3, <1>11, <1>15, SMTT(30), SMTT(60)
  <2>3. Joined(S5, S4, D)
    BY DEF Joined
  <2> HIDE DEF S5
  <2>4. Body(S5, 1) /\ S5[1] = S4[1] /\ S5[Len(S5)] = D[Len(D)]
    BY <2>1, <2>2, <2>3, BodyJoined
  <2> QED
    BY <1>3, <1>11, <1>15, <2>4, Zenon
<1> HIDE DEF S5
<1>17. Path(S5 \o K, 1) /\ (S5 \o K)[1] = <<"unmask", "keyboard">>
  BY <1>4, <1>9, <1>16, PathBefore, Zenon
<1> QED
  BY <1>10, <1>17, ZenonT(60) DEF S1, S2, S3, S4, S5

(* The invariant holds when kmain starts. *)
LEMMA KernelInit ==
  ASSUME Init
  PROVE  KernelInv
<1>1. /\ stack = << kmain >> /\ stack \in Seq(Seq(Words(1) \union Words(2))) /\ Len(stack) = 1 /\ stack[1] = kmain /\ stack # <<>>
  <2>1. kmain \in Seq(Words(1))
    BY KmainPath DEF Path
  <2>2. kmain \in Seq(Words(1) \union Words(2))
    BY <2>1
  <2> DEFINE k == kmain
  <2> HIDE DEF k
  <2>3. k \in Seq(Words(1) \union Words(2)) /\ stack = << k >>
    BY <2>2, Zenon DEF k, Init
  <2>4. stack \in Seq(Seq(Words(1) \union Words(2))) /\ Len(stack) = 1 /\ stack[1] = k /\ stack # <<>>
    BY <2>3, SMTT(30), SMTT(60)
  <2> QED
    BY <2>3, <2>4 DEF k
<1>2. Frame = 1 /\ Top = <<"unmask", "keyboard">> /\ Kmain = Top
  BY <1>1, KmainPath, SMTT(30), SMTT(60) DEF Frame, Top, Kmain
<1>3. StackOK(stack)
  BY <1>1, KmainPath, SMTT(30), SMTT(60) DEF StackOK
<1>4. /\ Unready(Top) /\ ~InShell(Top) /\ Top # Do("shell_cmd") /\ Top \notin {Do("abar"), Do("ghc")}
      /\ Top # <<"source", "pit">>
  BY <1>2, Names DEF Unready, InShell
<1>5. /\ cpu = [iflag |-> FALSE, hlt |-> FALSE]
      /\ apic = [on |-> FALSE, irr |-> {}, isr |-> {}, unmasked |-> {}]
      /\ isr_handler_table = {}
      /\ kernel_config = [kexit |-> FALSE, interrupts_enabled |-> FALSE, timer_source |-> {}, tsc_freq |-> machine.tsc_freq]
      /\ devices = [pit |-> "off", key |-> "none", pressed |-> 0, msi |-> FALSE, abar |-> FALSE, ghc |-> FALSE, busy |-> FALSE]
      /\ shell = [enabled |-> FALSE, capacity |-> 0, size |-> 0, cur |-> 0, stray |-> {}]
      /\ machine \in Machines /\ ticked = FALSE /\ early = FALSE /\ fault = "none"
  BY Zenon DEF Init, NoShell
<1>6. DataTypes
  <2>1. cpu \in Cpus /\ apic \in Apics
    BY <1>5, Zenon DEF Cpus, Apics
  <2>2. kernel_config \in Configs
    <3>1. machine.tsc_freq \in BOOLEAN
      BY <1>5, KernelAssumption, Zenon
    <3> QED
      BY <1>5, <3>1, Zenon DEF Configs
  <2>3. devices \in Devices
    <3>1. 0 \in 0 .. MaxKeys
      BY KernelAssumption
    <3> QED
      BY <1>5, <3>1, Zenon DEF Devices
  <2>4. shell \in Shells
    <3>1. 0 \in Nat /\ 0 \in Int
      OBVIOUS
    <3>2. {} \in Strays
      BY DEF Strays
    <3> QED
      BY <1>5, <3>1, <3>2, Zenon DEF Shells
  <2> QED
    BY <1>5, <2>1, <2>2, <2>3, <2>4, Zenon DEF DataTypes
<1>7. Interrupts /\ Disk /\ Pit
  BY <1>2, <1>4, <1>5, Zenon DEF Interrupts, Disk, Pit
<1>8. Nesting
  <2>1. Reading = 0 - 0 /\ ~cpu.iflag
    <3>1. devices.key = "none" /\ devices.pressed = 0 /\ cpu.iflag = FALSE
      BY <1>5, Zenon
    <3> QED
      BY <3>1, Zenon DEF Reading
  <2>2. 0 - 0 = 0 /\ 0 <= 0 /\ 1 - 2 <= 0 /\ ~(1 > 1)
    OBVIOUS
  <2> QED
    BY <1>2, <2>1, <2>2, Zenon DEF Nesting
<1>9. LineOK /\ LineStaysInBuffer
  <2>1. shell.cur = 0 /\ shell.capacity = 0 /\ shell.size = 0 /\ shell.stray = {}
    BY <1>5, Zenon
  <2>2. 0 <= 0 /\ 0 <= 0 + 1 /\ ~(0 < 0)
    OBVIOUS
  <2>3. Service /\ ~Ended
    BY <1>2, NoHandling
  <2> QED
    BY <1>2, <1>4, <2>1, <2>2, <2>3, Zenon DEF LineOK, LineStaysInBuffer
<1>10. Good
  BY <1>3, <1>5, <1>6, <1>7, <1>8, <1>9, Zenon DEF Good, Control
<1> QED
  BY <1>10, GoodInv

(* However interrupts fall between the statements of kmain, of the handlers *)
(* and of the commands, whatever is typed and on every machine: keyboard    *)
(* and disk controller find their handler and what it needs, the PIT does   *)
(* unless enable_apic took its handler away, and handlers nest no deeper    *)
(* than there are keys.  Unless a key comes half way through init_shell,    *)
(* only the zero that ends a line is stored above the buffer; below it      *)
(* nothing is before a backspace on an empty line.                          *)
THEOREM KernelSafety == Spec => []HandlersAreReady /\ []LineStaysInBuffer
<1>1. Init => KernelInv
  BY KernelInit
<1>2. KernelInv /\ [Next]_vars => KernelInv'
  BY KernelNext
<1>3. KernelInv => HandlersAreReady /\ LineStaysInBuffer
  BY DEF KernelInv
<1> QED
  BY <1>1, <1>2, <1>3, PTL DEF Spec
=============================================================================
