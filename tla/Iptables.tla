------------------------------ MODULE Iptables ------------------------------
(***************************************************************************)
(* crates/net_iptables/src/lib.rs: the mangle-table rules that send the    *)
(* packets of a pod's namespace to NFQUEUE 0 (arriving) and 1 (leaving).   *)
(*                                                                         *)
(* The crate runs one iptables command after another and ignores how each  *)
(* of them ended, so an operator takes the set `failed` of the commands    *)
(* that fail although the table would have let them succeed (the xtables   *)
(* lock is held, the process could not be spawned).                        *)
(*                                                                         *)
(* A table is a function from the existing chains to their rules.  A rule  *)
(* is the name of a user chain (a jump to it) or one of the targets below. *)
(***************************************************************************)
EXTENDS Sequences, FiniteSets, Functions

Builtin == {"PREROUTING", "INPUT", "OUTPUT", "POSTROUTING"}
Zero(d) == IF d = "in" THEN "TS_ZERO_PREROUTING" ELSE "TS_ZERO_OUTPUT"
Hook(d) == IF d = "in" THEN "PREROUTING" ELSE "OUTPUT"
SaveHook(d) == IF d = "in" THEN "INPUT" ELSE "POSTROUTING"
UserChains == {Zero(d) : d \in {"in", "out"}}

Restore == "CONNMARK --restore-mark"
Save == "CONNMARK --save-mark"
AcceptMarked == "--mark 1 -j ACCEPT"
Queue(d) == IF d = "in" THEN "NFQUEUE 0 --queue-bypass" ELSE "NFQUEUE 1 --queue-bypass"

EmptyTable == [c \in Builtin |-> << >>]

-----------------------------------------------------------------------------
(* What iptables does with one command *)

Referenced(t, c) == \E b \in DOMAIN t : c \in Range(t[b])
Applies(t, c, rule) == c \in DOMAIN t /\ (rule \in UserChains => rule \in DOMAIN t)

Flush(t) == [c \in DOMAIN t |-> << >>]
DeleteChain(t, c) ==
    IF c \in DOMAIN t /\ t[c] = << >> /\ ~Referenced(t, c)
    THEN Restrict(t, DOMAIN t \ {c}) ELSE t
NewChain(t, c) ==
    IF c \in DOMAIN t THEN t
    ELSE [x \in DOMAIN t \cup {c} |-> IF x = c THEN << >> ELSE t[x]]
InsertRule(t, c, rule) == IF Applies(t, c, rule) THEN [t EXCEPT ![c] = <<rule>> \o @] ELSE t
AppendRule(t, c, rule) == IF Applies(t, c, rule) THEN [t EXCEPT ![c] = Append(@, rule)] ELSE t

-----------------------------------------------------------------------------
(* The crate *)

(* `failed` holds pairs of the part of write_iptable_rule a command belongs *)
(* to and the command's option *)
Unless(failed, step, new, old) == IF step \in failed THEN old ELSE new

(* `-t mangle -S` searched for the chain's name; no output when it failed *)
mangle_table_contains(t, c, failed, step) == step \notin failed /\ c \in DOMAIN t

check_iptables_rule(t, failed) ==
    mangle_table_contains(t, Zero("in"), failed, <<"check", "-S">>)

clear_iptables_rule(t, failed) ==
    LET flushed == Unless(failed, <<"clear", "-F">>, Flush(t), t)
        without == Unless(failed, <<"clear", "-X in">>, DeleteChain(flushed, Zero("in")), flushed)
    IN  Unless(failed, <<"clear", "-X out">>, DeleteChain(without, Zero("out")), without)

(* the one table operation a step of the two blocks below runs *)
Command(t, d, step) ==
    CASE step = "-N"      -> NewChain(t, Zero(d))
      [] step = "jump"    -> InsertRule(t, Hook(d), Zero(d))
      [] step = "restore" -> InsertRule(t, Hook(d), Restore)
      [] step = "accept"  -> AppendRule(t, Zero(d), AcceptMarked)
      [] step = "queue"   -> AppendRule(t, Zero(d), Queue(d))
      [] step = "save"    -> AppendRule(t, SaveHook(d), Save)

InstallSteps == {"-N", "jump", "restore", "accept", "queue", "save"}

Run(t, d, failed, step) == Unless(failed, <<d, step>>, Command(t, d, step), t)

write_direction(t, d, failed) ==
    LET created == Run(t, d, failed, "-N")
        jumping == Run(created, d, failed, "jump")
        restoring == Run(jumping, d, failed, "restore")
        accepting == Run(restoring, d, failed, "accept")
        queueing == Run(accepting, d, failed, "queue")
    IN  IF mangle_table_contains(t, Zero(d), failed, <<d, "-S">>) THEN t
        ELSE Run(queueing, d, failed, "save")

write_iptable_rule_again(t, failed) ==
    write_direction(write_direction(t, "in", failed), "out", failed)

write_iptable_rule(t, failed) ==
    LET cleared == IF check_iptables_rule(t, failed) THEN clear_iptables_rule(t, failed) ELSE t
    IN  write_direction(write_direction(cleared, "in", failed), "out", failed)

(* every command of one call, as `failed` names them *)
Commands ==
    {<<"check", "-S">>, <<"clear", "-F">>, <<"clear", "-X in">>, <<"clear", "-X out">>}
        \cup ({"in", "out"} \X ({"-S"} \cup InstallSteps))

-----------------------------------------------------------------------------
(* What the kernel does with a packet of direction d at its hook: the rules *)
(* in order, with the packet's mark 0 until a restore gives it the mark of  *)
(* its connection.                                                          *)

RestoredBefore(t, d, i) == \E j \in 1..(i - 1) : t[Hook(d)][j] = Restore

(* where the chain Zero(d) sends a packet that carries the mark *)
InZero(t, d, marked) ==
    LET chain == t[Zero(d)]
        hits == {i \in DOMAIN chain : chain[i] = Queue(d) \/ (marked /\ chain[i] = AcceptMarked)}
    IN  IF hits = {} THEN "return"
        ELSE IF chain[CHOOSE i \in hits : \A j \in hits : i <= j] = Queue(d)
             THEN "queue" ELSE "accept"

(* the first jump to Zero(d) that does not come back decides *)
Traverse(t, d, connmark) ==
    LET hook == t[Hook(d)]
        end(i) == InZero(t, d, connmark = 1 /\ RestoredBefore(t, d, i))
        ending == {i \in DOMAIN hook : hook[i] = Zero(d) /\ end(i) # "return"}
    IN  IF ending = {} THEN "accept"
        ELSE end(CHOOSE i \in ending : \A j \in ending : i <= j)
=============================================================================
