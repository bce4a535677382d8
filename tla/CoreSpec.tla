------------------------------- MODULE CoreSpec -------------------------------
(***************************************************************************)
(* What a context may do, how a memory ages, which mechanisms pass the     *)
(* sieve: said once by the server (lib/dispatch.mjs), twice by the Rust    *)
(* core, as code and as a ruleset (core/src/dizzy_core_spec.rs), and again *)
(* by its ports to Go and Python (core/prototypes).  An instance asks all  *)
(* of them the same questions; the proposals are put to Go's supervisor,   *)
(* which evaluates them side by side, each within a timeout and shielded   *)
(* from the panics of the others.                                          *)
(*                                                                         *)
(* A text is what the sieves ask of it: whether it is blank, whether it is *)
(* too brief counted in bytes (Rust, Go) or in characters (Python), and    *)
(* which keywords occur in it, inside longer words (Rust), as words whose  *)
(* neighbours are not ASCII letters (Go) or not letters at all (Python).   *)
(* Case and white space are taken to be the same in every language.  Ages  *)
(* are days, and a factor is the number of days it has decayed for with    *)
(* its half-life; texts of errors and policies are left out.               *)
(***************************************************************************)
EXTENDS Integers, FiniteSetsExt

CONSTANTS
    Subjects,       \* proposals an instance asks about
    Proposals,      \* those of one call of EvaluateConcurrently
    Dispatched,     \* what they may say
    Days            \* bound: the clock

Zones    == {"private_self", "trusted_collaborator", "outside_contact", "paid_public"}
Modes    == {"client", "ephemeral", "default"}
Channels == {"execute", "local", "telegram"}
Contexts == [explicit : Zones \cup {"other"}, trusted : BOOLEAN, channel : Channels, mode : Modes]
Classes  == {"project_decision", "user_claim", "reusable_pattern", "assistant_observation", "unclassified"}
Never    == -1
Memories == [class : Classes, reviewed : {Never} \cup Days, captured : {Never} \cup Days]

CoreAssumption ==
    /\ Days \subseteq Nat /\ 0 \in Days /\ Dispatched \subseteq Subjects
    /\ \A p \in Subjects : DOMAIN p = {"exit", "capture", "ownership", "metrics", "governance"}
    /\ \A p \in Subjects : \A field \in DOMAIN p : p[field].brief \in {{}, {"characters"}, {"bytes", "characters"}}

VARIABLES
    asked,      \* a context, a memory and the time, or a proposal
    said,       \* what the proposals before the supervisor say
    inner,      \* their evaluations
    results     \* what the supervisor put down for them

core == <<asked, said, inner, results>>

-----------------------------------------------------------------------------
(* getTrustZone, get_trust_zone.                                           *)
ZoneTrusting(c) == IF c.explicit \in Zones THEN c.explicit
                   ELSE IF c.channel = "execute" THEN "paid_public"
                   ELSE IF c.channel = "local" THEN "private_self" ELSE "outside_contact"
ServerZone(c) ==
    CASE c.explicit = "private_self" -> IF c.trusted THEN "private_self" ELSE "outside_contact"
      [] c.explicit \in Zones \ {"private_self"} -> c.explicit
      [] c.explicit = "other" /\ c.channel = "execute" -> "paid_public"
      [] c.explicit = "other" /\ c.channel = "local" /\ c.trusted -> "private_self"
      [] OTHER -> "outside_contact"

(* get_trust_zone_capabilities, as code.                                   *)
Capabilities(zone, mode) ==
    LET public == zone = "paid_public"
        ephemeral == public /\ mode # "client"
        insider == zone \in {"private_self", "trusted_collaborator"}
    IN  [repo |-> insider, durable |-> insider, ephemeral |-> ephemeral,
         retention |-> IF ~public THEN "local_conversation" ELSE IF ephemeral THEN "ephemeral" ELSE "conversation_only",
         expiry |-> IF public /\ ~ephemeral THEN "7_days_inactivity" ELSE "none"]

(* rules.json, and get_capabilities over it: the zone's row, then every    *)
(* override whose zone it is and whose mode it is not.                     *)
Granted(repo, durable, retention, ephemeral, expiry) ==
    [repo |-> repo, durable |-> durable, retention |-> retention, ephemeral |-> ephemeral, expiry |-> expiry]
Baseline ==
    [z \in Zones |->
        CASE z \in {"private_self", "trusted_collaborator"} -> Granted(TRUE, TRUE, "local_conversation", FALSE, "none")
          [] z = "outside_contact" -> Granted(FALSE, FALSE, "local_conversation", FALSE, "none")
          [] z = "paid_public" -> Granted(FALSE, FALSE, "conversation_only", FALSE, "7_days_inactivity")]
Overrides ==
    {[zone |-> "paid_public", modeNot |-> "client", retention |-> "ephemeral", ephemeral |-> TRUE, expiry |-> "none"]}
MatchesMode(rule, zone, mode)  == rule.zone = zone /\ rule.modeNot = mode
Matches(rule, zone, mode)      == rule.zone = zone /\ rule.modeNot # mode
RulesetCapabilities(zone, mode) ==
    IF \E rule \in Overrides : Matches(rule, zone, mode)
    THEN LET rule == CHOOSE r \in Overrides : Matches(r, zone, mode)
         IN  [Baseline[zone] EXCEPT !.retention = rule.retention, !.ephemeral = rule.ephemeral, !.expiry = rule.expiry]
    ELSE Baseline[zone]

-----------------------------------------------------------------------------
(* calculate_decay, in Rust and in Python, where a review at the epoch     *)
(* counts as none.                                                         *)
DateOf(m) == IF m.reviewed # Never THEN m.reviewed ELSE m.captured
PythonDateOf(m) == IF m.reviewed \notin {Never, 0} THEN m.reviewed ELSE m.captured
AgeUnclamped(date, now) == IF date = Never THEN Never ELSE now - date
Age(date, now) == IF date = Never THEN Never ELSE Max({0, now - date})
HalfLife(class) == CASE class \in {"project_decision", "user_claim"} -> Never
                     [] class = "reusable_pattern" -> 365 [] OTHER -> 180
Decay(class, age) ==
    [decayed |-> IF HalfLife(class) = Never THEN 0 ELSE Max({0, age}), halfLife |-> HalfLife(class), age |-> age,
     due |-> HalfLife(class) = Never /\ age >= 365]
RustDecay(m, now)   == Decay(m.class, Age(DateOf(m), now))
PythonDecay(m, now) == Decay(m.class, Age(PythonDateOf(m), now))

-----------------------------------------------------------------------------
(* The sieve: fields that must be there, then exits, captures and metrics  *)
(* that are refused, and a warning; with the reading of the keywords and   *)
(* the measure of brevity of each language.                                *)
Occurs(keywords, text, as) == text[as] \cap keywords # {}
Missing(p) == \E field \in DOMAIN p : p[field].blank
MetricsRefused(metrics, as, measure) ==
    measure \in metrics.brief \/ (Occurs({"tvl"}, metrics, as) /\ ~Occurs({"access"}, metrics, as))
Sieve(p, as, measure, mitigations, appealAs) ==
    LET errors ==
            {e \in {"exit", "capture", "metrics"} :
               CASE e = "exit"    -> Occurs({"no exit"}, p.exit, as) \/ measure \in p.exit.brief
                 [] e = "capture" -> \/ Occurs(mitigations, p.capture, as)
                                     \/ Occurs({"absolute ownership"}, p.ownership, as)
                 [] e = "metrics" -> MetricsRefused(p.metrics, as, measure)}
    IN  IF Missing(p) THEN [errors |-> {"missing"}, warned |-> FALSE]
        ELSE [errors |-> errors, warned |-> ~Occurs({"appeal"}, p.governance, appealAs)]

(* validate_mechanism_sieve; validate_sieve over the ruleset of the core,  *)
(* which looks for absolute ownership in the capture risk too; Go's; and   *)
(* the two of Python.                                                      *)
NoMitigation == {"no mitigation"}
ReferenceSieve(p)     == Sieve(p, "parts", "bytes", NoMitigation, "parts")
RulesetSieveNarrow(p) == Sieve(p, "parts", "bytes", {"absolute ownership"}, "parts")
RulesetSieve(p)       == Sieve(p, "parts", "bytes", NoMitigation \cup {"absolute ownership"}, "parts")
GoSieve(p)            == Sieve(p, "asciiWords", "bytes", NoMitigation, "asciiWords")
PythonSieve(p)        == Sieve(p, "words", "characters", NoMitigation, "parts")
PythonRulesetSieve(p) == Sieve(p, "words", "characters", NoMitigation, "words")

-----------------------------------------------------------------------------
Nothing == [about |-> "nothing"]
Result(kind) == [kind |-> kind, verdict |-> [errors |-> {}, warned |-> FALSE]]
Init ==
    /\ asked = Nothing /\ said = <<>> /\ inner = <<>> /\ results = <<>>

Ask ==
    /\ asked = Nothing /\ said = <<>>
    /\ \/ \E c \in Contexts : asked' = [about |-> "zone", context |-> c]
       \/ \E m \in Memories, now \in Days : asked' = [about |-> "memory", memory |-> m, now |-> now]
       \/ \E p \in Subjects : asked' = [about |-> "proposal", proposal |-> p]
    /\ UNCHANGED <<said, inner, results>>

(* EvaluateConcurrently: an evaluation of its own for each proposal, whose *)
(* channel has room for its only message, and somebody waiting for that    *)
(* message or the timeout.                                                 *)
Evaluate ==
    /\ asked = Nothing /\ said = <<>>
    /\ said' \in [Proposals -> Dispatched]
    /\ inner' = [p \in Proposals |-> "running"] /\ results' = [p \in Proposals |-> Result("none")]
    /\ UNCHANGED asked

Ends(p, how) ==
    /\ inner[p] = "running" /\ inner' = [inner EXCEPT ![p] = how]
    /\ UNCHANGED <<asked, said, results>>

Message(q)  == IF inner[q] = "panicked" THEN Result("panic") ELSE [kind |-> "verdict", verdict |-> GoSieve(said[q])]
TakesAny(p) == {Message(q) : q \in {r \in Proposals : inner[r] # "running"}}
Takes(p)    == {Message(q) : q \in {p} \ {r \in Proposals : inner[r] = "running"}}
Settles(p) ==
    /\ results[p] = Result("none")
    /\ \E result \in Takes(p) \cup {Result("timeout")} : results' = [results EXCEPT ![p] = result]
    /\ UNCHANGED <<asked, said, inner>>

Next ==
    \/ Ask \/ Evaluate
    \/ /\ said # <<>>
       /\ \E p \in Proposals : Ends(p, "sent") \/ Ends(p, "panicked") \/ Settles(p)

Spec == Init /\ [][Next]_core

-----------------------------------------------------------------------------
(* The server, the code of the core and its ruleset grant every context    *)
(* the same, and none that is not trusted the private zone.                *)
GrantsAgree ==
    asked.about = "zone" =>
       LET zone == ServerZone(asked.context) IN
       /\ RulesetCapabilities(zone, asked.context.mode) = Capabilities(zone, asked.context.mode)
       /\ zone = "private_self" => asked.context.trusted
       /\ Capabilities(zone, asked.context.mode).durable => asked.context.trusted \/ asked.context.explicit = zone

(* Rust and Python agree on every age but that of a memory reviewed at the *)
(* epoch, and no clock makes a memory younger than new or count for more.  *)
DecaysAgree ==
    asked.about = "memory" =>
       LET rust == RustDecay(asked.memory, asked.now) IN
       /\ asked.memory.reviewed # 0 => rust = PythonDecay(asked.memory, asked.now)
       /\ rust.age \in {Never} \cup Nat
       /\ rust.due => rust.decayed = 0

(* The ruleset refuses what the code refuses, and nothing else but a risk  *)
(* that names absolute ownership.  Of a text whose keywords stand alone Go *)
(* says what the reference says, and Python refuses no less, and more only *)
(* for a text that is brief in characters and not in bytes.                *)
StandAlone(text)  == text.parts = text.words /\ text.parts = text.asciiWords
LongInBytes(text) == "characters" \in text.brief /\ "bytes" \notin text.brief
SievesAgree ==
    asked.about = "proposal" =>
       LET p == asked.proposal
           reference == ReferenceSieve(p)
           ruleset == RulesetSieve(p)
       IN  /\ reference.errors \subseteq ruleset.errors
           /\ reference # ruleset => Occurs({"absolute ownership"}, p.capture, "parts")
           /\ (\A field \in DOMAIN p : StandAlone(p[field])) =>
                 /\ GoSieve(p) = reference /\ PythonSieve(p) = PythonRulesetSieve(p)
                 /\ reference.errors \subseteq PythonSieve(p).errors
                 /\ PythonSieve(p) # reference => LongInBytes(p.exit) \/ LongInBytes(p.metrics)

(* What the supervisor puts down for a proposal is about that proposal,    *)
(* whatever becomes of the others: its own verdict, its own panic, or that *)
(* it took too long.                                                       *)
ResultsAreTheirOwn ==
    \A p \in DOMAIN results :
       /\ results[p].kind = "panic" => inner[p] = "panicked"
       /\ results[p].kind = "verdict" => inner[p] = "sent" /\ results[p].verdict = GoSieve(said[p])
=============================================================================
