------------------------------- MODULE Config -------------------------------
(***************************************************************************)
(* How the files of the configuration become the configuration that runs:  *)
(* parsing and merging (config/parser.go, loader.go), what is filled in,   *)
(* checked and compiled afterwards (jail/pipeline.go), and what of it the  *)
(* kernel is told (config/kernel_view.go).                                 *)
(*                                                                         *)
(* A section stands for its fields: banTime for "defaults", rate for       *)
(* "ddos", web for "webui"; the thresholds of a jail are its ban time.     *)
(* Sections that nothing here reads (capacity, threat_feeds, trusted_ips,  *)
(* the coordinates) only matter in that they may be refused.               *)
(***************************************************************************)
EXTENDS Integers, Sequences, FiniteSets, SequencesExt, TLC

CONSTANTS
    Jail,       \* names of jails
    Service,    \* those whose name is that of a known service
    MaxJails,
    None

ASSUME ConfigAssumption ==
    Service \subseteq Jail /\ MaxJails \in Nat /\ None \notin Jail \cup Int

-----------------------------------------------------------------------------
(* What a file says; None: nothing.                                        *)

(* yamlJail                                                                *)
JailTexts ==
    [enabled : {None} \cup BOOLEAN, logs : {None} \cup BOOLEAN,
     banTime : {None} \cup Int, regex : {None, "good", "bad"}]

(* yamlConfig.  refused: one of the other sections has a value that is     *)
(* refused; unknown: a key that is not known.                              *)
Texts ==
    [decodes : BOOLEAN, unknown : BOOLEAN, refused : BOOLEAN,
     banTime : {None} \cup Int, rate : {None} \cup Nat, web : {None} \cup Nat,
     jails : [Jail -> {None} \cup JailTexts]]

Blank == [decodes |-> TRUE, unknown |-> FALSE, refused |-> FALSE,
          banTime |-> None, rate |-> None, web |-> None, jails |-> [j \in Jail |-> None]]
Empty == [Blank EXCEPT !.decodes = FALSE]   \* an empty file does not decode

(* f itself; TLC evaluates it once and not at every use.                   *)
AtOnce(f) == CHOOSE g \in {f} : g = f

Given(x, old) == IF x = None THEN old ELSE x

-----------------------------------------------------------------------------
(* Parsing                                                                 *)

DefaultBan == 10      \* 600 seconds
ServiceBan == 15      \* 900 seconds

Default == [banTime |-> DefaultBan, rate |-> 1, web |-> 1,
            jails |-> [j \in Jail |-> None], file |-> None]

(* NewJail; a jail without regex gets the built-in pattern.                *)
NewJail == [enabled |-> TRUE, logs |-> FALSE, banTime |-> 60, banSet |-> FALSE,
            regex |-> None, compiled |-> FALSE]

(* validateBantime                                                         *)
BanTimeOr(v, default) ==
    IF v # 0 THEN v ELSE IF default # 0 THEN default ELSE DefaultBan

(* applyJailDefinition, for a jail that is there or is new.                *)
Defined(j, t, default) ==
    [j EXCEPT !.enabled = Given(t.enabled, @), !.logs = Given(t.logs, @),
              !.banTime = IF t.banTime = None THEN @ ELSE BanTimeOr(t.banTime, default),
              !.banSet  = @ \/ t.banTime # None,
              !.regex   = Given(t.regex, @)]

(* applyJails: a file of the runtime's does not make a jail.               *)
ApplyJails(c, t, override) ==
    [j \in Jail |->
        IF t.jails[j] = None \/ (override /\ c.jails[j] = None) THEN c.jails[j]
        ELSE Defined(IF c.jails[j] = None THEN NewJail ELSE c.jails[j],
                     t.jails[j], Given(t.banTime, c.banTime))]

Count(jails) == Cardinality({j \in Jail : jails[j] # None})

(* What a section gives is taken; applyGeoip and normalizeProbeURL refuse  *)
(* the whole text for half a coordinate or an address that is none, and so *)
(* does applyDefaults for a destination that does not exist.               *)
AppliedDefaults(c, t) == [c EXCEPT !.banTime = Given(t.banTime, @)]
AppliedDdos(c, t)     == [c EXCEPT !.rate = Given(t.rate, @)]
AppliedWebui(c, t)    == [c EXCEPT !.web = Given(t.web, @)]
Refused(t) == t.refused

(* parseConfigFrom: c with what t says, or None.                           *)
Parsed(c, t, override, strict) ==
    LET jails == ApplyJails(c, t, override) IN
    IF ~t.decodes \/ Refused(t) \/ (strict /\ t.unknown) \/ Count(jails) > MaxJails
    THEN None
    ELSE [AppliedWebui(AppliedDdos(AppliedDefaults(c, t), t), t) EXCEPT !.jails = jails]

-----------------------------------------------------------------------------
(* Loading.  A file: [name, text]; a name: [override, at], in the order of *)
(* the bytes, where "_" comes before the letters.                          *)

(* LoadConfigDirectory: files of the runtime's last.                       *)
\* slip: in the order of the bytes
Before_Bytes(a, b) ==
    IF a.override # b.override THEN a.override ELSE a.at < b.at
Before(a, b) ==
    IF a.override # b.override THEN b.override ELSE a.at < b.at

Merge(names, disk, strict) ==
    FoldLeft(LAMBDA c, n : IF c = None THEN None ELSE Parsed(c, disk[n], n.override, strict),
             Default, SetToSortSeq(names, Before))

(* cfg.ConfigFile is the file, or nothing for a directory; an error is     *)
(* passed on.                                                              *)
From(c, name) ==
    IF c = None THEN None
    ELSE [banTime |-> c.banTime, rate |-> c.rate, web |-> c.web, jails |-> c.jails,
          file |-> name]

LoadDirectory(disk, strict) ==
    LET names == {n \in DOMAIN disk : disk[n] # None}
    IN  IF names = {} THEN None ELSE From(Merge(names, disk, strict), None)

(* ParseConfigFile                                                         *)
LoadFile(text, name, strict) ==
    IF text = None THEN None ELSE From(Parsed(Default, text, FALSE, strict), name)

-----------------------------------------------------------------------------
(* Finalize                                                                *)

(* ApplySmartDefaults                                                      *)
SmartDefaults(c) ==
    [c EXCEPT !.jails = [j \in Jail |->
        IF c.jails[j] = None \/ c.jails[j].banSet THEN c.jails[j]
        ELSE [c.jails[j] EXCEPT !.banTime = IF j \in Service THEN ServiceBan ELSE c.banTime]]]

(* Validate: only jails that are enabled are looked at.                    *)
JailOK(j) == j.logs /\ (j.banTime = -1 \/ j.banTime > 0)
Valid(c) ==
    /\ Count(c.jails) \in 1 .. MaxJails
    /\ \A j \in Jail : c.jails[j] # None /\ c.jails[j].enabled => JailOK(c.jails[j])

(* compileFailures: likewise; what fails is a warning.                     *)
Compiled(c) ==
    [c EXCEPT !.jails = AtOnce([k \in Jail |->
        LET jail == c.jails[k] IN
        IF jail = None THEN None
        ELSE [enabled |-> jail.enabled, logs |-> jail.logs, banTime |-> jail.banTime,
              banSet |-> jail.banSet, regex |-> jail.regex,
              compiled |-> jail.compiled \/ (jail.enabled /\ jail.regex # "bad")]])]

\* slip: the checks of the loader are left out
Finalize_NoCheck(c) ==
    IF c = None THEN None ELSE Compiled(SmartDefaults(c))

Finalize(c) ==
    IF c = None \/ ~Valid(SmartDefaults(c)) THEN None
    ELSE Compiled(SmartDefaults(c))

-----------------------------------------------------------------------------
(* The kernel                                                              *)

(* KernelConfigChange: a permanent ban time is not sent.                   *)
KernelView(c) ==
    [rate |-> c.rate, ban |-> IF c.banTime >= 0 THEN c.banTime ELSE None]

(* fw_nl_apply_config: each value is taken or refused.                     *)
Taken(kernel, view) ==
    [rate |-> IF view.rate > 0 THEN view.rate ELSE kernel.rate,
     ban  |-> IF view.ban # None /\ view.ban > 0 THEN view.ban ELSE kernel.ban]
=============================================================================
