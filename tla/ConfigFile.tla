----------------------------- MODULE ConfigFile -----------------------------
(***************************************************************************)
(* The configuration file under the hands of its user and of etr:          *)
(* --write-config replaces it, --merge-config puts a commented block for   *)
(* every key that is not there into it (merge_defaults), and every start   *)
(* of etr and etrs loads it (Config::load), falling back to the defaults   *)
(* when it is no valid TOML.  A file is its section headers and key lines; *)
(* a header is plain when the line holds nothing else.                     *)
(***************************************************************************)
EXTENDS Integers, Sequences, SequencesExt

CONSTANTS
    ClientKeys,  \* CLIENT_KEY_BLOCKS, in order
    ServerKeys,  \* SERVER_KEY_BLOCKS, in order
    MaxEdits     \* bound: lines the user writes

ConfigFileAssumption ==
    /\ ClientKeys \in Seq(STRING) /\ IsInjective(ClientKeys)
    /\ ServerKeys \in Seq(STRING) /\ IsInjective(ServerKeys)
    /\ MaxEdits \in Nat

Keys == ToSet(ClientKeys) \cup ToSet(ServerKeys)
Header(sec, plain) == [sec |-> sec, plain |-> plain]
KeyLine(key, active) == [key |-> key, active |-> active]
IsHeader(line) == "sec" \in DOMAIN line
IsPlain(line, sec) == IsHeader(line) /\ line.sec = sec /\ line.plain
Headers == {Header(sec, plain) : sec \in {"client", "server"}, plain \in BOOLEAN}
KeyLines == {KeyLine(key, active) : key \in Keys, active \in BOOLEAN}

VARIABLES
    file,    \* its lines; <<>> as well when there is none
    edits,   \* lines the user has written so far
    last,    \* what was done last: "edit", "write" or "merge"
    before   \* ghost: the file before that

vars == <<file, edits, last, before>>

\* The blocks of some keys: each ends in the commented key line.
Blocks(keys) == [i \in DOMAIN keys |-> KeyLine(keys[i], FALSE)]

DefaultConfig ==
    <<Header("client", TRUE)>> \o Blocks(ClientKeys)
        \o <<Header("server", TRUE)>> \o Blocks(ServerKeys)

\* contains_key_line: in any section, active or commented.
ContainsKeyLine(f, key) == \E i \in DOMAIN f : ~IsHeader(f[i]) /\ f[i].key = key
MissingOf(f, keys) ==
    LET missing[i \in 0 .. Len(keys)] ==
            IF i = 0 THEN <<>>
            ELSE IF ContainsKeyLine(f, keys[i]) THEN missing[i - 1]
            ELSE Append(missing[i - 1], keys[i])
    IN  missing[Len(keys)]
Missing(f) == MissingOf(f, ClientKeys) \o MissingOf(f, ServerKeys)

Section(sec, missing) == <<Header(sec, TRUE)>> \o Blocks(missing)

\* Mutant of MergeLine: client_inserted is not set at [client].
MergeLineForgets(mc, ms, acc, line) ==
    [acc EXCEPT !.out = @ \o <<line>> \o (IF IsPlain(line, "client") THEN Blocks(mc)
                                          ELSE IF IsPlain(line, "server") THEN Blocks(ms)
                                          ELSE <<>>),
                !.server = @ \/ (IsPlain(line, "server") /\ ms # <<>>)]

\* One line of the loop in merge_defaults, with mc and ms the missing keys of the
\* two sections.  acc holds the result, client_inserted and server_inserted.
MergeLine(mc, ms, acc, line) ==
    LET early == IF mc # <<>> /\ ~acc.client THEN Section("client", mc) ELSE <<>> IN
    IF IsPlain(line, "client")
    THEN [out |-> acc.out \o <<line>> \o Blocks(mc),
          client |-> acc.client \/ mc # <<>>,
          server |-> acc.server]
    ELSE IF IsPlain(line, "server")
    THEN [out |-> acc.out \o early \o <<line>> \o Blocks(ms),
          client |-> acc.client \/ mc # <<>>,
          server |-> acc.server \/ ms # <<>>]
    ELSE [acc EXCEPT !.out = Append(@, line)]

\* merge_defaults: the lines one by one, then the sections that never appeared.
MergeDefaults(f) ==
    LET mc == MissingOf(f, ClientKeys)
        ms == MissingOf(f, ServerKeys)
        after[i \in 0 .. Len(f)] ==
            IF i = 0 THEN [out |-> <<>>, client |-> FALSE, server |-> FALSE]
            ELSE MergeLine(mc, ms, after[i - 1], f[i])
        all == after[Len(f)]
    IN  all.out
          \o (IF mc # <<>> /\ ~all.client THEN Section("client", mc) ELSE <<>>)
          \o (IF ms # <<>> /\ ~all.server THEN Section("server", ms) ELSE <<>>)

\* The section line i stands in; "" before the first header.
SectionAt(f, i) ==
    LET above == {j \in 1 .. i : IsHeader(f[j])}
    IN  IF above = {} THEN "" ELSE f[CHOOSE j \in above : \A k \in above : k <= j].sec

Active(f) == {i \in DOMAIN f : ~IsHeader(f[i]) /\ f[i].active}

\* toml::from_str takes no table twice and no key twice in one table.
Valid(f) ==
    /\ \A i, j \in DOMAIN f : IsHeader(f[i]) /\ IsHeader(f[j]) /\ f[i].sec = f[j].sec => i = j
    /\ \A i, j \in Active(f) :
          f[i].key = f[j].key /\ SectionAt(f, i) = SectionAt(f, j) => i = j

\* Config::load: the settings in effect, none when the file does not parse.
Load(f) == IF Valid(f) THEN {<<SectionAt(f, i), f[i].key>> : i \in Active(f)} ELSE {}
-----------------------------------------------------------------------------
Init ==
    /\ file = <<>>
    /\ edits = 0
    /\ last = "edit"
    /\ before = <<>>

\* The user writes a line at the end of the file.
Edit(line) ==
    /\ edits < MaxEdits
    /\ edits' = edits + 1
    /\ file' = Append(file, line)
    /\ last' = "edit"
    /\ before' = file

\* etr --write-config
WriteConfig ==
    /\ file' = DefaultConfig
    /\ last' = "write"
    /\ before' = file
    /\ UNCHANGED edits

\* etr --merge-config: writes only when something is missing; without a file it
\* creates the default one.
MergeConfig ==
    /\ file' = IF file = <<>> THEN DefaultConfig
               ELSE IF Missing(file) = <<>> THEN file
               ELSE MergeDefaults(file)
    /\ last' = "merge"
    /\ before' = file
    /\ UNCHANGED edits

Next == (\E line \in Headers \cup KeyLines : Edit(line)) \/ WriteConfig \/ MergeConfig

Spec == Init /\ [][Next]_vars
-----------------------------------------------------------------------------
(* Properties.                                                             *)

TypeOK ==
    /\ file \in Seq(Headers \cup KeyLines)
    /\ edits \in 0 .. MaxEdits
    /\ last \in {"edit", "write", "merge"}

\* merge_defaults finds the headers: they are plain, and [client] comes first.
Orderly(f) ==
    /\ \A i \in DOMAIN f : IsHeader(f[i]) => f[i].plain
    /\ \A i, j \in DOMAIN f :
          IsPlain(f[i], "client") /\ IsPlain(f[j], "server") => i < j

\* Merging a valid file whose headers are plain and in order keeps every setting
\* in force in its section, leaves no key out, and merging again adds nothing,
\* whatever keys are missing from, commented in or misplaced between the two
\* sections (merge_defaults: "re-running --merge-config is always idempotent").
MergeKeepsSettings ==
    last = "merge" /\ Valid(before) /\ Orderly(before) =>
        /\ Valid(file)
        /\ Load(file) = Load(before)
        /\ Missing(file) = <<>>

\* config.rs: "The result is always valid TOML (no duplicate table headers)".
MergedIsValid == last = "merge" /\ Valid(before) => Valid(file)
=============================================================================
