---------------------------- MODULE DQ03Handoff ----------------------------
(***************************************************************************)
(* The evidence that DQ-03 hands to the tournament and the laboratories:   *)
(* the files of one artifact directory, the three phases that write them   *)
(* (dq03/__main__.py, phases.py, artifacts.py, acquisition.py) and the two *)
(* loaders that trust them (shadow01/registry.py, sl02/evidence.py).       *)
(*                                                                         *)
(* A phase is one execution of the command line.  It writes its files one  *)
(* by one, each by emptying it and filling it, with no lock: it may die    *)
(* between any two of these steps and another execution may overlap it.    *)
(* What the broker answers is chosen: the requests are left out.           *)
(***************************************************************************)
EXTENDS Integers, FiniteSets, Sequences

CONSTANTS
    Executions,     \* executions of the command line that may be under way together
    Symbols,        \* INITIAL_INSTRUMENTS, by position
    Contracts,      \* EPICs a symbol may be resolved to
    Candles,        \* contents of a history sample
    Accounts,       \* account identities of the run contexts
    MaxBegun,       \* bound: executions in all
    MaxOverlapped,  \* bound: executions in all, once two have overlapped
    MaxResolutions, \* bound: executions of phase 1
    MaxDeaths,      \* bound: executions that die
    Absent, Torn,   \* a file that is not there; one that was emptied
    None

ASSUME SymbolsAssumption == Symbols \subseteq Nat /\ IsFiniteSet(Symbols)
ASSUME NoFingerprintAssumption == None \notin Symbols \X Contracts \X Candles

VARIABLES
    registry,       \* instrument_registry.json
    manifest,       \* discovery_manifest.json
    history,        \* history_validation.json
    execution,      \* per execution, what its memory holds
    loader,         \* what the reader of the files has found
    resolved,       \* history: the account of each execution of phase 1
    begun, deaths,  \* bounds: executions and deaths so far
    read,           \* history: fingerprints of the samples that passed
    overlapped,     \* history: two executions have been under way together
    disturbed       \* history: an execution was under way while the loader read

files == <<registry, manifest, history>>
observed == <<resolved, begun, deaths, read, overlapped, disturbed>>
handoffVars == <<files, execution, loader, observed>>

Document(file) == file \notin {Absent, Torn}

\* source_fingerprint: of the symbol, the contract and the rows, when they passed.
Fingerprint(sample) ==
    IF sample.rows = None THEN None ELSE <<sample.symbol, sample.epic, sample.rows>>

Phases == {"PHASE_1", "PHASE_2", "PHASE_3"}

\* What a history or a manifest may hold is not one of the two other states of a file.
ASSUME FilesAssumption ==
    /\ \A S \in SUBSET Symbols :
          {Absent, Torn} \intersect
              [S -> [symbol : Symbols, epic : Contracts, rows : Candles \cup {None}]] = {}
    /\ {Absent, Torn} \intersect
           [context : Accounts, phase : Phases, count : 0 .. Cardinality(Symbols),
            history : BOOLEAN] = {}

NotUnderWay == [pc |-> "off", phase |-> "PHASE_1", context |-> None,
         items |-> <<>>, samples |-> <<>>, document |-> None]
Unread == [kind |-> None, pc |-> "off", found |-> None]

HandoffInit ==
    /\ registry = Absent /\ manifest = Absent /\ history = Absent
    /\ execution = [p \in Executions |-> NotUnderWay]
    /\ loader = Unread
    /\ resolved = <<>> /\ begun = 0 /\ deaths = 0
    /\ read = {}
    /\ overlapped = FALSE /\ disturbed = FALSE

Remember(p, memory) == execution' = [execution EXCEPT ![p] = memory]
Proceed(p, pc) == Remember(p, [execution[p] EXCEPT !.pc = pc])
End(p) == Remember(p, NotUnderWay)

-----------------------------------------------------------------------------
(* The phases.                                                             *)

Begins(p) ==
    /\ execution[p].pc = "off"
    /\ begun < MaxBegun
    /\ begun' = begun + 1
    /\ overlapped' = (overlapped \/ \E q \in Executions \ {p} : execution[q].pc # "off")
    /\ overlapped' => begun' <= MaxOverlapped
    /\ disturbed' = (disturbed \/ loader.pc # "off")

\* One symbol is resolved or all are; a symbol without a safe choice has no contract.  The
\* row's candidates and metadata are written with the contract: "made" stands for them.
Resolutions(made) ==
    UNION {{[s \in S |-> [made |-> made, epic |-> choice[s],
                          status |-> "BROKER_VALIDATION_PENDING", print |-> None,
                          sample |-> None]] : choice \in [S -> Contracts \cup {None}]} :
           S \in {{s} : s \in Symbols} \cup {Symbols}}

\* resolve, resolve-universe.
Resolve(p) ==
    /\ Begins(p)
    /\ Len(resolved) < MaxResolutions
    /\ \E context \in Accounts, items \in Resolutions(Len(resolved) + 1) :
           /\ Remember(p, [NotUnderWay EXCEPT !.pc = "previous", !.context = context,
                                              !.items = items])
           /\ resolved' = Append(resolved, context)
    /\ UNCHANGED <<files, loader, deaths, read>>

\* history, streaming-smoke: they go on from the files of phase 1.
BeginLater(p, phase) ==
    /\ Begins(p)
    /\ \E context \in Accounts :
           Remember(p, [NotUnderWay EXCEPT !.pc = "context", !.phase = phase, !.context = context])
    /\ UNCHANGED <<files, loader, resolved, deaths, read>>

\* phase_context_matches.  A manifest may always be too old.
CheckContext(p) ==
    /\ execution[p].pc = "context"
    /\ \/ /\ Document(manifest) /\ manifest.context = execution[p].context
          /\ Proceed(p, "load")
       \/ End(p)
    /\ UNCHANGED <<files, loader, observed>>

\* load_phase_one_resolutions: a resolution does not carry the row's sample.
LoadResolutions(p) ==
    /\ execution[p].pc = "load"
    /\ IF Document(registry)
       THEN Remember(p, [execution[p] EXCEPT
                !.pc = IF execution[p].phase = "PHASE_2" THEN "sample" ELSE "previous",
                !.items = [s \in DOMAIN registry.rows |->
                              [registry.rows[s] EXCEPT !.sample = None]]])
       ELSE End(p)
    /\ UNCHANGED <<files, loader, observed>>

\* _sample: the answer to an earlier symbol's request for the same contract is used again.
TakenFor(items, answer, s) ==
    LET earlier == {t \in DOMAIN answer :
                       t < s /\ items[t].epic = items[s].epic /\ answer[t] # "no answer"}
        first == IF earlier = {} THEN s ELSE CHOOSE t \in earlier : \A u \in earlier : t <= u
    IN [symbol |-> first, epic |-> items[s].epic,
        rows |-> IF answer[first] \in Candles THEN answer[first] ELSE None]

\* validate_verified: a sample for every row with a contract, and its verdict.
Sample(p) ==
    /\ execution[p].pc = "sample"
    /\ LET items == execution[p].items
           verified == {s \in DOMAIN items : items[s].epic # None}
       IN \E answer \in [verified -> Candles \cup {"poor", "no answer"}] :
              LET samples == [s \in verified |-> TakenFor(items, answer, s)]
                  print(s) == Fingerprint(samples[s])
              IN /\ Remember(p, [execution[p] EXCEPT !.pc = "previous", !.samples = samples,
                        !.items = [s \in DOMAIN items |->
                            IF s \notin verified THEN items[s]
                            ELSE [items[s] EXCEPT
                                     !.print = print(s),
                                     !.status = IF print(s) # None THEN "BROKER_VALIDATED"
                                                ELSE "DATA_QUALITY_FAIL"]]])
                 /\ read' = read \cup
                        {[made |-> items[s].made, print |-> print(s), by |-> execution[p].context] :
                            s \in {t \in verified : print(t) # None}}
    /\ UNCHANGED <<files, loader, resolved, begun, deaths, overlapped, disturbed>>

-----------------------------------------------------------------------------
(* The files.                                                              *)

Values(f) == {f[x] : x \in DOMAIN f}

\* _phase_one_registry
PhaseOneRegistry(p) ==
    [context |-> execution[p].context, latest |-> None, rows |-> execution[p].items]

\* Mutant: the fingerprint of a row's earlier validation stays.
StatusAugmentedRegistry(p) ==
    LET items == execution[p].items
    IN [context |-> IF Document(registry) THEN registry.context ELSE execution[p].context,
        latest |-> execution[p].phase,
        rows |-> [s \in DOMAIN items |->
                     IF Document(registry) /\ s \in DOMAIN registry.rows
                     THEN [registry.rows[s] EXCEPT !.status = items[s].status]
                     ELSE items[s]]]

\* _augment_registry: of a row that was there, only the validation changes.
AugmentedRegistry(p) ==
    LET items == execution[p].items
        there == Document(registry)
        kept(s) == IF there /\ s \in DOMAIN registry.rows
                   THEN [registry.rows[s] EXCEPT !.status = items[s].status,
                                                 !.print = items[s].print]
                   ELSE items[s]
        own(s) == {x \in Values(execution[p].samples) : x.symbol = s}
    IN [context |-> IF there THEN registry.context ELSE execution[p].context,
        latest |-> execution[p].phase,
        rows |-> [s \in DOMAIN items |->
                     IF own(s) = {} THEN kept(s)
                     ELSE [kept(s) EXCEPT !.sample = CHOOSE x \in own(s) : TRUE]]]

\* write_dq03_artifacts reads the registry it is going to replace.
ReadPrevious(p) ==
    /\ execution[p].pc = "previous"
    /\ Remember(p, [execution[p] EXCEPT !.pc = "registry", !.items = <<>>,
                       !.document = IF execution[p].phase = "PHASE_1" THEN PhaseOneRegistry(p)
                                    ELSE AugmentedRegistry(p)])
    /\ UNCHANGED <<files, loader, observed>>

\* write_text empties a file before it fills it.
WriteRegistry(p) ==
    /\ \/ execution[p].pc = "registry" /\ registry' = Torn /\ Proceed(p, "fill registry")
       \/ /\ execution[p].pc = "fill registry"
          /\ registry' = execution[p].document
          /\ Proceed(p, IF execution[p].samples = <<>> THEN "manifest" ELSE "history")
    /\ UNCHANGED <<manifest, history, loader, observed>>

WriteHistory(p) ==
    /\ \/ execution[p].pc = "history" /\ history' = Torn /\ Proceed(p, "fill history")
       \/ /\ execution[p].pc = "fill history"
          /\ history' = execution[p].samples
          /\ Proceed(p, "manifest")
    /\ UNCHANGED <<registry, manifest, loader, observed>>

\* _manifest; it is the last of the files that a loader reads.
WriteManifest(p) ==
    /\ \/ /\ execution[p].pc = "manifest"
          /\ manifest' = Torn
          /\ Remember(p, [execution[p] EXCEPT !.pc = "fill manifest",
                 !.document = [context |-> execution[p].context, phase |-> execution[p].phase,
                               count |-> Cardinality(DOMAIN execution[p].document.rows),
                               history |-> history # Absent]])
       \/ execution[p].pc = "fill manifest" /\ manifest' = execution[p].document /\ End(p)
    /\ UNCHANGED <<registry, history, loader, observed>>

\* The machine stops, or an error that no phase catches leaves it.
Die(p) ==
    /\ execution[p].pc # "off"
    /\ deaths < MaxDeaths
    /\ deaths' = deaths + 1
    /\ End(p)
    /\ UNCHANGED <<files, loader, resolved, begun, read, overlapped, disturbed>>

-----------------------------------------------------------------------------
(* The loaders: registry.py unlocks a market for the tournament,           *)
(* evidence.py all the instruments of the laboratories or none.            *)

\* load_verified_dq03_registry, preflight_dq03_evidence: one file after the other.
OpenRegistry(kind) ==
    /\ loader.pc = "off"
    /\ Document(registry)
    /\ kind = "tournament" => registry.latest # None
    /\ loader' = [kind |-> kind, found |-> registry,
                  pc |-> IF kind = "laboratory" THEN "history" ELSE "manifest"]
    /\ disturbed' = (\E p \in Executions : execution[p].pc # "off")
    /\ UNCHANGED <<files, execution, resolved, begun, deaths, read, overlapped>>

\* Mutant: the manifest need not be of the registry's account.
LinkedByPhase(found) ==
    /\ Document(manifest)
    /\ manifest.phase = found.latest
    /\ manifest.count = Cardinality(DOMAIN found.rows)
    /\ manifest.history

\* _valid_manifest
Linked(found) ==
    /\ Document(manifest)
    /\ manifest.phase = found.latest
    /\ manifest.context = found.context
    /\ manifest.count = Cardinality(DOMAIN found.rows)
    /\ manifest.history

\* The loader returns what it has unlocked and forgets what it read.
LoaderReturns ==
    /\ loader' = Unread
    /\ disturbed' = FALSE
    /\ UNCHANGED <<files, execution, resolved, begun, deaths, read, overlapped>>

CheckManifest ==
    /\ loader.pc = "manifest"
    /\ IF Linked(loader.found)
       THEN loader' = [loader EXCEPT !.pc = "history"] /\ UNCHANGED <<files, execution, observed>>
       ELSE LoaderReturns

\* Mutant: the contract is taken from the sample's file.
BoundBySymbol(s, row) ==
    {x \in Values(history) :
        /\ x.symbol = s /\ x.rows # None
        /\ row.status = "BROKER_VALIDATED"}

\* _market_from_entry, _valid_history_evidence: the one sample of the symbol is of the row's
\* contract, and its fingerprint is the row's.  A symbol with two samples has none.
Bound(s, row) ==
    {x \in Values(history) :
        /\ \E t \in DOMAIN history :
              {u \in DOMAIN history : history[u].symbol = s} = {t} /\ history[t] = x
        /\ row.status = "BROKER_VALIDATED"
        /\ x.epic = row.epic /\ x.rows # None
        /\ row.print = Fingerprint(x)}

\* _validate_required_row: the sample in the row and the one in the file have one fingerprint.
Embedded(s, row) ==
    {x \in Values(history) :
        /\ x.symbol = s /\ x.epic = row.epic /\ x.rows # None
        /\ row.status = "BROKER_VALIDATED" /\ row.print # None
        /\ row.sample # None /\ row.sample.rows # None
        /\ Fingerprint(row.sample) = Fingerprint(x)}

\* The markets a loader unlocks when it returns.
Unlocked ==
    LET rows == loader.found.rows
        validated == {[symbol |-> s, row |-> rows[s], sample |-> x] :
                         s \in DOMAIN rows, x \in Values(history)}
        bound == {m \in validated : m.sample \in Bound(m.symbol, m.row)}
        proven == {m \in validated : m.sample \in Embedded(m.symbol, m.row)}
    IN IF loader.pc # "history" \/ ~Document(history) THEN {}
       ELSE IF loader.kind = "tournament" THEN bound
       ELSE IF {m.symbol : m \in proven} = Symbols THEN proven ELSE {}

OpenHistory == loader.pc = "history" /\ LoaderReturns

HandoffNext ==
    \/ \E p \in Executions :
          \/ Resolve(p) \/ BeginLater(p, "PHASE_2") \/ BeginLater(p, "PHASE_3")
          \/ CheckContext(p) \/ LoadResolutions(p) \/ Sample(p) \/ ReadPrevious(p)
          \/ WriteRegistry(p) \/ WriteHistory(p) \/ WriteManifest(p) \/ Die(p)
    \/ OpenRegistry("tournament") \/ OpenRegistry("laboratory")
    \/ CheckManifest \/ OpenHistory

HandoffSpec == HandoffInit /\ [][HandoffNext]_handoffVars

-----------------------------------------------------------------------------
(* Properties                                                              *)

Passed(m) == <<m.symbol, m.row.epic, m.sample.rows>>
Returns == loader.pc # "off" /\ loader'.pc = "off"

(* What a loader unlocks was validated: a history sample that passed was   *)
(* read for the very symbol and contract of the row, however the files of  *)
(* several executions meet (registry.py, "not a standalone EPIC claim").   *)
UnlockedIsValidated ==
    [][Returns => \A m \in Unlocked : \E r \in read : r.print = Passed(m)]_handoffVars

(* A validation belongs to the resolution it is attached to, so that a     *)
(* contract resolved anew is locked until it is validated anew, and for    *)
(* the tournament one account did both: wherever executions die between    *)
(* their files, unless two of them, or one and the loader, overlapped.     *)
EvidenceIsOfOneOrigin ==
    [][Returns /\ ~overlapped /\ ~disturbed =>
        \A m \in Unlocked : \E r \in read :
            /\ r.made = m.row.made /\ r.print = Passed(m)
            /\ loader.kind = "tournament" =>
                  r.by = loader.found.context /\ resolved[m.row.made] = r.by]_handoffVars

(* Nothing validated is lost on the way: when no execution died and none   *)
(* overlapped, the tournament gets every validated market whose contract   *)
(* no other symbol was resolved to.                                        *)
HandoffIsComplete ==
    [][Returns /\ loader.kind = "tournament" /\ deaths = 0 /\ ~overlapped /\ ~disturbed =>
        \A s \in DOMAIN loader.found.rows :
            /\ loader.found.rows[s].status = "BROKER_VALIDATED"
            /\ \A t \in DOMAIN loader.found.rows \ {s} :
                  loader.found.rows[t].epic # loader.found.rows[s].epic
            => \E m \in Unlocked : m.symbol = s]_handoffVars
=============================================================================
