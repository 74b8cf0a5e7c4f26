---------------------------- MODULE G3APipeline ----------------------------
(***************************************************************************)
(* The acquisition of authoritative market data (tools/g3a_market_data.py):*)
(* executions of one run identifier ask the broker page by page, publish   *)
(* every answer and what is derived from it as files that are only ever    *)
(* created, and are started again after a failure or a death; an offline   *)
(* execution qualifies the raw files of the run anew.                      *)
(*                                                                         *)
(* One series stands for the twelve (three instruments, four resolutions). *)
(* Document 0 stands for the search and the market detail that verify its  *)
(* instrument, documents 1, 2, .. are the price pages.  Rejected answers   *)
(* kept under errors/, which nothing reads, the broker session and the     *)
(* secret scan are left out; so is an execution that logs in and goes on   *)
(* from the raw files and the start time of another run (--raw-cache-run-id*)
(* without --offline-cache-only).                                          *)
(***************************************************************************)
EXTENDS Integers, Sequences

CONSTANTS
    Processes,      \* executions of the command line that may be under way together
    MaxPages,       \* maximum_pages_per_series
    MaxAttempts,    \* maximum_request_attempts
    MaxStarts,      \* bound: executions
    MaxOverlapped,  \* bound: executions, once two have overlapped
    MaxDeaths,      \* bound: executions that die
    Absent, None

VARIABLES
    file,           \* the published artifacts
    temporary,      \* the ".tmp" file next to each
    sources,        \* evidence documents that were set aside
    memory,         \* per process
    starts, deaths, \* bounds: executions and deaths so far
    overlapped      \* history: two executions have been under way together

vars == <<file, temporary, sources, memory, starts, deaths, overlapped>>

Modes == {"online", "offline"}
Documents == 0 .. MaxPages
Derived == {"state", "normalized", "manifest", "run", "evidence"}
Raw(d) == <<"raw", d>>
Artifacts == {Raw(d) : d \in Documents} \cup (Modes \X Derived)

\* A file's content: "writer" has it open until it is whole.
Published(a) == file[a] # Absent /\ file[a].whole
Body(a) == file[a].body

Off == [pc |-> "off", mode |-> "online", stamp |-> 0, started |-> 0, completed |-> 0,
        document |-> 0, attempt |-> 1, answer |-> None, answers |-> <<>>, write |-> None]

Answers == [number : Nat, total : Nat]
Times == [started : Nat, completed : Nat]
Manifests == [answers : Seq(Answers), times : Times]
Runs == [times : Times, cited : Manifests \cup {None}]
Evidence == [complete : BOOLEAN, answers : Seq(Answers), verified : BOOLEAN, completed : Nat]

\* What may be written to an artifact.
Bodies(a) ==
    IF a[1] = "raw" THEN [number : Nat, total : IF a[2] = 0 THEN {0, 1} ELSE 1 .. MaxPages + 1]
    ELSE CASE a[2] = "state" -> Nat
           [] a[2] = "normalized" -> Seq(Answers)
           [] a[2] = "manifest" -> Manifests
           [] a[2] = "run" -> Runs
           [] a[2] = "evidence" -> Evidence

Writes(a) == [artifact : {a} \cap Artifacts, body : Bodies(a),
              step : {"check", "open", "fill", "link", "unlink", "abandon"}]
Contents(a) == [writer : Processes \cup {None}, whole : BOOLEAN, body : Bodies(a)]

\* A process's memory with a write, or none, under way.
Memories(write) ==
    [pc : {"off", "state", "login", "source", "document", "ask", "take", "normalized",
           "manifest", "run", "evidence", "end"},
     mode : Modes, stamp : Nat, started : Nat, completed : Nat, document : Documents,
     attempt : Nat, answer : Answers \cup {None}, answers : Seq(Answers), write : {write}]

ASSUME PagesAssumption == MaxPages \in Nat \ {0}
ASSUME AbsentAssumption == \A a \in Artifacts : Absent \notin Contents(a)
ASSUME NoneAssumption == \A a \in Artifacts : None \notin Writes(a)

Init ==
    /\ file = [a \in Artifacts |-> Absent]
    /\ temporary = [a \in Artifacts |-> Absent]
    /\ sources = {}
    /\ memory = [p \in Processes |-> Off]
    /\ starts = 0 /\ deaths = 0
    /\ overlapped = FALSE

AcquisitionTypeOK ==
    /\ file = [a \in Artifacts |-> file[a]] /\ temporary = [a \in Artifacts |-> temporary[a]]
    /\ \A a \in Artifacts : {file[a], temporary[a]} \subseteq Contents(a) \cup {Absent}
    /\ sources \subseteq Evidence
    /\ memory = [p \in Processes |-> memory[p]]
    /\ \A p \in Processes :
        LET w == memory[p].write
        IN memory[p] \in Memories(w) /\ (w = None \/ w \in Writes(w.artifact))
    /\ starts \in Nat /\ deaths \in Nat /\ overlapped \in BOOLEAN

files == <<file, temporary, sources>>
counts == <<starts, deaths, overlapped>>

At(p, pc) == memory[p].pc = pc /\ memory[p].write = None
Own(p, name) == <<memory[p].mode, name>>
Remember(p, m) == memory' = [memory EXCEPT ![p] = m]
Go(p, pc) == Remember(p, [memory[p] EXCEPT !.pc = pc])

\* run: an error is evidence too.  An error of the evidence itself ends the execution.
Failed(p) ==
    IF memory[p].pc = "end" THEN Off
    ELSE [memory[p] EXCEPT !.pc = "evidence", !.write = None, !.answers = <<>>]
Fail(p) == Remember(p, Failed(p))

\* The execution goes on at pc when the artifact is published.
Writing(m, artifact, body, pc) ==
    [m EXCEPT !.pc = pc, !.write = [artifact |-> artifact, body |-> body, step |-> "check"]]

-----------------------------------------------------------------------------
(* write_create_or_verify                                                  *)

Step(p, step) == memory[p].write # None /\ memory[p].write.step = step
ToStep(p, step) == Remember(p, [memory[p] EXCEPT !.write.step = step])
Written(p) == Remember(p, [memory[p] EXCEPT !.write = None])

Verify(p) ==
    LET w == memory[p].write
    IN /\ Step(p, "check")
       /\ IF file[w.artifact] = Absent THEN ToStep(p, "open")
          ELSE IF Published(w.artifact) /\ Body(w.artifact) = w.body THEN Written(p)
          ELSE Fail(p)
       /\ UNCHANGED <<files, counts>>

\* open("xb"): never over another file.
OpenTemporary(p) ==
    LET a == memory[p].write.artifact
    IN /\ Step(p, "open")
       /\ IF temporary[a] = Absent
          THEN /\ temporary' = [temporary EXCEPT ![a] =
                      [writer |-> p, whole |-> FALSE, body |-> memory[p].write.body]]
               /\ ToStep(p, "fill")
          ELSE temporary' = temporary /\ ToStep(p, "abandon")
       /\ UNCHANGED <<file, sources, counts>>

\* The open file may have been unlinked, or published by another process.
Filled(content, p) ==
    IF content # Absent /\ ~content.whole /\ content.writer = p
    THEN [content EXCEPT !.whole = TRUE, !.writer = None] ELSE content

FillTemporary(p) ==
    /\ Step(p, "fill")
    /\ temporary' = [a \in Artifacts |-> Filled(temporary[a], p)]
    /\ file' = [a \in Artifacts |-> Filled(file[a], p)]
    /\ ToStep(p, "link")
    /\ UNCHANGED <<sources, counts>>

\* Mutant: the file takes the place of one that came there since.
Replaced(p) ==
    LET a == memory[p].write.artifact
    IN /\ Step(p, "link")
       /\ IF temporary[a] # Absent
          THEN file' = [file EXCEPT ![a] = temporary[a]] /\ ToStep(p, "unlink")
          ELSE file' = file /\ ToStep(p, "abandon")
       /\ UNCHANGED <<temporary, sources, counts>>

\* os.link: whatever file has the temporary name now.
Publish(p) ==
    LET a == memory[p].write.artifact
    IN /\ Step(p, "link")
       /\ IF temporary[a] # Absent /\ file[a] = Absent
          THEN file' = [file EXCEPT ![a] = temporary[a]] /\ ToStep(p, "unlink")
          ELSE file' = file /\ ToStep(p, "abandon")
       /\ UNCHANGED <<temporary, sources, counts>>

\* The finally clause unlinks the temporary name, whoever made the file.
Unlink(p) ==
    /\ Step(p, "unlink") \/ Step(p, "abandon")
    /\ temporary' = [temporary EXCEPT ![memory[p].write.artifact] = Absent]
    /\ IF Step(p, "unlink") THEN Written(p) ELSE Fail(p)
    /\ UNCHANGED <<file, sources, counts>>

-----------------------------------------------------------------------------
(* The pipeline.                                                           *)

\* run refuses to start over evidence.
Start(p, mode) ==
    /\ memory[p].pc = "off"
    /\ starts < MaxStarts
    /\ file[<<mode, "evidence">>] = Absent
    /\ Remember(p, [Off EXCEPT !.pc = "state", !.mode = mode, !.stamp = starts + 1])
    /\ starts' = starts + 1
    /\ overlapped' = (overlapped \/ \E q \in Processes \ {p} : memory[q].pc # "off")
    /\ overlapped' => starts' <= MaxOverlapped
    /\ UNCHANGED <<files, deaths>>

\* Mutant: the time of the run that goes on is not taken over.
StartedAnew(p) ==
    LET m == memory[p]
        own == Own(p, "state")
    IN /\ At(p, "state")
       /\ IF file[own] # Absent
          THEN Remember(p, [m EXCEPT !.pc = "login", !.started = m.stamp])
          ELSE Remember(p, Writing([m EXCEPT !.started = m.stamp], own, m.stamp, "login"))
       /\ UNCHANGED <<files, counts>>

\* _load_or_create_run_state: a run that goes on keeps the time it was started.
LoadState(p) ==
    LET m == memory[p]
        own == Own(p, "state")
        source == <<"online", "state">>
        next == IF m.mode = "online" THEN "login" ELSE "source"
    IN /\ At(p, "state")
       /\ IF m.mode = "offline" /\ ~Published(source) THEN Fail(p)
          ELSE IF file[own] # Absent
          THEN IF Published(own)
               THEN Remember(p, [m EXCEPT !.pc = next, !.started = Body(own)]) ELSE Fail(p)
          ELSE LET started == IF m.mode = "online" THEN m.stamp ELSE Body(source)
               IN Remember(p, Writing([m EXCEPT !.started = started], own, started, next))
       /\ UNCHANGED <<files, counts>>

\* _login, _account_timezone_offset
Login(p) ==
    /\ At(p, "login")
    /\ \/ Remember(p, [memory[p] EXCEPT !.pc = "document", !.completed = memory[p].stamp])
       \/ Fail(p)
    /\ UNCHANGED <<files, counts>>

\* _load_source_acquisition: evidence of the run whose instruments were verified, with the
\* account's offset, which that of an execution that failed does not carry.
LoadSource(p) ==
    /\ At(p, "source")
    /\ \/ \E s \in sources \cup
                    {Body(a) : a \in {b \in {<<"online", "evidence">>} : Published(b)}} :
             /\ s.complete /\ s.verified
             /\ Remember(p, [memory[p] EXCEPT !.pc = "document", !.completed = s.completed])
       \/ Fail(p)
    /\ UNCHANGED <<files, counts>>

\* _verify_instrument, _acquire_series: what becomes of one document.  The first is of one
\* instrument or of another; a page names the number of pages.
Take(p, body) ==
    LET m == memory[p]
        d == m.document
        first == IF d = 1 THEN body ELSE m.answers[2]
        fits == \/ d = 0 /\ body.total = 1
                \/ d > 0 /\ body.total = first.total /\ body.total <= MaxPages
        more == [m EXCEPT !.answers = Append(@, body), !.attempt = 1]
    IN IF ~fits THEN Fail(p)
       ELSE IF d > 0 /\ d = body.total THEN Remember(p, [more EXCEPT !.pc = "normalized"])
       ELSE Remember(p, [more EXCEPT !.pc = "document", !.document = d + 1])

\* _request_market_json looks for the raw file first.
LoadDocument(p) ==
    LET m == memory[p]
        raw == Raw(m.document)
    IN /\ At(p, "document")
       /\ IF file[raw] = Absent
          THEN IF m.mode = "online" THEN Go(p, "ask") ELSE Fail(p)
          ELSE IF Published(raw) THEN Take(p, Body(raw)) ELSE Fail(p)
       /\ UNCHANGED <<files, counts>>

\* No answer, or one that may be repeated, until the attempts are used up; or a refusal.
Rejected(p) ==
    /\ At(p, "ask")
    /\ \/ /\ memory[p].attempt < MaxAttempts
          /\ Remember(p, [memory[p] EXCEPT !.attempt = @ + 1])
       \/ Fail(p)
    /\ UNCHANGED <<files, counts>>

\* No two answers are the same to the byte: a page carries the remaining allowance.
Answered(p) ==
    LET m == memory[p]
        d == m.document
    IN /\ At(p, "ask")
       /\ \E total \in IF d = 0 THEN {0, 1} ELSE 1 .. (MaxPages + 1) :
              LET body == [number |-> m.stamp, total |-> total]
              IN Remember(p, Writing([m EXCEPT !.answer = body], Raw(d), body, "take"))
       /\ UNCHANGED <<files, counts>>

\* The answer is taken from memory, not from the file.
TakeAnswer(p) ==
    /\ At(p, "take")
    /\ Take(p, memory[p].answer)
    /\ UNCHANGED <<files, counts>>

\* _write_datasets, _write_run_manifest: the run manifest cites the manifest as it is read.
WriteDerived(p) ==
    LET m == memory[p]
        times == [started |-> m.started, completed |-> m.completed]
        manifest == Own(p, "manifest")
    IN /\ \/ /\ At(p, "normalized")
             /\ Remember(p, Writing(m, Own(p, "normalized"), m.answers, "manifest"))
          \/ /\ At(p, "manifest")
             /\ Remember(p, Writing(m, manifest, [answers |-> m.answers, times |-> times], "run"))
          \/ /\ At(p, "run")
             /\ Remember(p, Writing(m, Own(p, "run"),
                    [times |-> times,
                     cited |-> IF Published(manifest) THEN Body(manifest) ELSE None], "evidence"))
       /\ UNCHANGED <<files, counts>>

\* _evidence, after the logout: of a run that failed, the time is the present.
WriteEvidence(p) ==
    LET m == memory[p]
    IN /\ At(p, "evidence")
       /\ Remember(p, Writing(m, Own(p, "evidence"),
              [complete |-> m.answers # <<>>, answers |-> m.answers,
               verified |-> m.document > 0,
               completed |-> IF m.answers # <<>> THEN m.completed ELSE m.stamp], "end"))
       /\ UNCHANGED <<files, counts>>

End(p) ==
    /\ At(p, "end")
    /\ Remember(p, Off)
    /\ UNCHANGED <<files, counts>>

\* The operator puts evidence in another place before the run is started again.
SetAside(mode) ==
    LET a == <<mode, "evidence">>
    IN /\ Published(a)
       /\ sources' = IF mode = "online" THEN sources \cup {Body(a)} ELSE sources
       /\ file' = [file EXCEPT ![a] = Absent]
       /\ UNCHANGED <<temporary, memory, counts>>

\* The file of a process that died stays as it is.
Left(content, p) ==
    IF content # Absent /\ content.writer = p THEN [content EXCEPT !.writer = None] ELSE content

Die(p) ==
    /\ memory[p].pc # "off"
    /\ deaths < MaxDeaths
    /\ deaths' = deaths + 1
    /\ Remember(p, Off)
    /\ temporary' = [a \in Artifacts |-> Left(temporary[a], p)]
    /\ file' = [a \in Artifacts |-> Left(file[a], p)]
    /\ UNCHANGED <<sources, starts, overlapped>>

Execution(p) ==
    \/ Verify(p) \/ OpenTemporary(p) \/ FillTemporary(p) \/ Publish(p) \/ Unlink(p)
    \/ LoadState(p) \/ Login(p) \/ LoadSource(p) \/ LoadDocument(p)
    \/ Rejected(p) \/ Answered(p) \/ TakeAnswer(p)
    \/ WriteDerived(p) \/ WriteEvidence(p) \/ End(p)

Next ==
    \/ \E p \in Processes :
          Execution(p) \/ Die(p) \/ (\E mode \in Modes : Start(p, mode))
    \/ \E mode \in Modes : SetAside(mode)

Spec == Init /\ [][Next]_vars

-----------------------------------------------------------------------------
(* Properties                                                              *)

OnDisk(answers) ==
    \A i \in DOMAIN answers : Published(Raw(i - 1)) /\ Body(Raw(i - 1)) = answers[i]

\* The series manifest cites the raw files and the normalized series.
ManifestIsBacked(mode) ==
    LET answers == Body(<<mode, "manifest">>).answers
    IN file[<<mode, "manifest">>] # Absent =>
           /\ Published(<<mode, "manifest">>)
           /\ OnDisk(answers)
           /\ Published(<<mode, "normalized">>) /\ Body(<<mode, "normalized">>) = answers

\* The run manifest cites the series manifest; a requalification keeps the run's start.
RunIsBacked(mode) ==
    LET run == Body(<<mode, "run">>)
    IN file[<<mode, "run">>] # Absent =>
           /\ Published(<<mode, "run">>) /\ Published(<<mode, "manifest">>)
           /\ run.cited = Body(<<mode, "manifest">>)
           /\ run.times = run.cited.times
           /\ run.times.started = Body(<<"online", "state">>)

\* The evidence is of that run manifest, and the pages are one complete answer.
EvidenceIsOfItsRun(mode) ==
    LET evidence == Body(<<mode, "evidence">>)
    IN Published(<<mode, "evidence">>) /\ evidence.complete =>
           /\ Published(<<mode, "run">>)
           /\ Body(<<mode, "run">>).cited.answers = evidence.answers
           /\ Body(<<mode, "run">>).times.completed = evidence.completed
           /\ \A i \in 2 .. Len(evidence.answers) :
                  evidence.answers[i].total = Len(evidence.answers) - 1

(* Whatever cites a file, cites what is on disk: the series manifest its   *)
(* raw files, the run manifest the series manifest, the evidence the run,  *)
(* wherever executions died and however often the run was taken up again,  *)
(* unless two of them overlapped (docs/G3A-01: every file has its hash).   *)
EvidenceIsBacked ==
    ~overlapped =>
        \A mode \in Modes :
            ManifestIsBacked(mode) /\ RunIsBacked(mode) /\ EvidenceIsOfItsRun(mode)

(* What was published stays as it is, between any steps of two executions, *)
(* but for evidence that the operator sets aside (docs/G3A-01, "an         *)
(* existing different file is an immutable-output conflict").              *)
PublishedStays ==
    [][\A a \in Artifacts :
          file[a] # Absent =>
              \/ file'[a] # Absent /\ file'[a].body = file[a].body
              \/ file'[a] = Absent /\ a \in Modes \X {"evidence"} /\ memory' = memory]_vars
=============================================================================
