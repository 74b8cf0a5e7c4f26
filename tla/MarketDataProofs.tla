-------------------------- MODULE MarketDataProofs --------------------------
(***************************************************************************)
(* The evidence behind the market data.  Of the acquisition: for any       *)
(* number of executions, pages, starts and deaths, what was published      *)
(* stays, and what cites a file cites what is on disk.  Of the replay: for *)
(* any markets, instruments and resolutions, that no window and no         *)
(* decision knows what comes after it.  Of the laboratories: for any       *)
(* histories, variants and sizes, that nothing is selected or traded on    *)
(* what comes later, and that what is held ready has earned it.            *)
(***************************************************************************)
EXTENDS G3APipeline, HistoricalReplay, ResearchLab, FiniteSetTheorems, WellFoundedInduction, TLAPS

\* The execution is publishing body as artifact a, or has done so.
Publishes(m, a, body) ==
    IF m.write = None THEN Published(a) /\ Body(a) = body
    ELSE m.write.artifact = a /\ m.write.body = body

TimesOf(m) == [started |-> m.started, completed |-> m.completed]
ManifestOf(m) == [answers |-> m.answers, times |-> TimesOf(m)]

\* The run's start is the one of the online state.
IsBegun(m) ==
    Published(<<"online", "state">>) /\ Body(<<"online", "state">>) = m.started

\* The answers of the documents before this one; the pages agree on how many there are.
\* An execution that is off writes nothing.
PagesAgree(m) ==
    /\ m.pc = "off" => m.write = None
    /\ m.pc \in {"state", "login", "source"} => m.answers = <<>> /\ m.document = 0
    /\ m.pc \in {"document", "ask", "take"} =>
           /\ Len(m.answers) = m.document
           /\ \A i \in 2 .. m.document : m.answers[i].total = m.answers[2].total
           /\ m.document >= 2 => m.answers[2].total \in m.document .. MaxPages
    /\ m.pc = "take" => m.answer \in Bodies(Raw(m.document))
    /\ /\ m.pc \in {"normalized", "manifest", "run", "evidence"}
       /\ m.pc = "evidence" => m.answers # <<>>
       => /\ m.document >= 1 /\ Len(m.answers) = m.document + 1
          /\ \A i \in 2 .. m.document + 1 : m.answers[i].total = m.document

HasNormalized(m) ==
    Published(<<m.mode, "normalized">>) /\ Body(<<m.mode, "normalized">>) = m.answers
HasManifest(m) ==
    Published(<<m.mode, "manifest">>) /\ Body(<<m.mode, "manifest">>) = ManifestOf(m)
RunOf(m) == [times |-> TimesOf(m), cited |-> ManifestOf(m)]

\* The evidence being written is of the run on disk.
EvidenceFollows(m) ==
    LET run == Body(<<m.mode, "run">>)
        evidence == m.write.body
    IN /\ m.write.artifact = <<m.mode, "evidence">>
       /\ evidence.complete =>
              /\ Published(<<m.mode, "run">>)
              /\ run.cited.answers = evidence.answers
              /\ run.times.completed = evidence.completed
              /\ \A i \in 2 .. Len(evidence.answers) :
                     evidence.answers[i].total = Len(evidence.answers) - 1

\* What an execution relies on, wherever it is.
IsBacked(m) ==
    /\ m.pc \in {"off", "state", "document", "ask", "normalized"} => m.write = None
    /\ m.pc = "login" =>
           m.mode = "online" /\ Publishes(m, <<"online", "state">>, m.started)
    /\ m.pc = "source" =>
           m.mode = "offline" /\ IsBegun(m) /\ Publishes(m, <<"offline", "state">>, m.started)
    /\ m.pc \in {"document", "ask", "take", "normalized", "manifest", "run"} =>
           IsBegun(m) /\ OnDisk(m.answers)
    /\ m.pc = "take" => Publishes(m, Raw(m.document), m.answer)
    /\ m.pc = "manifest" => Publishes(m, <<m.mode, "normalized">>, m.answers)
    /\ m.pc = "run" => HasNormalized(m) /\ Publishes(m, <<m.mode, "manifest">>, ManifestOf(m))
    /\ m.pc = "evidence" =>
           IF m.answers = <<>> THEN m.write = None
           ELSE /\ IsBegun(m) /\ OnDisk(m.answers) /\ HasNormalized(m) /\ HasManifest(m)
                /\ Publishes(m, <<m.mode, "run">>, RunOf(m))
    /\ m.pc = "end" /\ m.write # None => EvidenceFollows(m)

\* What the file and its temporary are while a process writes.
WriteIsReady(p, m) ==
    LET w == m.write
        a == w.artifact
    IN w # None =>
        /\ w.step \in {"open", "fill", "link"} => file[a] = Absent
        /\ w.step \in {"fill", "link"} =>
               /\ temporary[a] # Absent /\ temporary[a].body = w.body
               /\ temporary[a].whole \/ (w.step = "fill" /\ temporary[a].writer = p)
        /\ w.step = "unlink" /\ a \notin Modes \X {"evidence"} =>
               Published(a) /\ Body(a) = w.body

OneAtATime == \A p, q \in Processes : p # q => "off" \in {memory[p].pc, memory[q].pc}

\* A requalification keeps the start of the run.
StateIsShared ==
    file[<<"offline", "state">>] # Absent =>
        /\ file[<<"online", "state">>] # Absent
        /\ Body(<<"offline", "state">>) = Body(<<"online", "state">>)

\* The files on disk, whoever is at work.
FilesAgree ==
    /\ \A a \in Artifacts : file[a] # Absent => file[a].whole
    /\ StateIsShared
    /\ \A mode \in Modes :
           /\ file[<<mode, "manifest">>] # Absent =>
                  Len(Body(<<mode, "manifest">>).answers) <= MaxPages + 1
           /\ file[<<mode, "run">>] # Absent => file[<<"online", "state">>] # Absent
           /\ ManifestIsBacked(mode) /\ RunIsBacked(mode) /\ EvidenceIsOfItsRun(mode)

AcquisitionIInv ==
    /\ AcquisitionTypeOK
    /\ \A p \in Processes : PagesAgree(memory[p])
    /\ ~overlapped =>
        /\ OneAtATime /\ FilesAgree
        /\ \A p \in Processes : IsBacked(memory[p]) /\ WriteIsReady(p, memory[p])

-----------------------------------------------------------------------------
(* Types. *)

IsMemory(m) == m \in Memories(m.write) /\ (m.write = None \/ m.write \in Writes(m.write.artifact))

Pcs == {"off", "state", "login", "source", "document", "ask", "take", "normalized",
        "manifest", "run", "evidence", "end"}

SameRun(n, m) ==
    /\ n.pc = m.pc /\ n.mode = m.mode /\ n.stamp = m.stamp
    /\ n.started = m.started /\ n.completed = m.completed /\ n.document = m.document
    /\ n.answer = m.answer /\ n.answers = m.answers

LEMMA ArtifactKinds ==
    /\ \A d \in Documents : Raw(d) \in Artifacts /\ Bodies(Raw(d)) \subseteq Answers
    /\ \A mode \in Modes, name \in Derived : <<mode, name>> \in Artifacts
    /\ \A mode \in Modes : /\ Bodies(<<mode, "state">>) = Nat
                           /\ Bodies(<<mode, "normalized">>) = Seq(Answers)
                           /\ Bodies(<<mode, "manifest">>) = Manifests
                           /\ Bodies(<<mode, "run">>) = Runs
                           /\ Bodies(<<mode, "evidence">>) = Evidence
<1>1. \A d \in Documents : Bodies(Raw(d)) \subseteq Answers
  BY PagesAssumption DEF Raw, Bodies, Answers, Documents
<1>2. QED
  BY <1>1 DEF Raw, Artifacts, Bodies, Modes, Derived

LEMMA OffType == IsMemory(Off)
  BY PagesAssumption DEF Off, IsMemory, Memories, Modes, Documents

\* A memory that begins to write.
LEMMA WritingType ==
    ASSUME NEW m, IsMemory(m), NEW a \in Artifacts, NEW body \in Bodies(a), NEW pc \in Pcs
    PROVE  LET n == Writing(m, a, body, pc)
           IN /\ IsMemory(n)
              /\ n.pc = pc /\ n.write # None
              /\ n.write.artifact = a /\ n.write.body = body /\ n.write.step = "check"
              /\ n.mode = m.mode /\ n.stamp = m.stamp /\ n.started = m.started
              /\ n.completed = m.completed /\ n.document = m.document
              /\ n.answer = m.answer /\ n.answers = m.answers
<1> DEFINE w == [artifact |-> a, body |-> body, step |-> "check"]
           n == Writing(m, a, body, pc)
<1>1. w \in Writes(a) /\ w.artifact = a
  BY DEF Writes
<1>2. w # None
  BY <1>1, NoneAssumption
<1>3. n = [m EXCEPT !.pc = pc, !.write = w]
  BY DEF Writing
<1> HIDE DEF w, n
<1>4. /\ n \in Memories(w) /\ n.write = w
      /\ n.pc = pc
      /\ n.mode = m.mode /\ n.stamp = m.stamp /\ n.started = m.started
      /\ n.completed = m.completed /\ n.document = m.document
      /\ n.answer = m.answer /\ n.answers = m.answers
  BY <1>3 DEF IsMemory, Memories, Pcs
<1>5. QED
  BY <1>1, <1>2, <1>4 DEF IsMemory, n, w

TemporaryStep ==
    \/ temporary' = temporary
    \/ \E a \in Artifacts : \E content \in Contents(a) \cup {Absent} :
           temporary' = [temporary EXCEPT ![a] = content]

\* A step that changes a memory and temporary files.
LEMMA MemoryStepType ==
    ASSUME AcquisitionTypeOK, NEW p \in Processes, NEW m, IsMemory(m), Remember(p, m),
           UNCHANGED <<file, sources, counts>>,
           TemporaryStep
    PROVE  AcquisitionTypeOK'
  BY DEF AcquisitionTypeOK, Remember, counts, IsMemory, TemporaryStep

LEMMA FailedType ==
    ASSUME AcquisitionTypeOK, NEW p \in Processes
    PROVE  /\ IsMemory(Failed(p))
           /\ Failed(p).write = None
           /\ memory[p].pc = "end" => Failed(p) = Off
           /\ memory[p].pc # "end" =>
                  Failed(p).pc = "evidence" /\ Failed(p).answers = <<>>
<1>1. CASE memory[p].pc = "end"
  BY <1>1, OffType DEF Failed, Off
<1>2. CASE memory[p].pc # "end"
  <2>1. Failed(p) = [memory[p] EXCEPT !.pc = "evidence", !.write = None, !.answers = <<>>]
    BY <1>2 DEF Failed
  <2>2. <<>> \in Seq(Answers)
    OBVIOUS
  <2>3. QED
    BY <1>2, <2>1, <2>2, ZenonT(60) DEF AcquisitionTypeOK, IsMemory, Memories
<1>3. QED
  BY <1>1, <1>2

\* What a process holds is typed, and so is what is on disk.
LEMMA TypesOf ==
    ASSUME AcquisitionTypeOK
    PROVE  /\ \A p \in Processes : IsMemory(memory[p])
           /\ \A a \in Artifacts : /\ Published(a) => Body(a) \in Bodies(a)
                                   /\ file[a] = Absent \/ file[a] \in Contents(a)
                                   /\ temporary[a] = Absent \/ temporary[a] \in Contents(a)
           /\ \A p \in Processes : memory[p].write # None =>
                  LET w == memory[p].write
                  IN /\ w.artifact \in Artifacts /\ w.body \in Bodies(w.artifact)
                     /\ w.step \in {"check", "open", "fill", "link", "unlink", "abandon"}
  BY DEF AcquisitionTypeOK, IsMemory, Published, Body, Contents, Writes

\* A step of the write of one process.
LEMMA WriteStepType ==
    ASSUME AcquisitionTypeOK, NEW p \in Processes, memory[p].write # None,
           NEW step \in {"check", "open", "fill", "link", "unlink", "abandon"}
    PROVE  LET n == [memory[p] EXCEPT !.write.step = step]
           IN /\ IsMemory(n) /\ n.write # None /\ n.write.step = step
              /\ n.write.artifact = memory[p].write.artifact
              /\ n.write.body = memory[p].write.body
              /\ SameRun(n, memory[p])
<1> DEFINE m == memory[p]
           w == [m.write EXCEPT !.step = step]
           n == [m EXCEPT !.write = w]
<1>1. m \in Memories(m.write) /\ m.write \in Writes(m.write.artifact)
  BY TypesOf DEF IsMemory
<1> HIDE DEF m
<1>2. /\ w \in Writes(w.artifact) /\ w.step = step
      /\ w.artifact = m.write.artifact /\ w.body = m.write.body
      /\ w.artifact \in Artifacts
  BY <1>1 DEF Writes
<1>3. w # None
  BY <1>2, NoneAssumption
<1> HIDE DEF w
<1>4. /\ n \in Memories(w) /\ n.write = w
      /\ SameRun(n, m)
  BY <1>1 DEF Memories, SameRun
<1>5. n = [memory[p] EXCEPT !.write.step = step]
  BY <1>1 DEF m, w, Memories
<1> HIDE DEF n
<1>6. QED
  BY <1>2, <1>3, <1>4, <1>5 DEF IsMemory, m

LEMMA WrittenType ==
    ASSUME AcquisitionTypeOK, NEW p \in Processes
    PROVE  LET n == [memory[p] EXCEPT !.write = None]
           IN /\ IsMemory(n) /\ n.write = None
              /\ SameRun(n, memory[p])
  BY TypesOf DEF IsMemory, Memories, SameRun

LEMMA AppendFacts ==
    ASSUME NEW S, NEW s \in Seq(S), NEW x \in S
    PROVE  /\ Append(s, x) \in Seq(S)
           /\ Len(Append(s, x)) = Len(s) + 1
           /\ \A i \in 1 .. Len(s) : Append(s, x)[i] = s[i]
           /\ Append(s, x)[Len(s) + 1] = x
           /\ Append(s, x) # <<>>
  OBVIOUS

\* One more page of the same total.
LEMMA PageTotals ==
    ASSUME NEW n \in Nat, n >= 2, NEW s, NEW t, NEW total,
           \A i \in 2 .. n : s[i].total = total, \A i \in 1 .. n : t[i] = s[i],
           t[n + 1].total = total
    PROVE  t[2].total = total /\ \A i \in 2 .. n + 1 : t[i].total = total
<1>1. SUFFICES ASSUME NEW i \in 2 .. n + 1 PROVE t[i].total = total
  <2>1. 2 \in 2 .. n + 1
    OBVIOUS
  <2>2. QED
    BY <2>1
<1>2. CASE i = n + 1
  BY <1>2
<1>3. CASE i # n + 1
  <2>1. i \in 1 .. n /\ i \in 2 .. n
    BY <1>3
  <2>2. QED
    BY <2>1
<1>4. QED
  BY <1>2, <1>3

\* What becomes of one document: an error, the next document, or all of them.
LEMMA TakeSteps ==
    ASSUME AcquisitionTypeOK, NEW p \in Processes, PagesAgree(memory[p]),
           memory[p].pc \in {"document", "take"}, memory[p].write = None,
           NEW body \in Bodies(Raw(memory[p].document)), Take(p, body)
    PROVE  \/ Fail(p)
           \/ \E m : /\ IsMemory(m) /\ PagesAgree(m) /\ Remember(p, m)
                     /\ m.pc \in {"document", "normalized"} /\ m.write = None
                     /\ m.answers = Append(memory[p].answers, body)
                     /\ m.mode = memory[p].mode /\ m.started = memory[p].started
<1> DEFINE m == memory[p]
           d == m.document
           first == IF d = 1 THEN body ELSE m.answers[2]
           taken == Append(m.answers, body)
           fits == \/ d = 0 /\ body.total = 1
                   \/ d > 0 /\ body.total = first.total /\ body.total <= MaxPages
           all == [m EXCEPT !.answers = taken, !.attempt = 1, !.pc = "normalized"]
           next == [m EXCEPT !.answers = taken, !.attempt = 1, !.pc = "document",
                             !.document = d + 1]
<1>1. /\ m \in Memories(m.write) /\ IsMemory(m) /\ d \in Nat /\ d <= MaxPages
      /\ body \in Answers /\ m.answers \in Seq(Answers) /\ MaxPages \in Nat
  BY TypesOf, ArtifactKinds, PagesAssumption DEF IsMemory, Memories, Documents
<1>2. d > 0 => body.total \in 1 .. MaxPages + 1
  BY <1>1 DEF Bodies, Raw
<1>3. /\ Len(m.answers) = d
      /\ \A i \in 2 .. d : m.answers[i].total = m.answers[2].total
      /\ d >= 2 => m.answers[2].total \in d .. MaxPages
  BY DEF PagesAgree
<1>4. /\ taken \in Seq(Answers)
      /\ Len(taken) = d + 1
      /\ \A i \in 1 .. d : taken[i] = m.answers[i]
      /\ taken[d + 1] = body
      /\ taken # <<>>
      /\ \A i \in 1 .. d : m.answers[i] \in Answers
  BY <1>1, <1>3, AppendFacts
<1> HIDE DEF taken
<1>5. CASE ~fits
  BY <1>5 DEF Take
<1>6. CASE fits /\ d > 0 /\ d = body.total
  <2>1. Remember(p, all)
    BY <1>6 DEF Take, taken
  <2>2. /\ IsMemory(all) /\ all.pc = "normalized" /\ all.write = None /\ all.document = d
        /\ all.answers = taken /\ all.mode = m.mode /\ all.started = m.started
    BY <1>1, <1>4 DEF IsMemory, Memories
  <2>3. \A i \in 2 .. d + 1 : taken[i].total = d
    <3>1. CASE d = 1
      BY <1>1, <1>4, <1>6, <3>1
    <3>2. CASE d >= 2
      <4>1. body.total = d /\ m.answers[2].total = d
        BY <1>6, <3>2
      <4>2. \A i \in 2 .. d : m.answers[i].total = d
        BY <1>1, <1>3, <4>1
      <4> HIDE DEF m, d
      <4>3. QED
        BY <1>1, <1>4, <3>2, <4>1, <4>2, PageTotals
    <3>3. QED
      BY <1>1, <1>6, <3>1, <3>2
  <2> HIDE DEF all
  <2>4. PagesAgree(all)
    BY <1>4, <1>6, <2>2, <2>3 DEF PagesAgree
  <2>5. QED
    BY <2>1, <2>2, <2>4 DEF taken
<1>7. CASE fits /\ ~(d > 0 /\ d = body.total)
  <2>1. Remember(p, next)
    BY <1>7 DEF Take, taken
  <2>2. d + 1 \in Documents
    BY <1>1, <1>2, <1>3, <1>7, PagesAssumption DEF Documents
  <2>3. /\ IsMemory(next) /\ next.pc = "document" /\ next.write = None /\ next.document = d + 1
        /\ next.answers = taken
        /\ next.mode = m.mode /\ next.started = m.started
    BY <1>1, <1>4, <2>2 DEF IsMemory, Memories
  <2>4. \A i \in 2 .. d + 1 : /\ taken[i].total = taken[2].total
                              /\ taken[2].total \in d + 1 .. MaxPages
    <3>1. CASE d = 0
      BY <3>1
    <3>2. CASE d = 1
      BY <1>1, <1>2, <1>4, <1>7, <3>2
    <3>3. CASE d >= 2
      <4>1. body.total = m.answers[2].total /\ body.total # d
        BY <1>7, <3>3
      <4>2. m.answers[2].total \in d + 1 .. MaxPages
        BY <1>1, <1>3, <3>3, <4>1
      <4> HIDE DEF m, d
      <4>3. /\ taken[2].total = m.answers[2].total
            /\ \A i \in 2 .. d + 1 : taken[i].total = m.answers[2].total
        BY <1>1, <1>3, <1>4, <3>3, <4>1, PageTotals
      <4>4. QED
        BY <4>2, <4>3
    <3>4. QED
      BY <1>1, <3>1, <3>2, <3>3
  <2> HIDE DEF next
  <2>5. PagesAgree(next)
    BY <1>1, <1>4, <2>3, <2>4 DEF PagesAgree
  <2>6. QED
    BY <2>1, <2>3, <2>5 DEF taken
<1>8. QED
  BY <1>5, <1>6, <1>7

-----------------------------------------------------------------------------
(* Steps of one execution that leave the published files alone. *)

LEMMA SameFiles ==
    ASSUME file' = file
    PROVE  /\ FilesAgree' <=> FilesAgree
           /\ \A a : (Published(a)' <=> Published(a)) /\ Body(a)' = Body(a)
           /\ \A s : OnDisk(s)' <=> OnDisk(s)
<1>1. \A a : (Published(a)' <=> Published(a)) /\ Body(a)' = Body(a)
  BY DEF Published, Body
<1>2. \A s : OnDisk(s)' <=> OnDisk(s)
  BY <1>1 DEF OnDisk
<1>3. \A mode : /\ ManifestIsBacked(mode)' <=> ManifestIsBacked(mode)
                /\ RunIsBacked(mode)' <=> RunIsBacked(mode)
                /\ EvidenceIsOfItsRun(mode)' <=> EvidenceIsOfItsRun(mode)
  BY <1>1, <1>2 DEF ManifestIsBacked, RunIsBacked, EvidenceIsOfItsRun
<1>4. FilesAgree' <=> FilesAgree
  BY <1>1, <1>3 DEF FilesAgree, StateIsShared
<1>5. QED
  BY <1>1, <1>2, <1>4

LEMMA SameBacking ==
    ASSUME file' = file, NEW m
    PROVE  IsBacked(m)' <=> IsBacked(m)
  BY SameFiles DEF IsBacked, Publishes, IsBegun, HasNormalized, HasManifest, EvidenceFollows

\* An execution that is off relies on nothing.
LEMMA OffIsBacked ==
    ASSUME NEW p, NEW m, m.pc = "off"
    PROVE  m.write = None => IsBacked(m) /\ WriteIsReady(p, m)
  BY DEF IsBacked, WriteIsReady

\* While no two executions overlap, only the one that steps relies on anything.
LEMMA ExecutionStep ==
    ASSUME AcquisitionIInv, NEW p \in Processes, memory[p].pc # "off",
           NEW m, IsMemory(m), PagesAgree(m), Remember(p, m),
           AcquisitionTypeOK', overlapped' = overlapped,
           ~overlapped => FilesAgree' /\ IsBacked(m)' /\ WriteIsReady(p, m)'
    PROVE  AcquisitionIInv'
<1>1. /\ memory' = [memory EXCEPT ![p] = m] /\ memory = [q \in Processes |-> memory[q]]
      /\ memory'[p] = m /\ \A q \in Processes \ {p} : memory'[q] = memory[q]
  BY DEF AcquisitionIInv, AcquisitionTypeOK, Remember
<1>2. \A q \in Processes : PagesAgree(memory[q])'
  BY <1>1 DEF AcquisitionIInv, PagesAgree
<1>3. ASSUME ~overlapped
      PROVE  /\ OneAtATime' /\ FilesAgree'
             /\ \A q \in Processes : IsBacked(memory[q])' /\ WriteIsReady(q, memory[q])'
  <2>1. OneAtATime
    BY <1>3 DEF AcquisitionIInv
  <2>2. \A q \in Processes \ {p} : memory[q].pc = "off" /\ memory[q].write = None
    BY <1>3, <2>1 DEF AcquisitionIInv, OneAtATime, PagesAgree
  <2>3. OneAtATime'
    BY <1>1, <2>1, <2>2 DEF OneAtATime
  <2>4. IsBacked(memory[p])' /\ WriteIsReady(p, memory[p])'
    BY <1>1, <1>3 DEF IsBacked, WriteIsReady
  <2>5. \A q \in Processes \ {p} : IsBacked(memory[q])' /\ WriteIsReady(q, memory[q])'
    BY <1>1, <2>2 DEF IsBacked, WriteIsReady
  <2>6. QED
    BY <1>3, <2>3, <2>4, <2>5
<1>4. QED
  BY <1>1, <1>2, <1>3 DEF AcquisitionIInv

LEMMA MemoryStep ==
    ASSUME AcquisitionIInv, NEW p \in Processes, memory[p].pc # "off",
           NEW m, IsMemory(m), PagesAgree(m), Remember(p, m),
           TemporaryStep, UNCHANGED <<file, sources, counts>>,
           ~overlapped => IsBacked(m) /\ WriteIsReady(p, m)'
    PROVE  AcquisitionIInv'
<1>1. AcquisitionTypeOK'
  BY MemoryStepType DEF AcquisitionIInv
<1>2. ~overlapped => FilesAgree' /\ IsBacked(m)'
  BY SameFiles, SameBacking DEF AcquisitionIInv
<1>3. QED
  BY <1>1, <1>2, ExecutionStep DEF counts

\* A write that goes on, and one that is done.
LEMMA WriteGoesOn ==
    ASSUME NEW m, NEW n, SameRun(n, m), m.write # None,
           n.write = None \/ (n.write.artifact = m.write.artifact /\ n.write.body = m.write.body)
    PROVE  /\ PagesAgree(m) => PagesAgree(n)
           /\ n.write # None => (IsBacked(m) => IsBacked(n))
<1>1. PagesAgree(m) => PagesAgree(n)
  BY DEF PagesAgree, SameRun
<1>2. n.write # None => (IsBacked(m) => IsBacked(n))
  BY ZenonT(60) DEF IsBacked, SameRun, Publishes, IsBegun, HasNormalized, HasManifest, EvidenceFollows,
         ManifestOf, RunOf, TimesOf
<1>3. QED
  BY <1>1, <1>2

\* What the execution publishes where.
LEMMA WhatIsWritten ==
    ASSUME NEW m, IsMemory(m), IsBacked(m), m.write # None
    PROVE  LET w == m.write
           IN \/ /\ m.pc = "login" /\ m.mode = "online"
                 /\ w.artifact = <<"online", "state">> /\ w.body = m.started
              \/ /\ m.pc = "source" /\ m.mode = "offline"
                 /\ w.artifact = <<"offline", "state">> /\ w.body = m.started
              \/ m.pc = "take" /\ w.artifact = Raw(m.document) /\ w.body = m.answer
              \/ /\ m.pc = "manifest"
                 /\ w.artifact = <<m.mode, "normalized">> /\ w.body = m.answers
              \/ /\ m.pc = "run" /\ w.artifact = <<m.mode, "manifest">>
                 /\ w.body = ManifestOf(m)
              \/ /\ m.pc = "evidence" /\ w.artifact = <<m.mode, "run">> /\ w.body = RunOf(m)
              \/ m.pc = "end" /\ w.artifact = <<m.mode, "evidence">>
  BY DEF IsMemory, Memories, IsBacked, Publishes, EvidenceFollows

LEMMA WriteIsDone ==
    ASSUME NEW m, NEW n, IsMemory(m), SameRun(n, m), m.write # None, n.write = None, IsBacked(m),
           m.write.artifact \notin Modes \X {"evidence"} =>
               Published(m.write.artifact) /\ Body(m.write.artifact) = m.write.body
    PROVE  IsBacked(n)
<1>1. m.mode \in Modes
  BY DEF IsMemory, Memories
<1>2. m.pc # "end" => m.write.artifact \notin Modes \X {"evidence"}
  BY <1>1, WhatIsWritten DEF Raw, Modes
<1>3. CASE m.pc = "end"
  BY <1>3 DEF SameRun, IsBacked
<1>4. CASE m.pc # "end"
  BY <1>2, <1>4 DEF IsBacked, SameRun, Publishes, IsBegun, HasNormalized, HasManifest,
                    ManifestOf, RunOf, TimesOf
<1>5. QED
  BY <1>3, <1>4

LEMMA FailStep ==
    ASSUME AcquisitionIInv, NEW p \in Processes, memory[p].pc # "off", Fail(p),
           UNCHANGED <<file, sources, counts>>,
           TemporaryStep
    PROVE  AcquisitionIInv'
<1>1. PICK m : m = Failed(p)
  OBVIOUS
<1>2. /\ IsMemory(m) /\ m.write = None /\ Remember(p, m)
      /\ m.pc = "off" \/ (m.pc = "evidence" /\ m.answers = <<>>)
  BY <1>1, FailedType DEF Fail, AcquisitionIInv, Off
<1>3. PagesAgree(m)
  BY <1>2 DEF PagesAgree
<1>4. IsBacked(m) /\ WriteIsReady(p, m)'
  BY <1>2 DEF IsBacked, WriteIsReady
<1>5. QED
  BY <1>2, <1>3, <1>4, MemoryStep

-----------------------------------------------------------------------------
(* The write of one artifact. *)

LEMMA ToStepHolds ==
    ASSUME AcquisitionIInv, NEW p \in Processes, memory[p].write # None,
           NEW step \in {"check", "open", "fill", "link", "unlink", "abandon"}, ToStep(p, step)
    PROVE  \E n : /\ IsMemory(n) /\ PagesAgree(n) /\ Remember(p, n)
                  /\ n.write # None /\ n.write.step = step
                  /\ n.write.artifact = memory[p].write.artifact
                  /\ n.write.body = memory[p].write.body
                  /\ IsBacked(memory[p]) => IsBacked(n)
                  /\ SameRun(n, memory[p])
<1>1. PICK n : n = [memory[p] EXCEPT !.write.step = step]
  OBVIOUS
<1>2. /\ AcquisitionTypeOK /\ PagesAgree(memory[p])
  BY DEF AcquisitionIInv
<1>3. /\ IsMemory(n) /\ n.write # None /\ n.write.step = step
      /\ n.write.artifact = memory[p].write.artifact
      /\ n.write.body = memory[p].write.body
      /\ SameRun(n, memory[p])
  BY <1>1, <1>2, WriteStepType
<1>4. PagesAgree(n) /\ (IsBacked(memory[p]) => IsBacked(n))
  BY <1>2, <1>3, WriteGoesOn
<1>5. Remember(p, n)
  BY <1>1 DEF ToStep
<1>6. QED
  BY <1>3, <1>4, <1>5

LEMMA WrittenHolds ==
    ASSUME AcquisitionIInv, NEW p \in Processes, memory[p].write # None, Written(p),
           TemporaryStep, UNCHANGED <<file, sources, counts>>,
           LET w == memory[p].write
           IN ~overlapped /\ w.artifact \notin Modes \X {"evidence"} =>
                  Published(w.artifact) /\ Body(w.artifact) = w.body
    PROVE  AcquisitionIInv'
<1>1. PICK n : n = [memory[p] EXCEPT !.write = None]
  OBVIOUS
<1>2. /\ AcquisitionTypeOK /\ IsMemory(memory[p]) /\ PagesAgree(memory[p])
      /\ memory[p].pc # "off" /\ (~overlapped => IsBacked(memory[p]))
  BY TypesOf DEF AcquisitionIInv, PagesAgree
<1>3. IsMemory(n) /\ n.write = None /\ SameRun(n, memory[p])
  BY <1>1, <1>2, WrittenType
<1>4. PagesAgree(n)
  BY <1>2, <1>3, WriteGoesOn
<1>5. ~overlapped => IsBacked(n)
  BY <1>2, <1>3, WriteIsDone
<1>6. WriteIsReady(p, n)'
  BY <1>3 DEF WriteIsReady
<1>7. Remember(p, n)
  BY <1>1 DEF Written
<1>8. QED
  BY <1>2, <1>3, <1>4, <1>5, <1>6, <1>7, MemoryStep

LEMMA VerifyStep ==
    ASSUME AcquisitionIInv, NEW p \in Processes, Verify(p)
    PROVE  AcquisitionIInv'
<1> DEFINE w == memory[p].write
<1>1. /\ w # None /\ memory[p].pc # "off"
      /\ TemporaryStep /\ UNCHANGED <<file, temporary, sources, counts>>
      /\ ~overlapped => IsBacked(memory[p])
  BY DEF AcquisitionIInv, PagesAgree, Verify, Step, files, TemporaryStep
<1>2. CASE file[w.artifact] = Absent
  <2>1. ToStep(p, "open")
    BY <1>2 DEF Verify
  <2>2. PICK n : /\ IsMemory(n) /\ PagesAgree(n) /\ Remember(p, n)
                 /\ n.write # None /\ n.write.step = "open"
                 /\ n.write.artifact = w.artifact
                 /\ IsBacked(memory[p]) => IsBacked(n)
    BY <1>1, <2>1, ToStepHolds
  <2>3. WriteIsReady(p, n)'
    BY <1>1, <1>2, <2>2 DEF WriteIsReady
  <2>4. QED
    BY <1>1, <2>2, <2>3, MemoryStep
<1>3. CASE file[w.artifact] # Absent /\ Published(w.artifact) /\ Body(w.artifact) = w.body
  <2>1. Written(p)
    BY <1>3 DEF Verify
  <2>2. QED
    BY <1>1, <1>3, <2>1, WrittenHolds
<1>4. CASE file[w.artifact] # Absent /\ ~(Published(w.artifact) /\ Body(w.artifact) = w.body)
  <2>1. Fail(p)
    BY <1>4 DEF Verify
  <2>2. QED
    BY <1>1, <2>1, FailStep
<1>5. QED
  BY <1>2, <1>3, <1>4

LEMMA ContentType ==
    ASSUME NEW a \in Artifacts, NEW p \in Processes, NEW body \in Bodies(a)
    PROVE  LET content == [writer |-> p, whole |-> FALSE, body |-> body]
           IN content \in Contents(a) /\ content # Absent
<1> DEFINE content == [writer |-> p, whole |-> FALSE, body |-> body]
<1>1. content \in Contents(a)
  BY DEF Contents
<1> HIDE DEF content
<1>2. content # Absent
  BY <1>1, AbsentAssumption
<1>3. QED
  BY <1>1, <1>2 DEF content

LEMMA OpenTemporaryStep ==
    ASSUME AcquisitionIInv, NEW p \in Processes, OpenTemporary(p)
    PROVE  AcquisitionIInv'
<1> DEFINE w == memory[p].write
           a == w.artifact
           content == [writer |-> p, whole |-> FALSE, body |-> w.body]
<1>1. /\ w # None /\ w.step = "open" /\ memory[p].pc # "off"
      /\ UNCHANGED <<file, sources, counts>>
      /\ ~overlapped => IsBacked(memory[p]) /\ file[a] = Absent
  BY DEF AcquisitionIInv, PagesAgree, WriteIsReady, OpenTemporary, Step, files
<1>2. /\ a \in Artifacts /\ w.body \in Bodies(a) /\ AcquisitionTypeOK
      /\ temporary = [b \in Artifacts |-> temporary[b]]
  BY <1>1, TypesOf DEF AcquisitionIInv, AcquisitionTypeOK
<1>3. content \in Contents(a) /\ content # Absent
  BY <1>2, ContentType
<1>4. CASE temporary[a] = Absent
  <2>1. temporary' = [temporary EXCEPT ![a] = content] /\ ToStep(p, "fill")
    BY <1>4 DEF OpenTemporary
  <2>2. PICK n : /\ IsMemory(n) /\ PagesAgree(n) /\ Remember(p, n)
                 /\ n.write # None /\ n.write.step = "fill"
                 /\ n.write.artifact = a /\ n.write.body = w.body
                 /\ IsBacked(memory[p]) => IsBacked(n)
    BY <1>1, <2>1, ToStepHolds
  <2>3. temporary'[a] = content /\ TemporaryStep
    BY <1>2, <1>3, <2>1 DEF TemporaryStep
  <2>4. content.body = w.body /\ content.writer = p
    OBVIOUS
  <2> HIDE DEF content
  <2>5. ~overlapped => WriteIsReady(p, n)'
    BY <1>1, <1>3, <2>2, <2>3, <2>4 DEF WriteIsReady
  <2>6. QED
    BY <1>1, <2>2, <2>3, <2>5, MemoryStep
<1>5. CASE temporary[a] # Absent
  <2>1. temporary' = temporary /\ ToStep(p, "abandon")
    BY <1>5 DEF OpenTemporary
  <2>2. PICK n : /\ IsMemory(n) /\ PagesAgree(n) /\ Remember(p, n)
                 /\ n.write # None /\ n.write.step = "abandon"
                 /\ IsBacked(memory[p]) => IsBacked(n)
    BY <1>1, <2>1, ToStepHolds
  <2>3. WriteIsReady(p, n)'
    BY <2>2 DEF WriteIsReady
  <2>4. QED
    BY <1>1, <2>1, <2>2, <2>3, MemoryStep DEF TemporaryStep
<1>6. QED
  BY <1>4, <1>5

LEMMA UnlinkStep ==
    ASSUME AcquisitionIInv, NEW p \in Processes, Unlink(p)
    PROVE  AcquisitionIInv'
<1> DEFINE w == memory[p].write
<1>1. /\ w # None /\ memory[p].pc # "off"
      /\ UNCHANGED <<file, sources, counts>>
      /\ temporary' = [temporary EXCEPT ![w.artifact] = Absent]
  BY DEF AcquisitionIInv, PagesAgree, Unlink, Step
<1>2. TemporaryStep
  BY <1>1, TypesOf DEF AcquisitionIInv, TemporaryStep
<1>3. CASE Step(p, "unlink")
  <2>1. Written(p)
    BY <1>3 DEF Unlink
  <2>2. ~overlapped /\ w.artifact \notin Modes \X {"evidence"} =>
            Published(w.artifact) /\ Body(w.artifact) = w.body
    BY <1>3 DEF Step, AcquisitionIInv, WriteIsReady
  <2>3. QED
    BY <1>1, <1>2, <2>1, <2>2, WrittenHolds
<1>4. CASE ~Step(p, "unlink")
  BY <1>1, <1>2, <1>4, FailStep DEF Unlink
<1>5. QED
  BY <1>3, <1>4

-----------------------------------------------------------------------------
(* Steps that change published files. *)

\* What an execution relies on is not lost when files are added.
LEMMA OnDiskStays ==
    ASSUME NEW answers \in Seq(Answers), Len(answers) <= MaxPages + 1, OnDisk(answers),
           \A d \in Documents : Published(Raw(d)) =>
               Published(Raw(d))' /\ Body(Raw(d))' = Body(Raw(d))
    PROVE  OnDisk(answers)'
<1>1. \A i \in DOMAIN answers : i - 1 \in Documents
  BY PagesAssumption DEF Documents
<1>2. QED
  BY <1>1 DEF OnDisk

LEMMA AnswersFit ==
    ASSUME NEW m, IsMemory(m), PagesAgree(m), m.pc \notin {"off", "end"}
    PROVE  Len(m.answers) <= MaxPages + 1
<1>1. m.document \in 0 .. MaxPages /\ MaxPages \in Nat /\ m.answers \in Seq(Answers) /\ m.pc \in Pcs
  BY PagesAssumption DEF IsMemory, Memories, Documents, Pcs
<1>2. CASE m.answers = <<>>
  BY <1>1, <1>2
<1>3. CASE m.answers # <<>>
  BY <1>1, <1>3 DEF PagesAgree, Pcs
<1>4. QED
  BY <1>2, <1>3

LEMMA BackingStays ==
    ASSUME NEW m, IsMemory(m), PagesAgree(m), IsBacked(m),
           \A a \in Artifacts : Published(a) /\ a \notin Modes \X {"evidence"} =>
               Published(a)' /\ Body(a)' = Body(a)
    PROVE  IsBacked(m)'
<1>1. /\ m.mode \in Modes /\ m.document \in Documents /\ m.answers \in Seq(Answers)
      /\ m.pc \in Pcs
  BY DEF IsMemory, Memories, Pcs
<1>2. \A d \in Documents : Published(Raw(d)) =>
          Published(Raw(d))' /\ Body(Raw(d))' = Body(Raw(d))
  BY ArtifactKinds DEF Raw, Modes
<1>3. \A mode \in Modes : \A name \in {"state", "normalized", "manifest", "run"} :
          Published(<<mode, name>>) =>
              Published(<<mode, name>>)' /\ Body(<<mode, name>>)' = Body(<<mode, name>>)
  BY ArtifactKinds DEF Derived
<1>4. m.pc \notin {"off", "end"} /\ OnDisk(m.answers) => OnDisk(m.answers)'
  BY <1>1, <1>2, AnswersFit, OnDiskStays
<1>5. IsBegun(m) => IsBegun(m)'
  BY <1>3 DEF IsBegun, Modes
<1>6. /\ HasNormalized(m) => HasNormalized(m)'
      /\ HasManifest(m) => HasManifest(m)'
      /\ EvidenceFollows(m) => EvidenceFollows(m)'
  BY <1>1, <1>3 DEF HasNormalized, HasManifest, EvidenceFollows
<1>7. \A body : /\ \A d \in Documents : Publishes(m, Raw(d), body) => Publishes(m, Raw(d), body)'
                /\ \A mode \in Modes : \A name \in {"state", "normalized", "manifest", "run"} :
                       Publishes(m, <<mode, name>>, body) => Publishes(m, <<mode, name>>, body)'
  BY <1>2, <1>3 DEF Publishes
<1>8. QED
  BY <1>1, <1>4, <1>5, <1>6, <1>7 DEF IsBacked, Modes

\* What agreed on disk agrees when files are added.
LEMMA AgreementStays ==
    ASSUME AcquisitionTypeOK, FilesAgree,
           \A a \in Artifacts : Published(a) /\ a \notin Modes \X {"evidence"} =>
               Published(a)' /\ Body(a)' = Body(a)
    PROVE  /\ file[<<"offline", "state">>] # Absent => StateIsShared'
           /\ \A mode \in Modes :
                  /\ file[<<mode, "manifest">>] # Absent =>
                         /\ (Len(Body(<<mode, "manifest">>).answers) <= MaxPages + 1)'
                         /\ ManifestIsBacked(mode)'
                  /\ file[<<mode, "run">>] # Absent =>
                         RunIsBacked(mode)' /\ file'[<<"online", "state">>] # Absent
                  /\ Published(<<mode, "evidence">>) /\ Published(<<mode, "evidence">>)'
                     /\ Body(<<mode, "evidence">>)' = Body(<<mode, "evidence">>)
                     => EvidenceIsOfItsRun(mode)'
<1>1. \A d \in Documents : Published(Raw(d)) =>
          Published(Raw(d))' /\ Body(Raw(d))' = Body(Raw(d))
  BY ArtifactKinds DEF Raw, Modes
<1>2. \A mode \in Modes : \A name \in {"state", "normalized", "manifest", "run"} :
          file[<<mode, name>>] # Absent =>
              /\ Published(<<mode, name>>) /\ Published(<<mode, name>>)'
              /\ Body(<<mode, name>>)' = Body(<<mode, name>>)
              /\ file'[<<mode, name>>] # Absent
  BY ArtifactKinds DEF Derived, FilesAgree, Published
<1>3. file[<<"offline", "state">>] # Absent => StateIsShared'
  BY <1>2 DEF StateIsShared, FilesAgree, Modes
<1>4. ASSUME NEW mode \in Modes, file[<<mode, "manifest">>] # Absent
      PROVE  /\ (Len(Body(<<mode, "manifest">>).answers) <= MaxPages + 1)'
             /\ ManifestIsBacked(mode)'
  <2>1. PICK answers : answers = Body(<<mode, "manifest">>).answers
    OBVIOUS
  <2>2. answers \in Seq(Answers) /\ Len(answers) <= MaxPages + 1 /\ OnDisk(answers)
    BY <1>2, <1>4, <2>1, TypesOf, ArtifactKinds DEF FilesAgree, ManifestIsBacked, Manifests, Derived
  <2>3. OnDisk(answers)'
    BY <1>1, <2>2, OnDiskStays
  <2>4. file[<<mode, "normalized">>] # Absent /\ Body(<<mode, "normalized">>) = answers
    BY <1>4, <2>1 DEF FilesAgree, ManifestIsBacked, Published
  <2>5. Body(<<mode, "manifest">>)'.answers = answers
    BY <1>2, <1>4, <2>1
  <2>6. QED
    BY <1>2, <1>4, <2>2, <2>3, <2>4, <2>5 DEF ManifestIsBacked
<1>5. ASSUME NEW mode \in Modes, file[<<mode, "run">>] # Absent
      PROVE  RunIsBacked(mode)' /\ file'[<<"online", "state">>] # Absent
  <2>1. /\ RunIsBacked(mode) /\ file[<<mode, "manifest">>] # Absent
        /\ file[<<"online", "state">>] # Absent
    BY <1>5 DEF FilesAgree, RunIsBacked, Published
  <2>2. QED
    BY <1>2, <1>5, <2>1 DEF RunIsBacked, Modes
<1>6. ASSUME NEW mode \in Modes, Published(<<mode, "evidence">>), Published(<<mode, "evidence">>)',
             Body(<<mode, "evidence">>)' = Body(<<mode, "evidence">>)
      PROVE  EvidenceIsOfItsRun(mode)'
  <2>1. EvidenceIsOfItsRun(mode) /\ (Published(<<mode, "run">>) => file[<<mode, "run">>] # Absent)
    BY <1>6 DEF FilesAgree, Published
  <2>2. QED
    BY <1>2, <1>6, <2>1 DEF EvidenceIsOfItsRun
<1>7. QED
  BY <1>3, <1>4, <1>5, <1>6

LEMMA FillTemporaryStep ==
    ASSUME AcquisitionIInv, NEW p \in Processes, FillTemporary(p)
    PROVE  AcquisitionIInv'
<1> DEFINE w == memory[p].write
           a == w.artifact
<1>1. /\ w # None /\ w.step = "fill" /\ memory[p].pc # "off"
      /\ UNCHANGED <<sources, counts>> /\ ToStep(p, "link")
      /\ temporary' = [b \in Artifacts |-> Filled(temporary[b], p)]
      /\ file' = [b \in Artifacts |-> Filled(file[b], p)]
      /\ AcquisitionTypeOK
  BY DEF AcquisitionIInv, PagesAgree, FillTemporary, Step
<1>2. \A b \in Artifacts : \A content \in Contents(b) \cup {Absent} :
          Filled(content, p) \in Contents(b) \cup {Absent}
  BY DEF Contents, Filled
<1>3. PICK n : /\ IsMemory(n) /\ PagesAgree(n) /\ Remember(p, n)
               /\ n.write # None /\ n.write.step = "link"
               /\ n.write.artifact = a /\ n.write.body = w.body
               /\ IsBacked(memory[p]) => IsBacked(n)
  BY <1>1, ToStepHolds
<1>4. AcquisitionTypeOK'
  <2>1. \A b \in Artifacts : {file'[b], temporary'[b]} \subseteq Contents(b) \cup {Absent}
    BY <1>1, <1>2 DEF AcquisitionTypeOK
  <2>2. QED
    BY <1>1, <1>3, <2>1 DEF AcquisitionTypeOK, Remember, counts, IsMemory
<1>5. ASSUME ~overlapped
      PROVE  FilesAgree' /\ IsBacked(n)' /\ WriteIsReady(p, n)'
  <2>1. /\ IsBacked(memory[p]) /\ WriteIsReady(p, memory[p]) /\ FilesAgree
    BY <1>5 DEF AcquisitionIInv
  <2>2. file' = file
    <3>1. file = [b \in Artifacts |-> file[b]]
      BY <1>1 DEF AcquisitionTypeOK
    <3>2. \A b \in Artifacts : Filled(file[b], p) = file[b]
      BY <2>1 DEF FilesAgree, Filled
    <3>3. QED
      BY <1>1, <3>1, <3>2
  <2>3. a \in Artifacts
    BY <1>1, TypesOf
  <2>4. PICK content : content = temporary[a]
    OBVIOUS
  <2>5. /\ file[a] = Absent /\ content # Absent /\ content.body = w.body
        /\ content.whole \/ content.writer = p
        /\ content \in Contents(a)
    BY <1>1, <2>1, <2>3, <2>4, TypesOf DEF WriteIsReady
  <2>6. Filled(content, p) \in Contents(a) /\ Filled(content, p).whole
        /\ Filled(content, p).body = w.body
    BY <2>5 DEF Filled, Contents
  <2>7. temporary'[a] = Filled(content, p) /\ temporary'[a] # Absent
    BY <1>1, <2>3, <2>4, <2>6, AbsentAssumption
  <2>8. WriteIsReady(p, n)'
    BY <1>3, <2>2, <2>5, <2>6, <2>7 DEF WriteIsReady
  <2>9. QED
    BY <1>3, <2>1, <2>2, <2>8, SameFiles, SameBacking
<1>6. QED
  BY <1>1, <1>3, <1>4, <1>5, ExecutionStep DEF counts

\* The file that is published is the one the execution was backed for.
LEMMA PublishedFilesAgree ==
    ASSUME AcquisitionTypeOK, FilesAgree, NEW m, IsMemory(m), PagesAgree(m), IsBacked(m),
           m.write # None, file[m.write.artifact] = Absent,
           NEW content \in Contents(m.write.artifact), content.whole,
           content.body = m.write.body,
           file' = [file EXCEPT ![m.write.artifact] = content]
    PROVE  FilesAgree' /\ IsBacked(m)'
<1> DEFINE w == m.write
           a == w.artifact
<1>1. /\ a \in Artifacts /\ content # Absent
      /\ m.mode \in Modes /\ m.answers \in Seq(Answers) /\ m.document \in Documents
  BY AbsentAssumption DEF IsMemory, Memories, Writes
<1> HIDE DEF a
<1>2. /\ file'[a] = content /\ file'[a] # Absent /\ Published(a)' /\ Body(a)' = w.body
      /\ \A b \in Artifacts \ {a} : file'[b] = file[b]
  BY <1>1 DEF AcquisitionTypeOK, Published, Body, a
<1>3. \A b \in Artifacts : Published(b) => Published(b)' /\ Body(b)' = Body(b)
  BY <1>2 DEF Published, Body, a
<1>4. IsBacked(m)'
  BY <1>3, BackingStays
<1>5. \A b \in Artifacts : file'[b] # Absent => file'[b].whole
  BY <1>2 DEF FilesAgree
<1>6. /\ file[<<"offline", "state">>] # Absent => StateIsShared'
      /\ \A mode \in Modes :
            /\ file[<<mode, "manifest">>] # Absent =>
                   /\ (Len(Body(<<mode, "manifest">>).answers) <= MaxPages + 1)'
                   /\ ManifestIsBacked(mode)'
            /\ file[<<mode, "run">>] # Absent =>
                   RunIsBacked(mode)' /\ file'[<<"online", "state">>] # Absent
            /\ Published(<<mode, "evidence">>) /\ Published(<<mode, "evidence">>)'
               /\ Body(<<mode, "evidence">>)' = Body(<<mode, "evidence">>)
               => EvidenceIsOfItsRun(mode)'
  BY <1>3, AgreementStays
<1>7. \A mode \in Modes : \A name \in Derived :
          /\ <<mode, name>> \in Artifacts
          /\ <<mode, name>> # a => file'[<<mode, name>>] = file[<<mode, name>>]
  BY <1>2, ArtifactKinds
<1>8. StateIsShared'
  <2>1. CASE a = <<"offline", "state">>
    <3>1. m.pc = "source" /\ w.body = m.started
      BY <2>1, WhatIsWritten DEF Raw, Modes, a
    <3>2. IsBegun(m)'
      BY <1>4, <3>1 DEF IsBacked
    <3>3. QED
      BY <1>2, <2>1, <3>1, <3>2 DEF IsBegun, StateIsShared, Published
  <2>2. CASE a # <<"offline", "state">>
    BY <1>6, <1>7, <2>2 DEF StateIsShared, Derived, Modes
  <2>3. QED
    BY <2>1, <2>2
<1>9. ASSUME NEW mode \in Modes
      PROVE  /\ file'[<<mode, "manifest">>] # Absent =>
                    (Len(Body(<<mode, "manifest">>).answers) <= MaxPages + 1)'
             /\ ManifestIsBacked(mode)'
  <2>1. CASE a = <<mode, "manifest">>
    <3>1. m.pc = "run" /\ mode = m.mode /\ w.body = ManifestOf(m)
      BY <2>1, WhatIsWritten DEF Raw, Modes, a
    <3>2. HasNormalized(m)' /\ OnDisk(m.answers)'
      BY <1>4, <3>1 DEF IsBacked
    <3>3. Body(<<mode, "manifest">>)'.answers = m.answers /\ Published(<<mode, "manifest">>)'
      BY <1>2, <2>1, <3>1 DEF ManifestOf
    <3>4. Len(m.answers) <= MaxPages + 1
      BY <3>1, AnswersFit
    <3>5. QED
      BY <3>1, <3>2, <3>3, <3>4 DEF ManifestIsBacked, HasNormalized
  <2>2. CASE a # <<mode, "manifest">>
    BY <1>6, <1>7, <2>2 DEF Derived, ManifestIsBacked
  <2>3. QED
    BY <2>1, <2>2
<1>10. ASSUME NEW mode \in Modes
       PROVE  RunIsBacked(mode)' /\ (file'[<<mode, "run">>] # Absent =>
                                        file'[<<"online", "state">>] # Absent)
  <2>1. CASE a = <<mode, "run">>
    <3>1. m.pc = "evidence" /\ mode = m.mode /\ w.body = RunOf(m)
      BY <2>1, WhatIsWritten DEF Raw, Modes, a
    <3>2. HasManifest(m)' /\ IsBegun(m)'
      BY <1>4, <3>1 DEF IsBacked
    <3>3. Body(<<mode, "run">>)' = RunOf(m) /\ Published(<<mode, "run">>)'
      BY <1>2, <2>1, <3>1
    <3>4. /\ RunOf(m).cited = ManifestOf(m) /\ RunOf(m).times = ManifestOf(m).times
          /\ RunOf(m).times.started = m.started
      BY DEF RunOf, ManifestOf, TimesOf
    <3>5. QED
      BY <3>1, <3>2, <3>3, <3>4 DEF RunIsBacked, HasManifest, IsBegun, Published
  <2>2. CASE a # <<mode, "run">>
    BY <1>6, <1>7, <2>2 DEF Derived, RunIsBacked
  <2>3. QED
    BY <2>1, <2>2
<1>11. ASSUME NEW mode \in Modes
       PROVE  EvidenceIsOfItsRun(mode)'
  <2>1. CASE a = <<mode, "evidence">>
    <3>1. m.pc = "end" /\ mode = m.mode
      BY <2>1, WhatIsWritten DEF Raw, Modes, a
    <3>2. EvidenceFollows(m)'
      BY <1>4, <3>1 DEF IsBacked
    <3>3. QED
      BY <1>2, <2>1, <3>1, <3>2 DEF EvidenceFollows, EvidenceIsOfItsRun
  <2>2. CASE a # <<mode, "evidence">>
    BY <1>6, <1>7, <2>2 DEF Derived, EvidenceIsOfItsRun, Published, Body
  <2>3. QED
    BY <2>1, <2>2
<1>12. QED
  BY <1>4, <1>5, <1>8, <1>9, <1>10, <1>11 DEF FilesAgree

LEMMA PublishStep ==
    ASSUME AcquisitionIInv, NEW p \in Processes, Publish(p)
    PROVE  AcquisitionIInv'
<1> DEFINE w == memory[p].write
           a == w.artifact
<1>1. /\ w # None /\ w.step = "link" /\ memory[p].pc # "off"
      /\ UNCHANGED <<temporary, sources, counts>> /\ AcquisitionTypeOK
      /\ a \in Artifacts
  BY TypesOf DEF AcquisitionIInv, PagesAgree, Publish, Step
<1>2. CASE temporary[a] # Absent /\ file[a] = Absent
  <2>1. file' = [file EXCEPT ![a] = temporary[a]] /\ ToStep(p, "unlink")
    BY <1>2 DEF Publish
  <2>2. PICK n : /\ IsMemory(n) /\ PagesAgree(n) /\ Remember(p, n)
                 /\ n.write # None /\ n.write.step = "unlink"
                 /\ n.write.artifact = a /\ n.write.body = w.body
                 /\ IsBacked(memory[p]) => IsBacked(n)
    BY <1>1, <2>1, ToStepHolds
  <2>3. PICK content : content = temporary[a]
    OBVIOUS
  <2>4. content \in Contents(a) /\ content # Absent
    BY <1>1, <1>2, <2>3, TypesOf
  <2>5. AcquisitionTypeOK'
    BY <1>1, <2>1, <2>2, <2>3, <2>4 DEF AcquisitionTypeOK, Remember, counts, IsMemory
  <2>6. ASSUME ~overlapped
        PROVE  FilesAgree' /\ IsBacked(n)' /\ WriteIsReady(p, n)'
    <3>1. /\ FilesAgree /\ IsBacked(n) /\ WriteIsReady(p, memory[p])
      BY <2>2, <2>6 DEF AcquisitionIInv
    <3>2. content.whole /\ content.body = w.body
      BY <1>1, <2>3, <3>1 DEF WriteIsReady
    <3>3. FilesAgree' /\ IsBacked(n)'
      BY <1>1, <1>2, <2>1, <2>2, <2>3, <2>4, <3>1, <3>2, PublishedFilesAgree
    <3>4. file'[a] = content
      BY <1>1, <2>1, <2>3 DEF AcquisitionTypeOK
    <3>5. WriteIsReady(p, n)'
      BY <2>2, <2>4, <3>2, <3>4 DEF WriteIsReady, Published, Body
    <3>6. QED
      BY <3>3, <3>5
  <2>7. QED
    BY <1>1, <2>2, <2>5, <2>6, ExecutionStep DEF counts
<1>3. CASE ~(temporary[a] # Absent /\ file[a] = Absent)
  <2>1. file' = file /\ ToStep(p, "abandon")
    BY <1>3 DEF Publish
  <2>2. PICK n : /\ IsMemory(n) /\ PagesAgree(n) /\ Remember(p, n)
                 /\ n.write # None /\ n.write.step = "abandon"
                 /\ IsBacked(memory[p]) => IsBacked(n)
    BY <1>1, <2>1, ToStepHolds
  <2>3. WriteIsReady(p, n)'
    BY <2>2 DEF WriteIsReady
  <2>4. ~overlapped => IsBacked(n)
    BY <2>2 DEF AcquisitionIInv
  <2>5. QED
    BY <1>1, <2>1, <2>2, <2>3, <2>4, MemoryStep DEF TemporaryStep
<1>4. QED
  BY <1>2, <1>3

LEMMA LeftType ==
    ASSUME NEW a \in Artifacts, NEW content \in Contents(a) \cup {Absent}, NEW p
    PROVE  /\ Left(content, p) \in Contents(a) \cup {Absent}
           /\ (Left(content, p) = Absent) <=> (content = Absent)
           /\ content # Absent => /\ Left(content, p).whole = content.whole
                                  /\ Left(content, p).body = content.body
<1>1. CASE content = Absent
  BY <1>1 DEF Left
<1>2. CASE content # Absent
  <2>1. content \in Contents(a)
    BY <1>2
  <2>2. /\ Left(content, p) \in Contents(a)
        /\ Left(content, p).whole = content.whole /\ Left(content, p).body = content.body
    BY <2>1 DEF Left, Contents
  <2>3. Left(content, p) # Absent
    BY <2>2, AbsentAssumption
  <2>4. QED
    BY <1>2, <2>2, <2>3
<1>3. QED
  BY <1>1, <1>2

LEMMA DieStep ==
    ASSUME AcquisitionIInv, NEW p \in Processes, Die(p)
    PROVE  AcquisitionIInv'
<1>1. PICK m : m = Off
  OBVIOUS
<1>2. /\ IsMemory(m) /\ m.pc = "off" /\ m.write = None /\ Remember(p, m)
      /\ memory[p].pc # "off" /\ AcquisitionTypeOK
      /\ UNCHANGED <<sources, starts, overlapped>> /\ deaths' = deaths + 1
      /\ temporary' = [a \in Artifacts |-> Left(temporary[a], p)]
      /\ file' = [a \in Artifacts |-> Left(file[a], p)]
  BY <1>1, OffType DEF Die, Off, AcquisitionIInv
<1>3. \A a \in Artifacts : {file'[a], temporary'[a]} \subseteq Contents(a) \cup {Absent}
  BY <1>2, LeftType DEF AcquisitionTypeOK
<1>4. AcquisitionTypeOK'
  BY <1>2, <1>3 DEF AcquisitionTypeOK, Remember, IsMemory
<1>5. \A a \in Artifacts :
          /\ (file'[a] = Absent) <=> (file[a] = Absent)
          /\ Published(a) <=> Published(a)'
          /\ file[a] # Absent => file'[a].whole = file[a].whole /\ Body(a)' = Body(a)
  <2>1. TAKE a \in Artifacts
  <2>2. PICK content : content = file[a]
    OBVIOUS
  <2>3. /\ content \in Contents(a) \cup {Absent} /\ file'[a] = Left(content, p)
    BY <1>2, <2>2, TypesOf
  <2>4. /\ (file'[a] = Absent) <=> (content = Absent)
        /\ content # Absent => file'[a].whole = content.whole /\ file'[a].body = content.body
    BY <2>3, LeftType
  <2>5. QED
    BY <2>2, <2>4 DEF Published, Body
<1>6. ASSUME FilesAgree
      PROVE  FilesAgree'
  <2>1. /\ file[<<"offline", "state">>] # Absent => StateIsShared'
        /\ \A mode \in Modes :
              /\ file[<<mode, "manifest">>] # Absent =>
                     /\ (Len(Body(<<mode, "manifest">>).answers) <= MaxPages + 1)'
                     /\ ManifestIsBacked(mode)'
              /\ file[<<mode, "run">>] # Absent =>
                     RunIsBacked(mode)' /\ file'[<<"online", "state">>] # Absent
              /\ Published(<<mode, "evidence">>) /\ Published(<<mode, "evidence">>)'
                 /\ Body(<<mode, "evidence">>)' = Body(<<mode, "evidence">>)
                 => EvidenceIsOfItsRun(mode)'
    BY <1>2, <1>5, <1>6, AgreementStays DEF Published
  <2>2. \A mode \in Modes : \A name \in Derived :
            /\ (file'[<<mode, name>>] = Absent) <=> (file[<<mode, name>>] = Absent)
            /\ Published(<<mode, name>>)' =>
                   Published(<<mode, name>>) /\ Body(<<mode, name>>)' = Body(<<mode, name>>)
    BY <1>5, ArtifactKinds DEF Published
  <2>3. StateIsShared'
    BY <2>1, <2>2 DEF StateIsShared, Modes, Derived
  <2>4. \A mode \in Modes : /\ ManifestIsBacked(mode)' /\ RunIsBacked(mode)'
                             /\ EvidenceIsOfItsRun(mode)'
    BY <2>1, <2>2 DEF ManifestIsBacked, RunIsBacked, EvidenceIsOfItsRun, Derived
  <2>5. \A a \in Artifacts : file'[a] # Absent => file'[a].whole
    BY <1>5, <1>6 DEF FilesAgree
  <2>6. QED
    BY <2>1, <2>2, <2>3, <2>4, <2>5 DEF FilesAgree, Derived
<1>7. PagesAgree(m)
  BY <1>2 DEF PagesAgree
<1>8. IsBacked(m)' /\ WriteIsReady(p, m)'
  BY <1>2 DEF IsBacked, WriteIsReady
<1>9. QED
  BY <1>2, <1>4, <1>6, <1>7, <1>8, ExecutionStep DEF AcquisitionIInv

LEMMA SetAsideStep ==
    ASSUME AcquisitionIInv, NEW mode \in Modes, SetAside(mode)
    PROVE  AcquisitionIInv'
<1> DEFINE e == <<mode, "evidence">>
<1>1. /\ Published(e) /\ file' = [file EXCEPT ![e] = Absent] /\ e \in Artifacts
      /\ sources' = (IF mode = "online" THEN sources \cup {Body(e)} ELSE sources)
      /\ UNCHANGED <<temporary, memory, counts>> /\ AcquisitionTypeOK
  BY ArtifactKinds DEF SetAside, AcquisitionIInv, Derived
<1>2. Body(e) \in Evidence
  BY <1>1, TypesOf, ArtifactKinds
<1>3. AcquisitionTypeOK'
  BY <1>1, <1>2 DEF AcquisitionTypeOK, counts
<1>4. /\ file'[e] = Absent
      /\ \A a \in Artifacts \ {e} : file'[a] = file[a]
  BY <1>1 DEF AcquisitionTypeOK
<1>5. \A a \in Artifacts : Published(a) /\ a \notin Modes \X {"evidence"} =>
          Published(a)' /\ Body(a)' = Body(a)
  BY <1>4 DEF Published, Body
<1>6. ASSUME FilesAgree
      PROVE  FilesAgree'
  <2>1. /\ file[<<"offline", "state">>] # Absent => StateIsShared'
        /\ \A other \in Modes :
              /\ file[<<other, "manifest">>] # Absent =>
                     /\ (Len(Body(<<other, "manifest">>).answers) <= MaxPages + 1)'
                     /\ ManifestIsBacked(other)'
              /\ file[<<other, "run">>] # Absent =>
                     RunIsBacked(other)' /\ file'[<<"online", "state">>] # Absent
              /\ Published(<<other, "evidence">>) /\ Published(<<other, "evidence">>)'
                 /\ Body(<<other, "evidence">>)' = Body(<<other, "evidence">>)
                 => EvidenceIsOfItsRun(other)'
    BY <1>1, <1>5, <1>6, AgreementStays
  <2>2. \A other \in Modes : \A name \in Derived :
            <<other, name>> # e => file'[<<other, name>>] = file[<<other, name>>]
    BY <1>4, ArtifactKinds
  <2>3. \A other \in Modes : EvidenceIsOfItsRun(other)'
    BY <1>4, <2>1, <2>2 DEF EvidenceIsOfItsRun, Published, Body, Derived
  <2>4. StateIsShared'
    BY <2>1, <2>2 DEF StateIsShared, Modes, Derived
  <2>5. \A other \in Modes : /\ ManifestIsBacked(other)' /\ RunIsBacked(other)'
    BY <2>1, <2>2 DEF ManifestIsBacked, RunIsBacked, Derived
  <2>6. \A a \in Artifacts : file'[a] # Absent => file'[a].whole
    BY <1>4, <1>6 DEF FilesAgree
  <2>7. QED
    BY <2>1, <2>2, <2>3, <2>4, <2>5, <2>6 DEF FilesAgree, Derived
<1>7. \A q \in Processes : PagesAgree(memory[q])'
  BY <1>1 DEF AcquisitionIInv, PagesAgree
<1>8. ASSUME ~overlapped, NEW q \in Processes
      PROVE  IsBacked(memory[q])' /\ WriteIsReady(q, memory[q])'
  <2>1. PICK m : m = memory[q]
    OBVIOUS
  <2>2. /\ IsMemory(m) /\ PagesAgree(m) /\ IsBacked(m) /\ WriteIsReady(q, m)
        /\ memory'[q] = m
        /\ m.write # None => m.write.artifact \in Artifacts
    BY <1>1, <1>8, <2>1, TypesOf DEF AcquisitionIInv
  <2>3. IsBacked(m)'
    BY <1>5, <2>2, BackingStays
  <2>4. WriteIsReady(q, m)'
    BY <1>1, <1>4, <1>5, <2>2 DEF WriteIsReady
  <2>5. QED
    BY <2>2, <2>3, <2>4 DEF IsBacked, WriteIsReady
<1>9. ~overlapped => OneAtATime'
  BY <1>1 DEF AcquisitionIInv, OneAtATime
<1>10. QED
  BY <1>1, <1>3, <1>6, <1>7, <1>8, <1>9 DEF AcquisitionIInv, counts

LEMMA StartStep ==
    ASSUME AcquisitionIInv, NEW p \in Processes, NEW mode \in Modes, Start(p, mode)
    PROVE  AcquisitionIInv'
<1>1. PICK m : m = [Off EXCEPT !.pc = "state", !.mode = mode, !.stamp = starts + 1]
  OBVIOUS
<1>2. /\ IsMemory(m) /\ m.pc = "state" /\ m.write = None /\ m.answers = <<>> /\ m.document = 0
  <2>1. starts + 1 \in Nat
    BY DEF AcquisitionIInv, AcquisitionTypeOK
  <2>2. QED
    BY <1>1, <2>1, OffType DEF Off, IsMemory, Memories
<1>3. /\ Remember(p, m) /\ UNCHANGED <<file, temporary, sources, deaths>>
      /\ starts' = starts + 1 /\ AcquisitionTypeOK
      /\ overlapped' = (overlapped \/ \E q \in Processes \ {p} : memory[q].pc # "off")
  BY <1>1 DEF Start, files, AcquisitionIInv
<1>4. AcquisitionTypeOK'
  BY <1>2, <1>3 DEF AcquisitionTypeOK, Remember, IsMemory
<1>5. memory'[p] = m /\ \A q \in Processes \ {p} : memory'[q] = memory[q]
  BY <1>3 DEF AcquisitionTypeOK, Remember
<1>6. \A q \in Processes : PagesAgree(memory[q])'
  BY SMTT(30), <1>2, <1>5 DEF AcquisitionIInv, PagesAgree
<1>7. ASSUME ~overlapped'
      PROVE  /\ OneAtATime' /\ FilesAgree'
             /\ \A q \in Processes : IsBacked(memory[q])' /\ WriteIsReady(q, memory[q])'
  <2>1. ~overlapped /\ \A q \in Processes \ {p} : memory[q].pc = "off" /\ memory[q].write = None
    BY <1>3, <1>7 DEF AcquisitionIInv, PagesAgree
  <2>2. FilesAgree'
    BY <1>3, <2>1, SameFiles DEF AcquisitionIInv
  <2>3. OneAtATime'
    BY <1>5, <2>1 DEF OneAtATime
  <2>4. \A q \in Processes : IsBacked(memory[q])' /\ WriteIsReady(q, memory[q])'
    BY <1>2, <1>5, <2>1 DEF IsBacked, WriteIsReady
  <2>5. QED
    BY <2>2, <2>3, <2>4
<1>8. QED
  BY <1>4, <1>6, <1>7 DEF AcquisitionIInv

-----------------------------------------------------------------------------
(* The steps of the pipeline. *)

\* What is known of an execution that is at pc.
LEMMA AtFacts ==
    ASSUME AcquisitionIInv, NEW p \in Processes, NEW pc, pc # "off", At(p, pc)
    PROVE  \E m : /\ m = memory[p] /\ IsMemory(m) /\ PagesAgree(m)
                  /\ m.pc = pc /\ memory[p].pc # "off" /\ m.write = None
                  /\ ~overlapped => FilesAgree /\ IsBacked(m)
                  /\ AcquisitionTypeOK
<1>1. PICK m : m = memory[p]
  OBVIOUS
<1>2. QED
  BY <1>1, TypesOf DEF AcquisitionIInv, At

\* The execution goes on in memory, or begins to write.
LEMMA PipelineStep ==
    ASSUME AcquisitionIInv, NEW p \in Processes, memory[p].pc # "off",
           NEW n, IsMemory(n), PagesAgree(n), Remember(p, n), UNCHANGED <<files, counts>>,
           n.write = None \/ n.write.step = "check", ~overlapped => IsBacked(n)
    PROVE  AcquisitionIInv'
<1>1. WriteIsReady(p, n)'
  BY DEF WriteIsReady
<1>2. QED
  BY <1>1, MemoryStep DEF files, TemporaryStep

LEMMA LoadStateStep ==
    ASSUME AcquisitionIInv, NEW p \in Processes, LoadState(p)
    PROVE  AcquisitionIInv'
<1>1. PICK m : /\ m = memory[p] /\ IsMemory(m) /\ PagesAgree(m)
               /\ m.pc = "state" /\ memory[p].pc # "off" /\ m.write = None
               /\ ~overlapped => FilesAgree /\ IsBacked(m)
               /\ AcquisitionTypeOK
  BY AtFacts DEF LoadState
<1>2. UNCHANGED <<files, counts>>
  BY DEF LoadState
<1> DEFINE own == <<m.mode, "state">>
           source == <<"online", "state">>
           next == IF m.mode = "online" THEN "login" ELSE "source"
<1>3. /\ m.mode \in Modes /\ m.stamp \in Nat /\ next \in {"login", "source"} /\ next \in Pcs
      /\ own \in Artifacts /\ source \in Artifacts /\ Bodies(own) = Nat
      /\ Published(own) => Body(own) \in Nat
      /\ Published(source) => Body(source) \in Nat
      /\ m.answers = <<>> /\ m.document = 0
  BY <1>1, TypesOf, ArtifactKinds DEF IsMemory, Memories, Modes, Derived, Pcs, PagesAgree
<1>4. CASE Fail(p)
  BY <1>1, <1>2, <1>4, FailStep DEF files, TemporaryStep
<1>5. CASE /\ file[own] # Absent /\ Published(own)
           /\ m.mode = "offline" => Published(source)
           /\ Remember(p, [m EXCEPT !.pc = next, !.started = Body(own)])
  <2>1. PICK n : n = [m EXCEPT !.pc = next, !.started = Body(own)]
    OBVIOUS
  <2>2. /\ IsMemory(n) /\ n.pc = next /\ n.started = Body(own) /\ n.mode = m.mode
        /\ n.answers = <<>> /\ n.document = 0 /\ n.write = None
    BY <1>1, <1>3, <1>5, <2>1, ZenonT(60) DEF IsMemory, Memories
  <2>3. PagesAgree(n)
    BY <1>3, <2>2 DEF PagesAgree
  <2>4. ASSUME ~overlapped PROVE IsBacked(n)
    <3>1. StateIsShared
      BY <1>1, <2>4 DEF FilesAgree
    <3>2. m.mode = "offline" => Body(own) = Body(source)
      BY <1>5, <3>1 DEF StateIsShared
    <3>3. QED
      BY <1>3, <1>5, <2>2, <3>2 DEF IsBacked, Publishes, IsBegun, Modes
  <2>5. QED
    BY <1>1, <1>2, <1>5, <2>1, <2>2, <2>3, <2>4, PipelineStep
<1>6. ASSUME NEW started \in Nat, m.mode = "offline" => Published(source) /\ started = Body(source),
             Remember(p, Writing([m EXCEPT !.started = started], own, started, next))
      PROVE  AcquisitionIInv'
  <2>1. PICK k : k = [m EXCEPT !.started = started]
    OBVIOUS
  <2>2. /\ IsMemory(k) /\ k.started = started /\ k.mode = m.mode
        /\ k.answers = <<>> /\ k.document = 0
    BY <1>1, <1>3, <2>1 DEF IsMemory, Memories
  <2> HIDE DEF own, next
  <2>3. PICK n : n = Writing(k, own, started, next)
    OBVIOUS
  <2>4. /\ IsMemory(n) /\ n.pc = next /\ n.started = started /\ n.mode = m.mode
        /\ n.answers = <<>> /\ n.document = 0
        /\ n.write # None /\ n.write.artifact = own /\ n.write.body = started
        /\ n.write.step = "check"
    BY <1>3, <1>6, <2>2, <2>3, WritingType
  <2>5. PagesAgree(n)
    BY <1>3, <2>4 DEF PagesAgree
  <2>6. IsBacked(n)
    BY <1>3, <1>6, <2>4 DEF IsBacked, Publishes, IsBegun, Modes, own, next
  <2>7. QED
    BY <1>1, <1>2, <1>6, <2>1, <2>3, <2>4, <2>5, <2>6, PipelineStep
<1>7. QED
  BY <1>1, <1>3, <1>4, <1>5, <1>6 DEF LoadState, Own, Modes

LEMMA LoginStep ==
    ASSUME AcquisitionIInv, NEW p \in Processes, Login(p)
    PROVE  AcquisitionIInv'
<1>1. PICK m : /\ m = memory[p] /\ IsMemory(m) /\ PagesAgree(m)
               /\ m.pc = "login" /\ memory[p].pc # "off" /\ m.write = None
               /\ ~overlapped => FilesAgree /\ IsBacked(m)
               /\ AcquisitionTypeOK
  BY AtFacts DEF Login
<1>2. UNCHANGED <<files, counts>>
  BY DEF Login
<1>3. CASE Fail(p)
  BY <1>1, <1>2, <1>3, FailStep DEF files, TemporaryStep
<1>4. CASE Remember(p, [m EXCEPT !.pc = "document", !.completed = m.stamp])
  <2>1. PICK n : n = [m EXCEPT !.pc = "document", !.completed = m.stamp]
    OBVIOUS
  <2>2. /\ IsMemory(n) /\ n.pc = "document" /\ n.started = m.started
        /\ n.answers = <<>> /\ n.document = 0 /\ n.write = None
    BY <1>1, <2>1 DEF IsMemory, Memories, PagesAgree
  <2>3. PagesAgree(n)
    BY <2>2 DEF PagesAgree
  <2>4. ~overlapped => IsBacked(n)
    BY <1>1, <2>2 DEF IsBacked, Publishes, IsBegun, OnDisk
  <2>5. QED
    BY <1>1, <1>2, <1>4, <2>1, <2>2, <2>3, <2>4, PipelineStep
<1>5. QED
  BY <1>1, <1>3, <1>4 DEF Login

LEMMA LoadSourceStep ==
    ASSUME AcquisitionIInv, NEW p \in Processes, LoadSource(p)
    PROVE  AcquisitionIInv'
<1>1. PICK m : /\ m = memory[p] /\ IsMemory(m) /\ PagesAgree(m)
               /\ m.pc = "source" /\ memory[p].pc # "off" /\ m.write = None
               /\ ~overlapped => FilesAgree /\ IsBacked(m)
               /\ AcquisitionTypeOK
  BY AtFacts DEF LoadSource
<1>2. UNCHANGED <<files, counts>>
  BY DEF LoadSource
<1>3. CASE Fail(p)
  BY <1>1, <1>2, <1>3, FailStep DEF files, TemporaryStep
<1>4. ASSUME NEW s \in Evidence,
             Remember(p, [m EXCEPT !.pc = "document", !.completed = s.completed])
      PROVE  AcquisitionIInv'
  <2>1. PICK n : n = [m EXCEPT !.pc = "document", !.completed = s.completed]
    OBVIOUS
  <2>2. /\ IsMemory(n) /\ n.pc = "document" /\ n.started = m.started
        /\ n.answers = <<>> /\ n.document = 0 /\ n.write = None
    BY <1>1, <2>1 DEF IsMemory, Memories, PagesAgree, Evidence
  <2>3. PagesAgree(n)
    BY <2>2 DEF PagesAgree
  <2>4. ~overlapped => IsBacked(n)
    BY <1>1, <2>2 DEF IsBacked, Publishes, IsBegun, OnDisk
  <2>5. QED
    BY <1>1, <1>2, <1>4, <2>1, <2>2, <2>3, <2>4, PipelineStep
<1>5. Published(<<"online", "evidence">>) => Body(<<"online", "evidence">>) \in Evidence
  BY <1>1, TypesOf, ArtifactKinds DEF Modes, Derived
<1>6. sources \subseteq Evidence
  BY <1>1 DEF AcquisitionTypeOK
<1>7. QED
  BY <1>1, <1>3, <1>4, <1>5, <1>6 DEF LoadSource

\* A document is taken into memory when it is on disk.
LEMMA TakeStep ==
    ASSUME AcquisitionIInv, NEW p \in Processes, UNCHANGED <<files, counts>>,
           memory[p].pc \in {"document", "take"}, memory[p].write = None,
           NEW body \in Bodies(Raw(memory[p].document)), Take(p, body),
           ~overlapped => Published(Raw(memory[p].document)) /\ Body(Raw(memory[p].document)) = body
    PROVE  AcquisitionIInv'
<1>1. /\ AcquisitionTypeOK /\ PagesAgree(memory[p]) /\ memory[p].pc # "off"
  BY DEF AcquisitionIInv
<1>2. CASE Fail(p)
  BY <1>1, <1>2, FailStep DEF files, TemporaryStep
<1>3. CASE \E n : /\ IsMemory(n) /\ PagesAgree(n) /\ Remember(p, n)
                  /\ n.pc \in {"document", "normalized"} /\ n.write = None
                  /\ n.answers = Append(memory[p].answers, body)
                  /\ n.mode = memory[p].mode /\ n.started = memory[p].started
  <2>1. PICK n : /\ IsMemory(n) /\ PagesAgree(n) /\ Remember(p, n)
                 /\ n.pc \in {"document", "normalized"} /\ n.write = None
                 /\ n.answers = Append(memory[p].answers, body)
                 /\ n.mode = memory[p].mode /\ n.started = memory[p].started
    BY <1>3
  <2>2. ASSUME ~overlapped PROVE IsBacked(n)
    <3>1. PICK m : m = memory[p]
      OBVIOUS
    <3>2. /\ IsBacked(m) /\ IsMemory(m) /\ m.pc \in {"document", "take"}
          /\ PagesAgree(m) /\ body \in Answers
      BY <1>1, <2>2, <3>1, TypesOf, ArtifactKinds DEF AcquisitionIInv, IsMemory, Memories
    <3>3. /\ IsBegun(m) /\ OnDisk(m.answers) /\ Len(m.answers) = m.document
          /\ m.answers \in Seq(Answers) /\ m.document \in Nat
          /\ Published(Raw(m.document)) /\ Body(Raw(m.document)) = body
      BY <2>2, <3>1, <3>2 DEF IsBacked, PagesAgree, IsMemory, Memories, Documents
    <3>4. PICK t : t = Append(m.answers, body)
      OBVIOUS
    <3>5. /\ t \in Seq(Answers) /\ Len(t) = m.document + 1
          /\ \A i \in 1 .. m.document : t[i] = m.answers[i]
          /\ t[m.document + 1] = body
      BY <3>2, <3>3, <3>4, AppendFacts
    <3>6. ASSUME NEW i \in DOMAIN t PROVE Published(Raw(i - 1)) /\ Body(Raw(i - 1)) = t[i]
      <4>1. CASE i = m.document + 1
        BY <3>3, <3>5, <4>1
      <4>2. CASE i # m.document + 1
        <5>1. i \in 1 .. m.document /\ i \in DOMAIN m.answers
          BY <3>3, <3>5, <4>2
        <5>2. QED
          BY <3>3, <3>5, <5>1 DEF OnDisk
      <4>3. QED
        BY <4>1, <4>2
    <3>7. OnDisk(t)
      BY <3>6 DEF OnDisk
    <3>8. n.answers = t /\ n.started = m.started
      BY <2>1, <3>1, <3>4
    <3>9. IsBegun(n)
      BY <3>3, <3>8 DEF IsBegun
    <3>10. QED
      BY <2>1, <3>7, <3>8, <3>9 DEF IsBacked
  <2>3. QED
    BY <1>1, <2>1, <2>2, PipelineStep
<1>4. QED
  BY <1>1, <1>2, <1>3, TakeSteps

LEMMA LoadDocumentStep ==
    ASSUME AcquisitionIInv, NEW p \in Processes, LoadDocument(p)
    PROVE  AcquisitionIInv'
<1>1. PICK m : /\ m = memory[p] /\ IsMemory(m) /\ PagesAgree(m)
               /\ m.pc = "document" /\ memory[p].pc # "off" /\ m.write = None
               /\ ~overlapped => FilesAgree /\ IsBacked(m)
               /\ AcquisitionTypeOK
  BY AtFacts DEF LoadDocument
<1>2. UNCHANGED <<files, counts>>
  BY DEF LoadDocument
<1>3. CASE Fail(p)
  BY <1>1, <1>2, <1>3, FailStep DEF files, TemporaryStep
<1>4. CASE Go(p, "ask")
  <2>1. PICK n : n = [m EXCEPT !.pc = "ask"]
    OBVIOUS
  <2>2. /\ IsMemory(n) /\ n.pc = "ask" /\ n.started = m.started
        /\ n.answers = m.answers /\ n.document = m.document /\ n.write = None
    BY <1>1, <2>1 DEF IsMemory, Memories
  <2>3. PagesAgree(n)
    BY <1>1, <2>2 DEF PagesAgree
  <2>4. ~overlapped => IsBacked(n)
    BY <1>1, <2>2 DEF IsBacked, IsBegun
  <2>5. QED
    BY <1>1, <1>2, <1>4, <2>1, <2>2, <2>3, <2>4, PipelineStep DEF Go
<1>5. CASE Published(Raw(m.document)) /\ Take(p, Body(Raw(m.document)))
  <2>1. Body(Raw(m.document)) \in Bodies(Raw(m.document))
    BY <1>1, <1>5, TypesOf, ArtifactKinds DEF IsMemory, Memories
  <2>2. QED
    BY <1>1, <1>2, <1>5, <2>1, TakeStep
<1>6. QED
  BY <1>1, <1>3, <1>4, <1>5 DEF LoadDocument

LEMMA RejectedStep ==
    ASSUME AcquisitionIInv, NEW p \in Processes, Rejected(p)
    PROVE  AcquisitionIInv'
<1>1. PICK m : /\ m = memory[p] /\ IsMemory(m) /\ PagesAgree(m)
               /\ m.pc = "ask" /\ memory[p].pc # "off" /\ m.write = None
               /\ ~overlapped => FilesAgree /\ IsBacked(m)
               /\ AcquisitionTypeOK
  BY AtFacts DEF Rejected
<1>2. UNCHANGED <<files, counts>>
  BY DEF Rejected
<1>3. CASE Fail(p)
  BY <1>1, <1>2, <1>3, FailStep DEF files, TemporaryStep
<1>4. CASE Remember(p, [m EXCEPT !.attempt = @ + 1])
  <2>1. PICK n : n = [m EXCEPT !.attempt = m.attempt + 1]
    OBVIOUS
  <2>2. /\ IsMemory(n) /\ n.pc = "ask" /\ n.started = m.started
        /\ n.answers = m.answers /\ n.document = m.document /\ n.write = None
    BY <1>1, <2>1 DEF IsMemory, Memories
  <2>3. PagesAgree(n)
    BY <1>1, <2>2 DEF PagesAgree
  <2>4. ~overlapped => IsBacked(n)
    BY <1>1, <2>2 DEF IsBacked, IsBegun
  <2>5. QED
    BY <1>1, <1>2, <1>4, <2>1, <2>2, <2>3, <2>4, PipelineStep
<1>5. QED
  BY <1>1, <1>3, <1>4 DEF Rejected

LEMMA AnsweredStep ==
    ASSUME AcquisitionIInv, NEW p \in Processes, Answered(p)
    PROVE  AcquisitionIInv'
<1>1. PICK m : /\ m = memory[p] /\ IsMemory(m) /\ PagesAgree(m)
               /\ m.pc = "ask" /\ memory[p].pc # "off" /\ m.write = None
               /\ ~overlapped => FilesAgree /\ IsBacked(m)
               /\ AcquisitionTypeOK
  BY AtFacts DEF Answered
<1>2. PICK body : /\ \E total \in IF m.document = 0 THEN {0, 1} ELSE 1 .. (MaxPages + 1) :
                         body = [number |-> m.stamp, total |-> total]
                  /\ Remember(p, Writing([m EXCEPT !.answer = body], Raw(m.document), body, "take"))
  BY <1>1 DEF Answered
<1>3. UNCHANGED <<files, counts>>
  BY DEF Answered
<1>4. /\ Raw(m.document) \in Artifacts /\ body \in Bodies(Raw(m.document)) /\ body \in Answers
      /\ m.document \in Documents
  <2>1. Raw(m.document) \in Artifacts /\ m.stamp \in Nat /\ m.document \in Documents
    BY <1>1, ArtifactKinds DEF IsMemory, Memories
  <2>2. body \in Bodies(Raw(m.document))
    BY <1>2, <2>1 DEF Bodies, Raw
  <2>3. QED
    BY <2>1, <2>2, ArtifactKinds
<1>5. PICK k : k = [m EXCEPT !.answer = body]
  OBVIOUS
<1>6. IsMemory(k) /\ k.answer = body /\ k.started = m.started /\ k.answers = m.answers
      /\ k.document = m.document
  BY <1>1, <1>4, <1>5 DEF IsMemory, Memories
<1>7. PICK n : n = Writing(k, Raw(m.document), body, "take")
  OBVIOUS
<1>8. /\ IsMemory(n) /\ n.pc = "take" /\ n.answer = body /\ n.started = m.started
      /\ n.answers = m.answers /\ n.document = m.document
      /\ n.write # None /\ n.write.artifact = Raw(m.document) /\ n.write.body = body
      /\ n.write.step = "check"
  <2>1. "take" \in Pcs
    BY DEF Pcs
  <2>2. QED
    BY <1>4, <1>6, <1>7, <2>1, WritingType
<1>9. PagesAgree(n)
  BY <1>1, <1>4, <1>8 DEF PagesAgree
<1>10. ~overlapped => IsBacked(n)
  BY <1>1, <1>8 DEF IsBacked, IsBegun, Publishes
<1>11. QED
  BY <1>1, <1>2, <1>3, <1>5, <1>7, <1>8, <1>9, <1>10, PipelineStep

LEMMA TakeAnswerStep ==
    ASSUME AcquisitionIInv, NEW p \in Processes, TakeAnswer(p)
    PROVE  AcquisitionIInv'
<1>1. PICK m : /\ m = memory[p] /\ IsMemory(m) /\ PagesAgree(m)
               /\ m.pc = "take" /\ memory[p].pc # "off" /\ m.write = None
               /\ ~overlapped => FilesAgree /\ IsBacked(m)
               /\ AcquisitionTypeOK
  BY AtFacts DEF TakeAnswer
<1>2. UNCHANGED <<files, counts>> /\ Take(p, m.answer)
  BY <1>1 DEF TakeAnswer
<1>3. m.answer \in Bodies(Raw(m.document))
  BY <1>1 DEF PagesAgree
<1>4. ~overlapped => Published(Raw(m.document)) /\ Body(Raw(m.document)) = m.answer
  BY <1>1 DEF IsBacked, Publishes
<1>5. QED
  BY <1>1, <1>2, <1>3, <1>4, TakeStep

\* The execution begins to write what it has in memory.
LEMMA BeginsToWrite ==
    ASSUME NEW m, IsMemory(m), NEW name \in Derived, NEW body \in Bodies(<<m.mode, name>>),
           NEW pc \in Pcs, NEW n, n = Writing(m, <<m.mode, name>>, body, pc)
    PROVE  /\ IsMemory(n) /\ n.pc = pc /\ n.mode = m.mode /\ n.started = m.started
           /\ n.completed = m.completed /\ n.document = m.document /\ n.answers = m.answers
           /\ n.write # None /\ n.write.artifact = <<m.mode, name>>
           /\ n.write.body = body /\ n.write.step = "check"
<1>1. PICK a : a = <<m.mode, name>>
  OBVIOUS
<1>2. m.mode \in Modes
  BY DEF IsMemory, Memories
<1>3. a \in Artifacts /\ body \in Bodies(a)
  BY <1>1, <1>2, ArtifactKinds
<1>4. QED
  BY <1>1, <1>3, WritingType

LEMMA WriteNormalizedStep ==
    ASSUME AcquisitionIInv, NEW p \in Processes, At(p, "normalized"), UNCHANGED <<files, counts>>,
           Remember(p, Writing(memory[p], Own(p, "normalized"), memory[p].answers, "manifest"))
    PROVE  AcquisitionIInv'
<1>1. PICK m : /\ m = memory[p] /\ IsMemory(m) /\ PagesAgree(m)
               /\ m.pc = "normalized" /\ memory[p].pc # "off" /\ m.write = None
               /\ ~overlapped => FilesAgree /\ IsBacked(m)
               /\ AcquisitionTypeOK
  BY AtFacts
<1>2. PICK body : body = m.answers
  OBVIOUS
<1>3. PICK n : /\ IsMemory(n) /\ Remember(p, n)
               /\ n.pc = "manifest" /\ n.mode = m.mode /\ n.started = m.started
               /\ n.completed = m.completed /\ n.document = m.document /\ n.answers = m.answers
               /\ n.write # None /\ n.write.artifact = <<n.mode, "normalized">>
               /\ n.write.body = body /\ n.write.step = "check"
  <2>1. "normalized" \in Derived /\ "manifest" \in Pcs
    BY DEF Derived, Pcs
  <2>2. body \in Bodies(<<m.mode, "normalized">>)
    <3>1. m.mode \in Modes /\ body \in Seq(Answers)
      BY <1>1, <1>2 DEF IsMemory, Memories
    <3>2. QED
      BY <3>1, ArtifactKinds
  <2>3. PICK k : k = Writing(m, <<m.mode, "normalized">>, body, "manifest")
    OBVIOUS
  <2>4. Remember(p, k)
    BY <1>1, <1>2, <2>3 DEF Own
  <2>5. /\ IsMemory(k) /\ k.pc = "manifest" /\ k.mode = m.mode /\ k.started = m.started
        /\ k.completed = m.completed /\ k.document = m.document /\ k.answers = m.answers
        /\ k.write # None /\ k.write.artifact = <<m.mode, "normalized">>
        /\ k.write.body = body /\ k.write.step = "check"
    BY <1>1, <2>1, <2>2, <2>3, BeginsToWrite
  <2>6. QED
    BY <2>4, <2>5
<1>4. PagesAgree(n)
  BY <1>1, <1>3 DEF PagesAgree
<1>5. ~overlapped => IsBacked(n)
  BY <1>1, <1>2, <1>3 DEF IsBacked, IsBegun, Publishes
<1>6. QED
  BY <1>1, <1>3, <1>4, <1>5, PipelineStep

LEMMA WriteManifestStep ==
    ASSUME AcquisitionIInv, NEW p \in Processes, At(p, "manifest"), UNCHANGED <<files, counts>>,
           Remember(p, Writing(memory[p], Own(p, "manifest"), ManifestOf(memory[p]), "run"))
    PROVE  AcquisitionIInv'
<1>1. PICK m : /\ m = memory[p] /\ IsMemory(m) /\ PagesAgree(m)
               /\ m.pc = "manifest" /\ memory[p].pc # "off" /\ m.write = None
               /\ ~overlapped => FilesAgree /\ IsBacked(m)
               /\ AcquisitionTypeOK
  BY AtFacts
<1>2. m.mode \in Modes /\ ManifestOf(m) \in Bodies(<<m.mode, "manifest">>)
  BY <1>1, ArtifactKinds DEF IsMemory, Memories, ManifestOf, TimesOf, Manifests, Times
<1>3. PICK n : /\ IsMemory(n) /\ Remember(p, n)
               /\ n.pc = "run" /\ n.mode = m.mode /\ n.started = m.started
               /\ n.completed = m.completed /\ n.document = m.document /\ n.answers = m.answers
               /\ n.write # None /\ n.write.artifact = <<n.mode, "manifest">>
               /\ n.write.body = ManifestOf(m) /\ n.write.step = "check"
  <2>1. "manifest" \in Derived /\ "run" \in Pcs
    BY DEF Derived, Pcs
  <2>2. ManifestOf(m) \in Bodies(<<m.mode, "manifest">>)
    BY <1>2
  <2>3. PICK k : k = Writing(m, <<m.mode, "manifest">>, ManifestOf(m), "run")
    OBVIOUS
  <2>4. Remember(p, k)
    BY <1>1, <2>3 DEF Own
  <2>5. /\ IsMemory(k) /\ k.pc = "run" /\ k.mode = m.mode /\ k.started = m.started
        /\ k.completed = m.completed /\ k.document = m.document /\ k.answers = m.answers
        /\ k.write # None /\ k.write.artifact = <<m.mode, "manifest">>
        /\ k.write.body = ManifestOf(m) /\ k.write.step = "check"
    BY <1>1, <2>1, <2>2, <2>3, BeginsToWrite
  <2>6. QED
    BY <2>4, <2>5
<1>4. PagesAgree(n)
  BY <1>1, <1>3 DEF PagesAgree
<1>5. ManifestOf(n) = ManifestOf(m)
  BY <1>3 DEF ManifestOf, TimesOf
<1>6. ~overlapped => IsBacked(n)
  BY <1>1, <1>3, <1>5 DEF IsBacked, IsBegun, Publishes, HasNormalized
<1>7. QED
  BY <1>1, <1>3, <1>4, <1>6, PipelineStep

LEMMA WriteRunStep ==
    ASSUME AcquisitionIInv, NEW p \in Processes, At(p, "run"), UNCHANGED <<files, counts>>,
           NEW cited,
           cited = IF Published(Own(p, "manifest")) THEN Body(Own(p, "manifest")) ELSE None,
           Remember(p, Writing(memory[p], Own(p, "run"),
                               [times |-> TimesOf(memory[p]), cited |-> cited], "evidence"))
    PROVE  AcquisitionIInv'
<1>1. PICK m : /\ m = memory[p] /\ IsMemory(m) /\ PagesAgree(m)
               /\ m.pc = "run" /\ memory[p].pc # "off" /\ m.write = None
               /\ ~overlapped => FilesAgree /\ IsBacked(m)
               /\ AcquisitionTypeOK
  BY AtFacts
<1>2. PICK body : body = [times |-> TimesOf(m), cited |-> cited]
  OBVIOUS
<1>3. m.mode \in Modes /\ body \in Bodies(<<m.mode, "run">>)
  <2>1. m.mode \in Modes /\ TimesOf(m) \in Times
    BY <1>1 DEF IsMemory, Memories, TimesOf, Times
  <2>2. cited \in Manifests \cup {None}
    BY <1>1, <2>1, TypesOf, ArtifactKinds DEF Own, Derived
  <2>3. QED
    BY <1>2, <2>1, <2>2, ArtifactKinds DEF Runs
<1>4. PICK n : /\ IsMemory(n) /\ Remember(p, n)
               /\ n.pc = "evidence" /\ n.mode = m.mode /\ n.started = m.started
               /\ n.completed = m.completed /\ n.document = m.document /\ n.answers = m.answers
               /\ n.write # None /\ n.write.artifact = <<n.mode, "run">>
               /\ n.write.body = body /\ n.write.step = "check"
  <2>1. "run" \in Derived /\ "evidence" \in Pcs
    BY DEF Derived, Pcs
  <2>2. body \in Bodies(<<m.mode, "run">>)
    BY <1>3
  <2>3. PICK k : k = Writing(m, <<m.mode, "run">>, body, "evidence")
    OBVIOUS
  <2>4. Remember(p, k)
    BY <1>1, <1>2, <2>3 DEF Own
  <2>5. /\ IsMemory(k) /\ k.pc = "evidence" /\ k.mode = m.mode /\ k.started = m.started
        /\ k.completed = m.completed /\ k.document = m.document /\ k.answers = m.answers
        /\ k.write # None /\ k.write.artifact = <<m.mode, "run">>
        /\ k.write.body = body /\ k.write.step = "check"
    BY <1>1, <2>1, <2>2, <2>3, BeginsToWrite
  <2>6. QED
    BY <2>4, <2>5
<1>5. PagesAgree(n) /\ m.answers # <<>>
  BY <1>1, <1>4 DEF PagesAgree, IsMemory, Memories, Documents
<1>6. ASSUME ~overlapped PROVE IsBacked(n)
  <2>1. /\ IsBegun(m) /\ OnDisk(m.answers) /\ HasNormalized(m) /\ HasManifest(m)
    BY <1>1, <1>6 DEF IsBacked, Publishes, HasManifest
  <2>2. cited = ManifestOf(m)
    BY <1>1, <2>1 DEF HasManifest, Own
  <2>3. RunOf(n) = body /\ ManifestOf(n) = ManifestOf(m)
    BY <1>2, <1>4, <2>2 DEF RunOf, ManifestOf, TimesOf
  <2>4. QED
    BY <1>4, <1>5, <2>1, <2>3 DEF IsBacked, IsBegun, HasNormalized, HasManifest, Publishes
<1>7. QED
  BY <1>1, <1>4, <1>5, <1>6, PipelineStep

LEMMA WriteEvidenceStep ==
    ASSUME AcquisitionIInv, NEW p \in Processes, WriteEvidence(p)
    PROVE  AcquisitionIInv'
<1>1. PICK m : /\ m = memory[p] /\ IsMemory(m) /\ PagesAgree(m)
               /\ m.pc = "evidence" /\ memory[p].pc # "off" /\ m.write = None
               /\ ~overlapped => FilesAgree /\ IsBacked(m)
               /\ AcquisitionTypeOK
  BY AtFacts DEF WriteEvidence
<1> DEFINE complete == m.answers # <<>>
           verified == m.document > 0
<1>2. PICK body : body = [complete |-> m.answers # <<>>, answers |-> m.answers,
                          verified |-> m.document > 0,
                          completed |-> IF m.answers # <<>> THEN m.completed ELSE m.stamp]
  OBVIOUS
<1>3. m.mode \in Modes /\ body \in Bodies(<<m.mode, "evidence">>)
  <2>1. complete \in BOOLEAN /\ verified \in BOOLEAN
    OBVIOUS
  <2>2. /\ m.mode \in Modes /\ m.answers \in Seq(Answers) /\ m.completed \in Nat /\ m.stamp \in Nat
    BY <1>1 DEF IsMemory, Memories
  <2> HIDE DEF complete, verified
  <2>3. body = [complete |-> complete, answers |-> m.answers, verified |-> verified,
                completed |-> IF complete THEN m.completed ELSE m.stamp]
    BY <1>2 DEF complete, verified
  <2>4. body \in Evidence
    BY <2>1, <2>2, <2>3 DEF Evidence
  <2>5. QED
    BY <2>2, <2>4, ArtifactKinds
<1>4. /\ Remember(p, Writing(m, <<m.mode, "evidence">>, body, "end"))
      /\ UNCHANGED <<files, counts>>
  BY <1>1, <1>2 DEF WriteEvidence, Own
<1>5. PICK n : /\ IsMemory(n) /\ Remember(p, n)
               /\ n.pc = "end" /\ n.mode = m.mode /\ n.write # None
               /\ n.write.artifact = <<n.mode, "evidence">>
               /\ n.write.body = body /\ n.write.step = "check"
  <2>1. "evidence" \in Derived /\ "end" \in Pcs
    BY DEF Derived, Pcs
  <2>2. body \in Bodies(<<m.mode, "evidence">>)
    BY <1>3
  <2>3. PICK k : k = Writing(m, <<m.mode, "evidence">>, body, "end")
    OBVIOUS
  <2>4. Remember(p, k)
    BY <1>4, <2>3
  <2>5. /\ IsMemory(k) /\ k.pc = "end" /\ k.mode = m.mode /\ k.started = m.started
        /\ k.completed = m.completed /\ k.document = m.document /\ k.answers = m.answers
        /\ k.write # None /\ k.write.artifact = <<m.mode, "evidence">>
        /\ k.write.body = body /\ k.write.step = "check"
    BY <1>1, <2>1, <2>2, <2>3, BeginsToWrite
  <2>6. QED
    BY <2>4, <2>5
<1>6. PagesAgree(n)
  BY <1>5 DEF PagesAgree
<1>7. ASSUME ~overlapped PROVE IsBacked(n)
  <2>1. ASSUME m.answers # <<>>
        PROVE  /\ Published(<<m.mode, "run">>)
               /\ Body(<<m.mode, "run">>).cited.answers = m.answers
               /\ Body(<<m.mode, "run">>).times.completed = m.completed
    BY <1>1, <1>7, <2>1 DEF IsBacked, Publishes, RunOf, ManifestOf, TimesOf
  <2>2. ASSUME m.answers # <<>>
        PROVE  \A i \in 2 .. Len(m.answers) : m.answers[i].total = Len(m.answers) - 1
    <3>1. /\ m.document \in Nat /\ Len(m.answers) = m.document + 1
          /\ \A i \in 2 .. m.document + 1 : m.answers[i].total = m.document
      BY <1>1, <2>2 DEF PagesAgree, IsMemory, Memories, Documents
    <3>2. QED
      BY <3>1
  <2>3. /\ body.complete => m.answers # <<>>
        /\ body.answers = m.answers
        /\ m.answers # <<>> => body.completed = m.completed
    BY <1>2
  <2>4. EvidenceFollows(n)
    BY <1>5, <2>1, <2>2, <2>3 DEF EvidenceFollows
  <2>5. QED
    BY <1>5, <2>4 DEF IsBacked
<1>8. QED
  BY <1>1, <1>4, <1>5, <1>6, <1>7, PipelineStep

LEMMA EndStep ==
    ASSUME AcquisitionIInv, NEW p \in Processes, End(p)
    PROVE  AcquisitionIInv'
<1>1. PICK m : m = Off
  OBVIOUS
<1>2. /\ IsMemory(m) /\ m.pc = "off" /\ m.write = None /\ Remember(p, m)
      /\ memory[p].pc # "off" /\ UNCHANGED <<files, counts>>
  BY <1>1, OffType DEF End, Off, At
<1>3. PagesAgree(m) /\ IsBacked(m)
  BY <1>2 DEF PagesAgree, IsBacked
<1>4. QED
  BY <1>2, <1>3, PipelineStep

LEMMA AcquisitionInit == Init => AcquisitionIInv
<1> SUFFICES ASSUME Init PROVE AcquisitionIInv
  OBVIOUS
<1>1. PICK m : m = Off
  OBVIOUS
<1>2. IsMemory(m) /\ m.pc = "off" /\ m.write = None /\ \A p \in Processes : memory[p] = m
  BY <1>1, OffType DEF Init, Off
<1>3. AcquisitionTypeOK
  BY <1>2 DEF Init, AcquisitionTypeOK, IsMemory
<1>4. PagesAgree(m) /\ IsBacked(m) /\ \A p \in Processes : WriteIsReady(p, m)
  BY <1>2 DEF PagesAgree, IsBacked, WriteIsReady
<1>5. OneAtATime
  BY <1>2 DEF OneAtATime
<1>6. \A a \in Artifacts : file[a] = Absent
  BY DEF Init
<1>7. \A mode \in Modes : \A name \in Derived : file[<<mode, name>>] = Absent
  BY <1>6, ArtifactKinds
<1>8. FilesAgree
  BY <1>6, <1>7 DEF FilesAgree, StateIsShared, ManifestIsBacked, RunIsBacked,
                    EvidenceIsOfItsRun, Published, Modes, Derived
<1>9. QED
  BY <1>2, <1>3, <1>4, <1>5, <1>8 DEF AcquisitionIInv, PagesAgree, IsBacked, WriteIsReady

LEMMA WriteDerivedStep ==
    ASSUME AcquisitionIInv, NEW p \in Processes, WriteDerived(p)
    PROVE  AcquisitionIInv'
<1>1. UNCHANGED <<files, counts>>
  BY DEF WriteDerived
<1>2. CASE /\ At(p, "normalized")
           /\ Remember(p, Writing(memory[p], Own(p, "normalized"), memory[p].answers, "manifest"))
  BY <1>1, <1>2, WriteNormalizedStep
<1>3. CASE /\ At(p, "manifest")
           /\ Remember(p, Writing(memory[p], Own(p, "manifest"), ManifestOf(memory[p]), "run"))
  BY <1>1, <1>3, WriteManifestStep
<1>4. CASE /\ At(p, "run")
           /\ Remember(p, Writing(memory[p], Own(p, "run"),
                  [times |-> TimesOf(memory[p]),
                   cited |-> IF Published(Own(p, "manifest"))
                             THEN Body(Own(p, "manifest")) ELSE None], "evidence"))
  <2>1. PICK cited : cited = IF Published(Own(p, "manifest"))
                             THEN Body(Own(p, "manifest")) ELSE None
    OBVIOUS
  <2>2. QED
    BY <1>1, <1>4, <2>1, WriteRunStep
<1>5. QED
  BY <1>2, <1>3, <1>4 DEF WriteDerived, ManifestOf, TimesOf

LEMMA AcquisitionStutters ==
    ASSUME AcquisitionIInv, UNCHANGED vars
    PROVE  AcquisitionIInv'
<1>1. /\ file' = file /\ temporary' = temporary /\ memory' = memory /\ sources' = sources
      /\ starts' = starts /\ deaths' = deaths /\ overlapped' = overlapped
  BY DEF vars
<1>2. AcquisitionTypeOK'
  BY <1>1 DEF AcquisitionIInv, AcquisitionTypeOK
<1>3. \A p \in Processes : PagesAgree(memory[p])'
  BY <1>1 DEF AcquisitionIInv, PagesAgree
<1>4. ASSUME ~overlapped, NEW p \in Processes
      PROVE  IsBacked(memory[p])' /\ WriteIsReady(p, memory[p])'
  <2>1. PICK m : m = memory[p]
    OBVIOUS
  <2>2. IsBacked(m)' /\ WriteIsReady(p, m)'
    BY <1>1, <1>4, <2>1, SameBacking DEF AcquisitionIInv, WriteIsReady, Published, Body
  <2>3. QED
    BY <1>1, <2>1, <2>2 DEF IsBacked, WriteIsReady
<1>5. ~overlapped => OneAtATime' /\ FilesAgree'
  BY <1>1, SameFiles DEF AcquisitionIInv, OneAtATime
<1>6. QED
  BY <1>1, <1>2, <1>3, <1>4, <1>5 DEF AcquisitionIInv

LEMMA AcquisitionNext == AcquisitionIInv /\ [Next]_vars => AcquisitionIInv'
<1> SUFFICES ASSUME AcquisitionIInv, [Next]_vars PROVE AcquisitionIInv'
  OBVIOUS
<1>1. ASSUME NEW p \in Processes, Execution(p) PROVE AcquisitionIInv'
  BY <1>1, VerifyStep, OpenTemporaryStep, FillTemporaryStep, PublishStep, UnlinkStep,
     LoadStateStep, LoginStep, LoadSourceStep, LoadDocumentStep, RejectedStep, AnsweredStep,
     TakeAnswerStep, WriteDerivedStep, WriteEvidenceStep, EndStep DEF Execution
<1>2. ASSUME NEW p \in Processes, Die(p) PROVE AcquisitionIInv'
  BY <1>2, DieStep
<1>3. ASSUME NEW p \in Processes, NEW mode \in Modes, Start(p, mode) PROVE AcquisitionIInv'
  BY <1>3, StartStep
<1>4. ASSUME NEW mode \in Modes, SetAside(mode) PROVE AcquisitionIInv'
  BY <1>4, SetAsideStep
<1>5. CASE UNCHANGED vars
  BY <1>5, AcquisitionStutters
<1>6. QED
  BY <1>1, <1>2, <1>3, <1>4, <1>5 DEF Next

(* Files, memories and what is being written have their types, and the     *)
(* answers in memory are those of the documents before, whoever dies and   *)
(* whatever overlaps (tools/g3a_market_data.py).                           *)
THEOREM AcquisitionTypeCorrect == Spec => []AcquisitionTypeOK
<1>1. AcquisitionIInv => AcquisitionTypeOK
  BY DEF AcquisitionIInv
<1>2. QED
  BY <1>1, AcquisitionInit, AcquisitionNext, PTL DEF Spec

(* Whatever cites a file, cites what is on disk, wherever executions died  *)
(* and however often the run was taken up again, unless two of them        *)
(* overlapped: for any number of executions, pages and deaths.             *)
THEOREM EvidenceStaysBacked == Spec => []EvidenceIsBacked
<1>1. AcquisitionIInv => EvidenceIsBacked
  BY DEF AcquisitionIInv, FilesAgree, EvidenceIsBacked
<1>2. QED
  BY <1>1, AcquisitionInit, AcquisitionNext, PTL DEF Spec

\* A step keeps what is published, but for evidence that is set aside.
Stays(a) ==
    file[a] # Absent =>
        \/ file'[a] # Absent /\ file'[a].body = file[a].body
        \/ file'[a] = Absent /\ a \in Modes \X {"evidence"} /\ memory' = memory

LEMMA NothingIsReplaced ==
    ASSUME AcquisitionTypeOK, [Next]_vars, NEW a \in Artifacts
    PROVE  Stays(a)
<1>1. CASE file' = file
  BY <1>1 DEF Stays
<1>2. ASSUME NEW p \in Processes, FillTemporary(p) PROVE Stays(a)
  <2>1. PICK content : content = file[a]
    OBVIOUS
  <2>2. content \in Contents(a) \cup {Absent} /\ file'[a] = Filled(content, p)
    BY <1>2, <2>1, TypesOf DEF FillTemporary
  <2>3. ASSUME content # Absent
        PROVE  Filled(content, p) \in Contents(a) /\ Filled(content, p).body = content.body
    BY <2>2, <2>3 DEF Filled, Contents
  <2>4. QED
    BY <2>1, <2>2, <2>3, AbsentAssumption DEF Stays
<1>3. ASSUME NEW p \in Processes, Publish(p) PROVE Stays(a)
  BY <1>3 DEF Publish, Stays, AcquisitionTypeOK
<1>4. ASSUME NEW p \in Processes, Die(p) PROVE Stays(a)
  <2>1. PICK content : content = file[a]
    OBVIOUS
  <2>2. content \in Contents(a) \cup {Absent} /\ file'[a] = Left(content, p)
    BY <1>4, <2>1, TypesOf DEF Die
  <2>3. QED
    BY <2>1, <2>2, LeftType DEF Stays
<1>5. ASSUME NEW mode \in Modes, SetAside(mode) PROVE Stays(a)
  BY <1>5 DEF SetAside, Stays, AcquisitionTypeOK
<1>6. ASSUME NEW p \in Processes, Execution(p), ~FillTemporary(p), ~Publish(p)
      PROVE  file' = file
  BY <1>6 DEF Execution, Verify, OpenTemporary, Unlink, LoadState, Login, LoadSource,
              LoadDocument, Rejected, Answered, TakeAnswer, WriteDerived, WriteEvidence, End, files
<1>7. ASSUME NEW p \in Processes, NEW mode \in Modes, Start(p, mode) PROVE file' = file
  BY <1>7 DEF Start, files
<1>8. QED
  BY <1>1, <1>2, <1>3, <1>4, <1>5, <1>6, <1>7 DEF Next, vars

(* Between any steps of any executions, overlapping or not, what was       *)
(* published stays as it is, but for evidence that the operator sets aside.*)
THEOREM NothingPublishedChanges == Spec => PublishedStays
<1>1. AcquisitionTypeOK /\ [Next]_vars => \A a \in Artifacts : Stays(a)
  BY NothingIsReplaced
<1>2. AcquisitionTypeOK /\ [Next]_vars =>
          [\A a \in Artifacts :
              file[a] # Absent =>
                  \/ file'[a] # Absent /\ file'[a].body = file[a].body
                  \/ file'[a] = Absent /\ a \in Modes \X {"evidence"} /\ memory' = memory]_vars
  BY <1>1 DEF Stays
<1>3. QED
  BY <1>2, AcquisitionTypeCorrect, PTL DEF Spec, PublishedStays

-----------------------------------------------------------------------------
(* Numbers. *)

LEMMA LeastNatural ==
    ASSUME NEW S, S \subseteq Nat, S # {}
    PROVE  \E x \in S : \A y \in S : x <= y
<1> DEFINE R == OpToRel(<, Nat)
<1>1. IsWellFoundedOn(R, Nat)
  BY NatLessThanWellFounded, Zenon
<1>2. \A x, y \in Nat : x < y => <<x, y>> \in R
  BY DEF OpToRel
<1> HIDE DEF R
<1>3. PICK x \in S : \A y \in S : <<y, x>> \notin R
  BY <1>1, WFMin, Zenon
<1>4. ASSUME NEW y \in S PROVE x <= y
  <2>1. x \in Nat /\ y \in Nat /\ ~(y < x)
    BY <1>2, <1>3
  <2>2. QED
    BY <2>1
<1>5. QED
  BY <1>4

\* Induction over a set of numbers.
LEMMA NaturalsFrom ==
    ASSUME NEW S, 0 \in S, \A n \in Nat : n \in S => n + 1 \in S
    PROVE  Nat \subseteq S
<1> SUFFICES ASSUME Nat \ S # {} PROVE FALSE
  OBVIOUS
<1>1. PICK x \in Nat \ S : \A y \in Nat \ S : x <= y
  BY LeastNatural
<1>2. x # 0 /\ x - 1 \in Nat
  OBVIOUS
<1>3. x - 1 \in S
  BY <1>1, <1>2
<1>4. QED
  BY <1>2, <1>3

-----------------------------------------------------------------------------
(* The first pass of the replay. *)

\* The latest of a row of minutes without a gap, when there are enough of them.
LEMMA LatestMinutes ==
    ASSUME NEW from \in Nat, NEW m \in Nat, from <= m + 1,
           Cardinality(Latest(from .. m)) = WarmupCandles
    PROVE  Latest(from .. m) = m + 1 - WarmupCandles .. m
<1> DEFINE W == WarmupCandles
           k == IF from >= m + 1 - W THEN from ELSE m + 1 - W
<1>1. W \in Nat /\ k \in Int /\ k <= m + 1 /\ k >= from
  BY TimesAssumption
<1>2. \A s \in from .. m : {x \in from .. m : x >= s} = s .. m
  OBVIOUS
<1>3. ASSUME NEW s \in from .. m PROVE Cardinality({x \in from .. m : x >= s}) = m - s + 1
  <2>1. Cardinality(s .. m) = m - s + 1
    BY FS_Interval
  <2>2. QED
    BY <1>2, <2>1
<1>4. Latest(from .. m) = {s \in from .. m : m - s + 1 <= W}
  BY <1>3 DEF Latest
<1>5. {s \in from .. m : m - s + 1 <= W} = k .. m
  BY <1>1
<1> HIDE DEF k
<1>6. Cardinality(k .. m) = m - k + 1
  <2>1. Cardinality(k .. m) = IF k > m THEN 0 ELSE m - k + 1
    BY <1>1, FS_Interval
  <2>2. QED
    BY <1>1, <2>1
<1>7. Latest(from .. m) = k .. m
  BY <1>4, <1>5
<1>8. k = m + 1 - WarmupCandles
  <2>1. m - k + 1 = WarmupCandles
    BY <1>6, <1>7
  <2>2. QED
    BY <1>1, <2>1
<1>9. QED
  BY <1>7, <1>8

\* What is known of the gaps when minute m is scanned.
GapsAreBehind(m) ==
    \A e \in Epics :
        /\ resetAfter[e] \in Nat \cup {Nothing}
        /\ resetAfter[e] # Nothing => resetAfter[e] <= m
        /\ \A g \in Minutes : g < m /\ Missing(e, g) =>
               resetAfter[e] # Nothing /\ resetAfter[e] > g

LEMMA MinutesAreConsecutive ==
    ASSUME NEW e \in Epics, NEW m \in Minutes, GapsAreBehind(m), ~Missing(e, m), Ready(e, m + 1)
    PROVE  ClosedWindow(e, 1, m + 1) = m + 1 - WarmupCandles .. m
<1> DEFINE from == IF resetAfter[e] = Nothing THEN 0 ELSE resetAfter[e]
<1>1. /\ m \in Nat /\ m <= LastMinute /\ LastMinute \in Nat /\ from \in Nat /\ from <= m
      /\ 1 \in Resolutions /\ FirstStart[1] = 0
  BY TimesAssumption DEF GapsAreBehind, Minutes
<1>2. \A g \in from .. m : g \in Minutes /\ ~Missing(e, g)
  BY <1>1 DEF GapsAreBehind, Minutes
<1>3. Eligible(e, 1, m + 1) = from .. m
  <2>1. ASSUME NEW s \in Eligible(e, 1, m + 1) PROVE s \in from .. m
    BY <1>1, <2>1 DEF Eligible, Minutes
  <2>2. ASSUME NEW s \in from .. m PROVE s \in Eligible(e, 1, m + 1)
    <3>1. s \in Nat /\ s \in Minutes /\ ~Missing(e, s)
      BY <1>1, <1>2
    <3>2. (s - 0) % 1 = 0
      BY <3>1
    <3>3. s >= 0 /\ s + 1 <= m + 1 /\ (resetAfter[e] # Nothing => s >= resetAfter[e])
      BY <1>1, <3>1
    <3>4. QED
      BY <1>1, <3>1, <3>2, <3>3 DEF Eligible
  <2>3. QED
    BY <2>1, <2>2
<1>4. Cardinality(Latest(from .. m)) = WarmupCandles
  BY <1>1, <1>3 DEF Ready, ClosedWindow
<1>5. QED
  BY <1>1, <1>3, <1>4, LatestMinutes DEF ClosedWindow

\* A candidate's window and the gaps.
IsClean(c) ==
    /\ \A r \in c.reads : r[2] + r[1] <= c.at
    /\ \A m \in Minutes : Missing(c.epic, m) =>
            \/ \A r \in c.reads : r[2] > m
            \/ m >= c.at
    /\ {r[2] : r \in {x \in c.reads : x[1] = 1}} = c.at - WarmupCandles .. c.at - 1

LEMMA NewCandidates ==
    ASSUME market \in Markets, NEW m \in Minutes, GapsAreBehind(m), NEW c \in Candidates(m)
    PROVE  c \in Trades /\ c.at = m + 1 /\ IsClean(c)
<1>1. PICK x \in market.signals :
          /\ x.minute = m /\ ~Missing(x.epic, m) /\ Ready(x.epic, m + 1)
          /\ c = [epic |-> x.epic, at |-> m + 1, side |-> x.side, confidence |-> x.confidence,
                  terms |-> x.terms,
                  reads |-> UNION {{span} \X ClosedWindow(x.epic, span, m + 1) :
                                      span \in Resolutions}]
  BY DEF Candidates
<1>2. PICK e : e = x.epic
  OBVIOUS
<1>3. PICK reads : reads = UNION {{span} \X ClosedWindow(e, span, m + 1) : span \in Resolutions}
  OBVIOUS
<1>4. x \in Signals /\ e \in Epics /\ m \in Nat
  BY <1>1, <1>2, MarketsAssumption DEF Signals, Minutes
<1>5. c.epic = e /\ c.at = m + 1 /\ c.reads = reads
  BY <1>1, <1>2, <1>3
<1>6. ASSUME NEW r \in reads
      PROVE  /\ r = <<r[1], r[2]>> /\ r[1] \in Resolutions
             /\ r[2] \in ClosedWindow(e, r[1], m + 1)
  BY <1>3, <1>6
<1>7. ASSUME NEW span \in Resolutions, NEW s \in ClosedWindow(e, span, m + 1)
      PROVE  /\ s \in Int /\ span \in Nat /\ s + span <= m + 1 /\ <<span, s>> \in reads
             /\ resetAfter[e] # Nothing => s >= resetAfter[e]
  <2>1. s \in Eligible(e, span, m + 1)
    BY <1>7 DEF ClosedWindow, Latest
  <2>2. span \in Nat /\ FirstStart[span] \in Int
    BY TimesAssumption
  <2>3. <<span, s>> \in reads
    BY <1>3
  <2>4. QED
    BY <2>1, <2>2, <2>3, TimesAssumption DEF Eligible, Minutes
<1>8. reads \subseteq Resolutions \X Int
  BY <1>6, <1>7
<1>9. c \in Trades
  BY <1>1, <1>2, <1>3, <1>4, <1>8 DEF Trades, Signals
<1>10. \A r \in reads : r[2] + r[1] <= m + 1
  BY <1>6, <1>7
<1>11. ASSUME NEW g \in Minutes, Missing(e, g), g < m + 1, NEW r \in reads
       PROVE  r[2] > g
  <2>1. g < m /\ g \in Nat
    BY <1>1, <1>2, <1>4, <1>11 DEF Minutes
  <2>2. resetAfter[e] # Nothing /\ resetAfter[e] > g /\ resetAfter[e] \in Nat
    BY <1>4, <1>11, <2>1 DEF GapsAreBehind
  <2>3. QED
    BY <1>6, <1>7, <2>1, <2>2
<1>12. {r[2] : r \in {y \in reads : y[1] = 1}} = m + 1 - WarmupCandles .. m
  <2>1. ClosedWindow(e, 1, m + 1) = m + 1 - WarmupCandles .. m
    BY <1>1, <1>2, <1>4, MinutesAreConsecutive
  <2>2. \A s \in ClosedWindow(e, 1, m + 1) : <<1, s>> \in reads
    BY <1>7, TimesAssumption
  <2>3. \A r \in reads : r[1] = 1 => r[2] \in ClosedWindow(e, 1, m + 1)
    BY <1>6
  <2>4. {r[2] : r \in {y \in reads : y[1] = 1}} = ClosedWindow(e, 1, m + 1)
    <3>1. ASSUME NEW s \in ClosedWindow(e, 1, m + 1)
          PROVE  s \in {r[2] : r \in {y \in reads : y[1] = 1}}
      <4>1. <<1, s>> \in reads /\ <<1, s>>[1] = 1 /\ <<1, s>>[2] = s
        BY <2>2
      <4>2. QED
        BY <4>1
    <3>2. QED
      BY <2>3, <3>1
  <2>5. QED
    BY <2>1, <2>4
<1>13. IsClean(c)
  <2>1. \A g \in Minutes : Missing(e, g) => (\A r \in reads : r[2] > g) \/ g >= m + 1
    BY <1>4, <1>11 DEF Minutes
  <2>2. m + 1 - 1 = m
    BY <1>4
  <2>3. \A r \in c.reads : r[2] + r[1] <= c.at
    BY <1>5, <1>10
  <2>4. \A g \in Minutes : Missing(c.epic, g) => (\A r \in c.reads : r[2] > g) \/ g >= c.at
    BY <1>5, <2>1
  <2>5. {r[2] : r \in {y \in c.reads : y[1] = 1}} = c.at - WarmupCandles .. c.at - 1
    <3>1. c.at - WarmupCandles = m + 1 - WarmupCandles /\ c.at - 1 = m
      BY <1>4, <1>5, TimesAssumption
    <3>2. {r[2] : r \in {y \in c.reads : y[1] = 1}} = {r[2] : r \in {y \in reads : y[1] = 1}}
      BY <1>5, Zenon
    <3>3. QED
      BY <1>12, <3>1, <3>2, Zenon
  <2>6. QED
    BY <2>3, <2>4, <2>5 DEF IsClean
<1>14. QED
  BY <1>5, <1>9, <1>13

-----------------------------------------------------------------------------
(* The inductive invariant of the replay. *)

\* The exit planned for a trade.
Plans(c, exit) ==
    \/ Exits(c) = {} /\ exit = Nothing
    \/ \E x \in Exits(c) :
          /\ \A y \in Exits(c) : x <= y
          /\ exit = [at |-> x + 1, result |-> Result(c.side, Candle(c.epic, x))]

\* At a cycle the books are those of the life lived forward, and the exit that
\* was planned is still to come.
BooksAgree(m) ==
    LET trade == Life[m].trade
    IN  /\ audit = Life[m].audit
        /\ account.balance = Life[m].balance
        /\ trade = Nothing => pending = Nothing /\ account.held = Nothing
        /\ trade # Nothing =>
              /\ trade \in candidates /\ trade.at <= m
              /\ account.held = trade.epic
              /\ pending # Nothing /\ Plans(trade, pending.exit)
              /\ \A x \in Exits(trade) : m <= x

ReplayShape ==
    /\ phase \in {"off", "scan", "execute", "done", "failed"}
    /\ phase # "off" => market \in Markets
    /\ minute \in 0 .. LastMinute + 1
    /\ resetAfter \in [Epics -> Nat \cup {Nothing}]
    /\ account \in [balance : Int, held : Epics \cup {Nothing}]
    /\ pending \in [epic : Epics, exit : Planned \cup {Nothing}] \cup {Nothing}

CandidatesAreKnown ==
    /\ phase = "off" => candidates = {} /\ minute = 0 /\ \A e \in Epics : resetAfter[e] = Nothing
    /\ phase = "scan" => GapsAreBehind(minute) /\ \A c \in candidates : c.at <= minute
    /\ \A c \in candidates :
          c \in Trades /\ 1 <= c.at /\ c.at <= LastMinute + 1 /\ IsClean(c)
    /\ \A c, d \in candidates : c.epic = d.epic /\ c.at = d.at => c = d

ExecutionsAgree ==
    /\ phase \in {"off", "scan"} =>
          audit = {} /\ pending = Nothing /\ account = [balance |-> 0, held |-> Nothing]
    /\ phase = "execute" => BooksAgree(minute)
    /\ phase = "done" =>
          /\ audit = Lived.audit
          /\ account.balance = Lived.balance
          /\ account.held = Nothing <=> Lived.trade = Nothing

ReplayIInv == ReplayShape /\ CandidatesAreKnown /\ ExecutionsAgree

-----------------------------------------------------------------------------
(* The life lived forward. *)

LEMMA LifeIs ==
    /\ Life[0] = [balance |-> 0, trade |-> Nothing, audit |-> {}]
    /\ \A t \in 1 .. LastMinute + 1 : Life[t] = LivedMinute(Life[t - 1], t)
<1> DEFINE N == LastMinute + 1
           Flat == [balance |-> 0, trade |-> Nothing, audit |-> {}]
           LifeAt(g, t) == IF t = 0 THEN Flat ELSE LivedMinute(g[t - 1], t)
           S == {n \in Nat : \E g : g = [t \in 0 .. n |-> LifeAt(g, t)]}
<1>1. N \in Nat
  BY TimesAssumption
<1>2. 0 \in S
  <2>1. PICK g : g = [t \in 0 .. 0 |-> Flat]
    OBVIOUS
  <2>2. g = [t \in 0 .. 0 |-> LifeAt(g, t)]
    BY <2>1
  <2>3. QED
    BY <2>2
<1>3. ASSUME NEW n \in Nat, n \in S PROVE n + 1 \in S
  <2>1. PICK g : g = [t \in 0 .. n |-> LifeAt(g, t)]
    BY <1>3
  <2>2. PICK h : h = [t \in 0 .. n + 1 |-> IF t = n + 1 THEN LivedMinute(g[n], n + 1) ELSE g[t]]
    OBVIOUS
  <2>3. ASSUME NEW t \in 0 .. n + 1 PROVE h[t] = LifeAt(h, t)
    <3>1. CASE t = n + 1
      <4>1. h[n] = g[n] /\ t - 1 = n /\ t # 0 /\ h[t] = LivedMinute(g[n], n + 1)
        BY <2>2, <3>1
      <4>2. QED
        BY <3>1, <4>1
    <3>2. CASE t # n + 1 /\ t # 0
      <4>1. t \in 0 .. n /\ t - 1 \in 0 .. n + 1 /\ t - 1 # n + 1
        BY <3>2
      <4>2. h[t - 1] = g[t - 1] /\ h[t] = g[t]
        BY <2>2, <3>2, <4>1
      <4>3. g[t] = LivedMinute(g[t - 1], t)
        BY <2>1, <3>2, <4>1
      <4>4. QED
        BY <3>2, <4>2, <4>3
    <3>3. CASE t = 0
      BY <2>1, <2>2, <3>3
    <3>4. QED
      BY <3>1, <3>2, <3>3
  <2> HIDE DEF LifeAt
  <2>4. h = [t \in 0 .. n + 1 |-> LifeAt(h, t)]
    BY <2>2, <2>3
  <2>5. QED
    BY <2>4
<1>4. N \in S
  <2> HIDE DEF S
  <2>1. QED
    BY <1>1, <1>2, <1>3, NaturalsFrom
<1>5. PICK g : g = [t \in 0 .. N |-> LifeAt(g, t)]
  BY <1>4
<1>6. Life = [t \in 0 .. N |-> LifeAt(Life, t)]
  <2> DEFINE F(f) == [t \in 0 .. N |-> LifeAt(f, t)]
  <2>1. Life = CHOOSE f : f = F(f)
    BY DEF Life
  <2>2. \E f : f = F(f)
    BY <1>5
  <2> HIDE DEF F
  <2>3. Life = F(Life)
    BY <2>1, <2>2
  <2>4. QED
    BY <2>3 DEF F
<1>7. Life[0] = Flat
  BY <1>1, <1>6
<1>8. ASSUME NEW t \in 1 .. N PROVE Life[t] = LivedMinute(Life[t - 1], t)
  <2>1. t \in 0 .. N /\ t # 0
    BY <1>1
  <2> HIDE DEF LifeAt
  <2>2. Life[t] = LifeAt(Life, t)
    BY <1>6, <2>1
  <2>3. QED
    BY <2>1, <2>2 DEF LifeAt
<1>9. QED
  BY <1>7, <1>8

LEMMA LifeKeeps ==
    ASSUME market' = market, candidates' = candidates
    PROVE  Life' = Life
BY DEF Life, LivedMinute, Ended, Kept, Books, Ranked, Selected, Before, Audited, Entry, Veto,
       Candle, Stops, Reaches, Result

\* What a minute has audited stays audited.
LEMMA LifeOnlyAdds ==
    ASSUME NEW m \in 0 .. LastMinute + 1
    PROVE  Life[m].audit \subseteq Lived.audit
<1> DEFINE N == LastMinute + 1
           S == {n \in Nat : m + n <= N => Life[m].audit \subseteq Life[m + n].audit}
<1>1. N \in Nat /\ m \in Nat /\ m <= N
  BY TimesAssumption
<1>2. 0 \in S
  BY <1>1
<1>3. ASSUME NEW n \in Nat, n \in S PROVE n + 1 \in S
  <2>1. SUFFICES ASSUME m + (n + 1) <= N PROVE Life[m].audit \subseteq Life[m + (n + 1)].audit
    BY <1>1
  <2>2. PICK t \in 1 .. N : t = m + (n + 1)
    BY <1>1, <2>1
  <2>3. t - 1 = m + n /\ m + n <= N
    BY <1>1, <2>1, <2>2
  <2>4. Life[t] = LivedMinute(Life[t - 1], t)
    BY LifeIs
  <2>5. Life[t - 1].audit \subseteq Life[t].audit
    BY <2>4 DEF LivedMinute
  <2>6. Life[m].audit \subseteq Life[t - 1].audit
    BY <1>3, <2>3
  <2>7. QED
    BY <2>2, <2>5, <2>6
<1>4. N - m \in S
  <2>1. N - m \in Nat
    BY <1>1
  <2> HIDE DEF S
  <2>2. QED
    BY <1>2, <1>3, <2>1, NaturalsFrom
<1>5. QED
  BY <1>1, <1>4 DEF Lived

LEMMA PlannedExit ==
    ASSUME NEW c
    PROVE  Plans(c, PlanExit(c))
<1>1. CASE Exits(c) = {}
  BY <1>1 DEF Plans, PlanExit
<1>2. CASE Exits(c) # {}
  <2>1. Exits(c) \subseteq Nat
    BY DEF Exits, Minutes
  <2>2. \E x \in Exits(c) : \A y \in Exits(c) : x <= y
    BY <1>2, <2>1, LeastNatural
  <2>3. PICK x : x = CHOOSE z \in Exits(c) : \A y \in Exits(c) : z <= y
    OBVIOUS
  <2>4. x \in Exits(c) /\ \A y \in Exits(c) : x <= y
    BY <2>2, <2>3
  <2>5. PlanExit(c) = [at |-> x + 1, result |-> Result(c.side, Candle(c.epic, x))]
    BY <1>2, <2>3 DEF PlanExit
  <2>6. QED
    BY <2>4, <2>5 DEF Plans
<1>3. QED
  BY <1>1, <1>2

\* Among the candidates of a cycle there is a best one.
LEMMA BestIsSelected ==
    ASSUME candidates \subseteq Trades,
           \A c, d \in candidates : c.epic = d.epic /\ c.at = d.at => c = d,
           NEW time, Ranked(time) # {}
    PROVE  Selected(time) \in Ranked(time)
<1> DEFINE Upto(n) == {c \in Ranked(time) : \E k \in 1 .. n : Instruments[k] = c.epic}
           Best(n, b) == b \in Upto(n) /\ \A d \in Upto(n) \ {b} : Before(b, d)
           S == {n \in Nat : n <= Len(Instruments) /\ Upto(n) # {} => \E b : Best(n, b)}
<1>1. Len(Instruments) \in Nat /\ DOMAIN Instruments = 1 .. Len(Instruments)
  BY InstrumentsAssumption
<1>2. \A c \in Ranked(time) : c \in candidates /\ c.at = time /\ c.confidence \in Int /\ c.epic \in Epics
  BY DEF Ranked, Trades
<1>3. 0 \in S
  OBVIOUS
<1>4. ASSUME NEW n \in Nat, n \in S PROVE n + 1 \in S
  <2>1. SUFFICES ASSUME n + 1 <= Len(Instruments), Upto(n + 1) # {}
                 PROVE  \E b : Best(n + 1, b)
    OBVIOUS
  <2>2. n <= Len(Instruments) /\ \A k \in 1 .. n : k \in DOMAIN Instruments /\ k < n + 1
    BY <1>1, <2>1
  <2>3. n + 1 \in DOMAIN Instruments
    BY <1>1, <2>1
  <2>4. \A c \in Upto(n + 1) : c \in Upto(n) \/ c.epic = Instruments[n + 1]
    OBVIOUS
  <2>5. Upto(n) \subseteq Upto(n + 1)
    OBVIOUS
  <2>6. CASE \A c \in Upto(n + 1) : c.epic # Instruments[n + 1]
    <3>1. Upto(n) = Upto(n + 1)
      BY <2>4, <2>5, <2>6
    <3>2. QED
      BY <1>4, <2>1, <2>2, <3>1
  <2>7. CASE \E c \in Upto(n + 1) : c.epic = Instruments[n + 1]
    <3>1. PICK c \in Upto(n + 1) : c.epic = Instruments[n + 1]
      BY <2>7
    <3>2. \A d \in Upto(n + 1) \ {c} : d \in Upto(n)
      BY <1>2, <2>4, <3>1
    <3>3. CASE Upto(n) = {}
      <4>1. Best(n + 1, c)
        BY <3>1, <3>2, <3>3
      <4>2. QED
        BY <4>1
    <3>4. CASE Upto(n) # {}
      <4>1. PICK b : Best(n, b)
        BY <1>4, <2>2, <3>4
      <4>2. PICK j \in 1 .. n : Instruments[j] = b.epic
        BY <4>1
      <4>3. b \in Ranked(time) /\ c \in Ranked(time) /\ b \in Upto(n + 1)
        BY <2>5, <3>1, <4>1
      <4>4. b.confidence \in Int /\ c.confidence \in Int
        BY <1>2, <4>3
      <4>5. CASE c.confidence > b.confidence
        <5>1. ASSUME NEW d \in Upto(n) PROVE Before(c, d)
          <6>1. d = b \/ Before(b, d)
            BY <4>1
          <6>2. d.confidence \in Int /\ b.confidence >= d.confidence
            BY <1>2, <4>4, <6>1 DEF Before
          <6>3. QED
            BY <4>4, <4>5, <6>2 DEF Before
        <5>2. Best(n + 1, c)
          BY <3>1, <3>2, <5>1
        <5>3. QED
          BY <5>2
      <4>6. CASE ~(c.confidence > b.confidence)
        <5>1. Before(b, c)
          <6>1. j \in DOMAIN Instruments /\ j < n + 1
            BY <2>2
          <6>2. b.confidence > c.confidence \/ b.confidence = c.confidence
            BY <4>4, <4>6
          <6>3. QED
            BY <2>3, <3>1, <4>2, <6>1, <6>2 DEF Before
        <5>2. \A d \in Upto(n + 1) \ {b} : Before(b, d)
          BY <3>2, <4>1, <5>1
        <5>3. Best(n + 1, b)
          BY <4>3, <5>2
        <5>4. QED
          BY <5>3
      <4>7. QED
        BY <4>5, <4>6
    <3>5. QED
      BY <3>3, <3>4
  <2>8. QED
    BY <2>6, <2>7
<1>5. Len(Instruments) \in S
  <2> HIDE DEF S
  <2>1. QED
    BY <1>1, <1>3, <1>4, NaturalsFrom
<1>6. Upto(Len(Instruments)) = Ranked(time)
  <2>1. ASSUME NEW c \in Ranked(time) PROVE c \in Upto(Len(Instruments))
    BY <1>1, <1>2, <2>1 DEF Epics
  <2>2. QED
    BY <2>1
<1>7. PICK b : Best(Len(Instruments), b)
  BY <1>1, <1>5, <1>6
<1>8. b \in Ranked(time) /\ \A d \in Ranked(time) \ {b} : Before(b, d)
  BY <1>6, <1>7
<1>9. QED
  BY <1>8 DEF Selected

-----------------------------------------------------------------------------
(* Between two cycles. *)

\* What the account lived forward has become at minute u, if no cycle came since.
Carried(u) ==
    [balance |-> Settled(u).balance,
     trade |-> IF Over(u) THEN Nothing ELSE Life[minute].trade,
     audit |-> audit]

\* The planned exit of an open trade falls due exactly when a candle ends it.
LEMMA ExitFallsDue ==
    ASSUME ReplayIInv, phase = "execute", NEW u \in minute + 1 .. LastMinute + 1,
           Life[minute].trade # Nothing
    PROVE  LET trade == Life[minute].trade
               candle == Candle(trade.epic, u - 1)
               ends == Stops(trade.side, candle) \/ Reaches(trade.side, candle)
           IN  /\ Over(u - 1) => Over(u)
               /\ ~Over(u - 1) => (Over(u) <=> ends)
               /\ ~Over(u - 1) /\ Over(u) => pending.exit.result = Result(trade.side, candle)
<1> DEFINE trade == Life[minute].trade
           candle == Candle(trade.epic, u - 1)
           ends == Stops(trade.side, candle) \/ Reaches(trade.side, candle)
<1>1. LastMinute \in Nat /\ minute \in Nat
  BY TimesAssumption DEF ReplayIInv, ReplayShape
<1>2. /\ trade \in candidates /\ trade.at <= minute
      /\ pending # Nothing /\ Plans(trade, pending.exit)
      /\ \A x \in Exits(trade) : minute <= x
  BY DEF ReplayIInv, ExecutionsAgree, BooksAgree
<1>3. trade.at \in Nat
  BY <1>2 DEF ReplayIInv, CandidatesAreKnown, Trades
<1> HIDE DEF trade
<1>4. u - 1 \in Minutes /\ u - 1 \in Nat /\ u \in Nat /\ u - 1 >= trade.at
  BY <1>1, <1>2, <1>3 DEF Minutes
<1>5. ends <=> u - 1 \in Exits(trade)
  BY <1>4 DEF Exits
<1>6. CASE Exits(trade) = {} /\ pending.exit = Nothing
  <2>1. ~Over(u) /\ ~Over(u - 1)
    BY <1>6 DEF Over
  <2>2. QED
    BY <1>5, <1>6, <2>1 DEF trade
<1>7. CASE Exits(trade) # {} \/ pending.exit # Nothing
  <2>1. PICK x \in Exits(trade) :
            /\ \A y \in Exits(trade) : x <= y
            /\ pending.exit = [at |-> x + 1, result |-> Result(trade.side, Candle(trade.epic, x))]
    BY <1>2, <1>7 DEF Plans
  <2>2. x \in Nat
    BY DEF Exits, Minutes
  <2>3. pending.exit # Nothing
    <3>1. pending.exit \in Planned
      BY <2>1, <2>2 DEF Planned, Result
    <3>2. QED
      BY <3>1, NothingAssumption
  <2>4. pending.exit.at = x + 1 /\ pending.exit.result = Result(trade.side, Candle(trade.epic, x))
    BY <2>1
  <2>5. (Over(u) <=> x + 1 <= u) /\ (Over(u - 1) <=> x + 1 <= u - 1)
    BY <1>2, <2>3, <2>4 DEF Over
  <2>6. CASE x + 1 <= u - 1
    BY <1>4, <2>2, <2>5, <2>6 DEF trade
  <2>7. CASE x = u - 1
    <3>1. ~Over(u - 1) /\ Over(u) /\ ends
      BY <1>4, <1>5, <2>2, <2>5, <2>7
    <3>2. pending.exit.result = Result(trade.side, candle)
      BY <2>4, <2>7
    <3>3. QED
      BY <3>1, <3>2 DEF trade
  <2>8. CASE x > u - 1
    <3>1. ~Over(u - 1) /\ ~Over(u)
      BY <1>4, <2>2, <2>5, <2>8
    <3>2. ~(u - 1 \in Exits(trade))
      BY <1>4, <2>1, <2>2, <2>8
    <3>3. QED
      BY <1>5, <3>1, <3>2 DEF trade
  <2>9. QED
    BY <1>4, <2>2, <2>6, <2>7, <2>8
<1>8. QED
  BY <1>6, <1>7

LEMMA AccountIsARecord ==
    ASSUME account \in [balance : Int, held : Epics \cup {Nothing}]
    PROVE  account = [balance |-> account.balance, held |-> account.held]
OBVIOUS

\* A minute more of that life books what the replay will have booked by then.
LEMMA MinuteIsBooked ==
    ASSUME ReplayIInv, phase = "execute", NEW u \in minute + 1 .. LastMinute + 1
    PROVE  /\ Books(Carried(u - 1), u) = Settled(u)
           /\ Kept(Carried(u - 1), u) = Carried(u).trade
<1> DEFINE trade == Life[minute].trade
           was == Carried(u - 1)
           candle == Candle(trade.epic, u - 1)
<1>1. /\ account = [balance |-> account.balance, held |-> account.held]
      /\ account.balance \in Int
  BY AccountIsARecord DEF ReplayIInv, ReplayShape
<1>2. /\ was.balance = Settled(u - 1).balance
      /\ was.trade = IF Over(u - 1) THEN Nothing ELSE trade
  BY DEF Carried
<1>3. Carried(u).trade = IF Over(u) THEN Nothing ELSE trade
  BY DEF Carried
<1>4. CASE trade = Nothing
  <2>1. pending = Nothing /\ account.held = Nothing
    BY <1>4 DEF ReplayIInv, ExecutionsAgree, BooksAgree
  <2>2. ~Over(u) /\ ~Over(u - 1)
    BY <2>1 DEF Over
  <2>3. was.trade = Nothing /\ was.balance = account.balance /\ Settled(u) = account
    BY <1>2, <1>4, <2>2 DEF Settled
  <2>4. ~Ended(was, u) /\ Kept(was, u) = Nothing
    BY <2>3 DEF Ended, Kept
  <2> HIDE DEF was
  <2>5. Books(was, u) = [balance |-> account.balance, held |-> Nothing]
    BY <2>3, <2>4 DEF Books
  <2>6. Books(was, u) = Settled(u)
    BY <1>1, <2>1, <2>3, <2>5
  <2>7. QED
    BY <1>3, <1>4, <2>4, <2>6 DEF was
<1>5. CASE trade # Nothing
  <2>1. /\ Over(u - 1) => Over(u)
        /\ ~Over(u - 1) => (Over(u) <=> Stops(trade.side, candle) \/ Reaches(trade.side, candle))
        /\ ~Over(u - 1) /\ Over(u) => pending.exit.result = Result(trade.side, candle)
    BY <1>5, ExitFallsDue
  <2>2. account.held = trade.epic
    BY <1>5 DEF ReplayIInv, ExecutionsAgree, BooksAgree
  <2> HIDE DEF trade, was, candle
  <2>3. CASE Over(u - 1)
    <3>1. Over(u) /\ was.trade = Nothing /\ Settled(u) = Settled(u - 1)
      BY <1>2, <2>1, <2>3 DEF Settled
    <3>2. ~Ended(was, u) /\ Kept(was, u) = Nothing
      BY <3>1 DEF Ended, Kept
    <3>3. Books(was, u) = [balance |-> Settled(u).balance, held |-> Nothing]
      BY <1>2, <3>1, <3>2 DEF Books
    <3>4. Settled(u) = [balance |-> Settled(u).balance, held |-> Nothing]
      BY <3>1 DEF Settled
    <3>5. QED
      BY <1>3, <3>1, <3>2, <3>3, <3>4 DEF was
  <2>4. CASE ~Over(u - 1) /\ Over(u)
    <3>1. was.trade = trade /\ was.balance = account.balance
      BY <1>2, <2>4 DEF Settled
    <3>2. Ended(was, u) /\ Kept(was, u) = Nothing
      BY <1>5, <2>1, <2>4, <3>1 DEF Ended, Kept, candle
    <3>3. Result(was.trade.side, Candle(was.trade.epic, u - 1)) = pending.exit.result
      BY <2>1, <2>4, <3>1 DEF candle
    <3>4. Books(was, u) = [balance |-> account.balance + pending.exit.result, held |-> Nothing]
      BY <3>1, <3>2, <3>3 DEF Books
    <3>5. Settled(u) = [balance |-> account.balance + pending.exit.result, held |-> Nothing]
      BY <2>4 DEF Settled
    <3>6. QED
      BY <1>3, <2>4, <3>2, <3>4, <3>5 DEF was
  <2>5. CASE ~Over(u - 1) /\ ~Over(u)
    <3>1. was.trade = trade /\ was.balance = account.balance /\ Settled(u) = account
      BY <1>2, <2>5 DEF Settled
    <3>2. ~Ended(was, u) /\ Kept(was, u) = trade
      BY <2>1, <2>5, <3>1 DEF Ended, Kept, candle
    <3>3. Books(was, u) = [balance |-> account.balance, held |-> trade.epic]
      BY <1>5, <3>1, <3>2 DEF Books, trade
    <3>4. Books(was, u) = Settled(u)
      BY <1>1, <2>2, <3>1, <3>3
    <3>5. QED
      BY <1>3, <2>5, <3>2, <3>4 DEF was
  <2>6. QED
    BY <2>1, <2>3, <2>4, <2>5
<1>6. QED
  BY <1>4, <1>5

\* At the cycle itself nothing more has been booked.
LEMMA CarriedFromHere ==
    ASSUME ReplayIInv, phase = "execute"
    PROVE  Carried(minute) = Life[minute]
<1> DEFINE trade == Life[minute].trade
<1>1. minute \in Nat /\ minute \in 0 .. LastMinute + 1
  BY TimesAssumption DEF ReplayIInv, ReplayShape
<1>2. BooksAgree(minute)
  BY DEF ReplayIInv, ExecutionsAgree
<1>3. ~Over(minute)
  <2>1. CASE trade = Nothing
    BY <1>2, <2>1 DEF BooksAgree, Over
  <2>2. CASE trade # Nothing
    <3>1. Plans(trade, pending.exit) /\ \A x \in Exits(trade) : minute <= x
      BY <1>2, <2>2 DEF BooksAgree
    <3>2. \A x \in Exits(trade) : x \in Nat /\ ~(x + 1 <= minute)
      BY <1>1, <3>1 DEF Exits, Minutes
    <3>3. SUFFICES ASSUME pending.exit # Nothing, pending.exit.at <= minute PROVE FALSE
      BY DEF Over
    <3>4. PICK x \in Exits(trade) :
              pending.exit = [at |-> x + 1, result |-> Result(trade.side, Candle(trade.epic, x))]
      BY <3>1, <3>3 DEF Plans
    <3>5. pending.exit.at = x + 1
      BY <3>4
    <3>6. QED
      BY <3>2, <3>3, <3>5
  <2>3. QED
    BY <2>1, <2>2
<1>4. Settled(minute) = account
  BY <1>3 DEF Settled
<1>5. Life[minute] = [balance |-> Life[minute].balance, trade |-> trade,
                      audit |-> Life[minute].audit]
  <2>1. CASE minute = 0
    BY <2>1, LifeIs
  <2>2. CASE minute # 0
    <3>1. Life[minute] = LivedMinute(Life[minute - 1], minute)
      BY <1>1, <2>2, LifeIs
    <3>2. QED
      BY <3>1 DEF LivedMinute
  <2>3. QED
    BY <2>1, <2>2
<1>6. Carried(minute) = [balance |-> account.balance, trade |-> trade, audit |-> audit]
  BY <1>3, <1>4 DEF Carried
<1>7. QED
  BY <1>2, <1>5, <1>6 DEF BooksAgree

\* Until the next cycle the lived account is the carried one.
LEMMA NothingHappensBetween ==
    ASSUME ReplayIInv, phase = "execute", NEW u \in minute .. LastMinute + 1,
           \A t \in minute + 1 .. u : Ranked(t) = {}
    PROVE  Life[u] = Carried(u)
<1> DEFINE S == {n \in Nat : minute + n <= u => Life[minute + n] = Carried(minute + n)}
<1>1. minute \in Nat /\ LastMinute \in Nat
  BY TimesAssumption DEF ReplayIInv, ReplayShape
<1>2. 0 \in S
  BY <1>1, CarriedFromHere
<1>3. ASSUME NEW n \in Nat, n \in S PROVE n + 1 \in S
  <2>1. SUFFICES ASSUME minute + (n + 1) <= u
                 PROVE  Life[minute + (n + 1)] = Carried(minute + (n + 1))
    OBVIOUS
  <2>2. PICK t \in minute + 1 .. u : t = minute + (n + 1)
    BY <1>1, <2>1
  <2>3. t - 1 = minute + n /\ minute + n <= u /\ t \in 1 .. LastMinute + 1
        /\ t \in minute + 1 .. LastMinute + 1
    BY <1>1, <2>1, <2>2
  <2>4. Life[t - 1] = Carried(t - 1)
    BY <1>3, <2>3
  <2>5. Life[t] = LivedMinute(Carried(t - 1), t)
    BY <2>3, <2>4, LifeIs
  <2>6. Books(Carried(t - 1), t) = Settled(t) /\ Kept(Carried(t - 1), t) = Carried(t).trade
    BY <2>3, MinuteIsBooked
  <2>7. Carried(t - 1).audit = audit
    BY DEF Carried
  <2>8. Life[t] = [balance |-> Settled(t).balance, trade |-> Carried(t).trade, audit |-> audit]
    BY <2>5, <2>6, <2>7 DEF LivedMinute
  <2>9. Life[t] = Carried(t)
    BY <2>8 DEF Carried
  <2>10. QED
    BY <2>2, <2>9
<1>4. u - minute \in S
  <2>1. u - minute \in Nat
    BY <1>1
  <2> HIDE DEF S
  <2>2. QED
    BY <1>2, <1>3, <2>1, NaturalsFrom
<1>5. QED
  BY <1>1, <1>4

-----------------------------------------------------------------------------
(* The cycles. *)

LEMMA SettledType ==
    ASSUME ReplayShape, NEW u
    PROVE  /\ Settled(u) \in [balance : Int, held : Epics \cup {Nothing}]
           /\ (IF Over(u) THEN Nothing ELSE pending)
                 \in [epic : Epics, exit : Planned \cup {Nothing}] \cup {Nothing}
<1>1. account \in [balance : Int, held : Epics \cup {Nothing}]
  BY DEF ReplayShape
<1>2. pending \in [epic : Epics, exit : Planned \cup {Nothing}] \cup {Nothing}
  BY DEF ReplayShape
<1>3. CASE Over(u)
  <2>1. pending.exit \in Planned
    BY <1>2, <1>3 DEF Over
  <2>2. account.balance + pending.exit.result \in Int
    BY <1>1, <2>1 DEF Planned
  <2>3. QED
    BY <1>3, <2>2 DEF Settled
<1>4. CASE ~Over(u)
  BY <1>1, <1>2, <1>4 DEF Settled
<1>5. QED
  BY <1>3, <1>4

LEMMA NextCycle ==
    ASSUME ReplayIInv, phase = "execute", Upcoming # {}
    PROVE  /\ Cycle \in minute + 1 .. LastMinute + 1 /\ Ranked(Cycle) # {}
           /\ \A t \in minute + 1 .. Cycle - 1 : Ranked(t) = {}
<1>1. minute \in Nat /\ LastMinute \in Nat
  BY TimesAssumption DEF ReplayIInv, ReplayShape
<1>2. \A c \in candidates : c.at \in Nat /\ c.at <= LastMinute + 1
  BY DEF ReplayIInv, CandidatesAreKnown, Trades
<1>3. Upcoming \subseteq Nat
  BY <1>2 DEF Upcoming, Cycles
<1>4. \E t \in Upcoming : \A u \in Upcoming : t <= u
  BY <1>3, LeastNatural
<1>5. PICK t : t = Cycle
  OBVIOUS
<1>6. t \in Upcoming /\ \A u \in Upcoming : t <= u
  BY <1>4, <1>5 DEF Cycle
<1>7. t \in Nat /\ t > minute /\ t <= LastMinute + 1 /\ Ranked(t) # {}
  BY <1>2, <1>3, <1>6 DEF Upcoming, Cycles, Ranked
<1>8. ASSUME NEW u \in minute + 1 .. t - 1 PROVE Ranked(u) = {}
  <2>1. SUFFICES ASSUME NEW c \in candidates, c.at = u PROVE FALSE
    BY DEF Ranked
  <2>2. u \in Upcoming
    BY <1>1, <1>7, <2>1 DEF Upcoming, Cycles
  <2>3. QED
    BY <1>1, <1>6, <1>7, <2>2
<1>9. QED
  BY <1>1, <1>5, <1>7, <1>8

\* The account lived forward decides at the cycle as the replay does.
LEMMA CycleIsLived ==
    ASSUME ReplayIInv, phase = "execute", Upcoming # {}, NEW time, time = Cycle
    PROVE  Life[time] =
             [balance |-> Settled(time).balance,
              trade |-> IF Veto(Selected(time), Settled(time)) = "ALLOWED" THEN Selected(time)
                        ELSE Carried(time).trade,
              audit |-> audit \cup Audited(time, Settled(time),
                                           Veto(Selected(time), Settled(time)))]
<1>1. /\ time \in minute + 1 .. LastMinute + 1 /\ Ranked(time) # {}
      /\ \A t \in minute + 1 .. time - 1 : Ranked(t) = {}
  BY NextCycle
<1>2. minute \in Nat /\ LastMinute \in Nat
  BY TimesAssumption DEF ReplayIInv, ReplayShape
<1>3. time - 1 \in minute .. LastMinute + 1 /\ time \in 1 .. LastMinute + 1
  BY <1>1, <1>2
<1>4. Life[time - 1] = Carried(time - 1)
  BY <1>1, <1>3, NothingHappensBetween
<1>5. Life[time] = LivedMinute(Carried(time - 1), time)
  BY <1>3, <1>4, LifeIs
<1>6. Books(Carried(time - 1), time) = Settled(time)
      /\ Kept(Carried(time - 1), time) = Carried(time).trade
  BY <1>1, MinuteIsBooked
<1>7. Carried(time - 1).audit = audit
  BY DEF Carried
<1>8. QED
  BY <1>1, <1>5, <1>6, <1>7 DEF LivedMinute

\* What depends on the market alone.
LEMMA MarketKeeps ==
    ASSUME market' = market
    PROVE  /\ \A c : IsClean(c)' <=> IsClean(c)
           /\ \A c : Exits(c)' = Exits(c)
           /\ \A c, exit : Plans(c, exit)' <=> Plans(c, exit)
<1>1. \A c : IsClean(c)' <=> IsClean(c)
  BY DEF IsClean, Missing, Candle
<1>2. \A c : Exits(c)' = Exits(c)
  BY DEF Exits, Stops, Reaches, Candle
<1>3. ASSUME NEW c, NEW exit PROVE Plans(c, exit)' <=> Plans(c, exit)
  BY <1>2 DEF Plans, Result, Stops, Candle
<1>4. QED
  BY <1>1, <1>2, <1>3

-----------------------------------------------------------------------------
(* The actions. *)

LEMMA LoadKeeps ==
    ASSUME ReplayIInv, Load
    PROVE  ReplayIInv'
<1>1. /\ phase = "off" /\ market' \in Markets /\ phase' = "scan"
      /\ UNCHANGED <<minute, resetAfter, candidates, pending, account, audit>>
  BY DEF Load
<1>2. candidates = {} /\ minute = 0 /\ \A e \in Epics : resetAfter[e] = Nothing
  BY <1>1 DEF ReplayIInv, CandidatesAreKnown
<1>3. ReplayShape'
  BY <1>1 DEF ReplayIInv, ReplayShape
<1>4. GapsAreBehind(minute)'
  BY <1>1, <1>2 DEF GapsAreBehind, Minutes
<1>5. CandidatesAreKnown'
  BY <1>1, <1>2, <1>4 DEF CandidatesAreKnown
<1>6. ExecutionsAgree'
  BY <1>1 DEF ReplayIInv, ExecutionsAgree
<1>7. QED
  BY <1>3, <1>5, <1>6 DEF ReplayIInv

LEMMA ScanMinuteKeeps ==
    ASSUME ReplayIInv, ScanMinute
    PROVE  ReplayIInv'
<1>1. /\ phase = "scan" /\ minute <= LastMinute
      /\ resetAfter' = [e \in Epics |-> IF Missing(e, minute) THEN minute + 1 ELSE resetAfter[e]]
      /\ candidates' = candidates \cup Candidates(minute) /\ minute' = minute + 1
      /\ UNCHANGED <<market, phase, pending, account, audit>>
  BY DEF ScanMinute
<1>2. minute \in Minutes /\ minute \in Nat /\ LastMinute \in Nat /\ market \in Markets
  BY <1>1, TimesAssumption DEF ReplayIInv, ReplayShape, Minutes
<1>3. GapsAreBehind(minute) /\ \A c \in candidates : c.at <= minute
  BY <1>1 DEF ReplayIInv, CandidatesAreKnown
<1>4. \A c \in Candidates(minute) : c \in Trades /\ c.at = minute + 1 /\ IsClean(c)
  BY <1>2, <1>3, NewCandidates
<1>5. ReplayShape'
  BY <1>1, <1>2 DEF ReplayIInv, ReplayShape
<1>6. GapsAreBehind(minute)'
  <2>1. \A e \in Epics, g \in Minutes : Missing(e, g)' <=> Missing(e, g)
    BY <1>1 DEF Missing, Candle
  <2>2. ASSUME NEW e \in Epics
        PROVE  /\ resetAfter'[e] \in Nat \cup {Nothing}
               /\ resetAfter'[e] # Nothing => resetAfter'[e] <= minute + 1
    BY <1>1, <1>2, <1>3 DEF GapsAreBehind
  <2>3. ASSUME NEW e \in Epics, NEW g \in Minutes, g < minute + 1, Missing(e, g)
        PROVE  resetAfter'[e] # Nothing /\ resetAfter'[e] > g
    <3>1. g \in Nat
      BY DEF Minutes
    <3>2. CASE Missing(e, minute)
      <4>1. resetAfter'[e] = minute + 1 /\ minute + 1 \in Nat
        BY <1>1, <1>2, <3>2
      <4>2. QED
        BY <2>3, <3>1, <4>1, NothingAssumption
    <3>3. CASE ~Missing(e, minute)
      <4>1. g < minute /\ resetAfter'[e] = resetAfter[e]
        BY <1>1, <1>2, <2>3, <3>1, <3>3
      <4>2. QED
        BY <1>3, <2>3, <4>1 DEF GapsAreBehind
    <3>4. QED
      BY <3>2, <3>3
  <2>4. QED
    BY <1>1, <2>1, <2>2, <2>3 DEF GapsAreBehind
<1>7. \A c \in candidates' :
          c \in Trades /\ 1 <= c.at /\ c.at <= LastMinute + 1 /\ c.at <= minute' /\ IsClean(c)'
  <2>1. \A c \in candidates :
            c \in Trades /\ c.at \in Nat /\ 1 <= c.at /\ c.at <= LastMinute + 1 /\ IsClean(c)
    BY DEF ReplayIInv, CandidatesAreKnown, Trades
  <2>2. \A c : IsClean(c)' <=> IsClean(c)
    BY <1>1, MarketKeeps
  <2>3. QED
    BY <1>1, <1>2, <1>3, <1>4, <2>1, <2>2
<1>8. ASSUME NEW c \in candidates', NEW d \in candidates', c.epic = d.epic, c.at = d.at
      PROVE  c = d
  <2>1. CASE c \in candidates /\ d \in candidates
    BY <1>8, <2>1 DEF ReplayIInv, CandidatesAreKnown
  <2>2. CASE c \in Candidates(minute) /\ d \in Candidates(minute)
    <3>1. PICK x \in market.signals :
              /\ x.minute = minute
              /\ c = [epic |-> x.epic, at |-> minute + 1, side |-> x.side,
                      confidence |-> x.confidence, terms |-> x.terms,
                      reads |-> UNION {{span} \X ClosedWindow(x.epic, span, minute + 1) :
                                         span \in Resolutions}]
      BY <2>2 DEF Candidates
    <3>2. PICK y \in market.signals :
              /\ y.minute = minute
              /\ d = [epic |-> y.epic, at |-> minute + 1, side |-> y.side,
                      confidence |-> y.confidence, terms |-> y.terms,
                      reads |-> UNION {{span} \X ClosedWindow(y.epic, span, minute + 1) :
                                         span \in Resolutions}]
      BY <2>2 DEF Candidates
    <3>3. x.epic = c.epic /\ y.epic = d.epic
      BY <3>1, <3>2
    <3>4. x = y
      BY <1>2, <1>8, <3>1, <3>2, <3>3, MarketsAssumption
    <3>5. QED
      BY <3>1, <3>2, <3>4
  <2>3. CASE c \in candidates /\ d \in Candidates(minute)
    BY <1>2, <1>3, <1>4, <1>8, <2>3
  <2>4. CASE d \in candidates /\ c \in Candidates(minute)
    BY <1>2, <1>3, <1>4, <1>8, <2>4
  <2>5. QED
    BY <1>1, <1>8, <2>1, <2>2, <2>3, <2>4
<1>9. CandidatesAreKnown'
  BY <1>1, <1>6, <1>7, <1>8 DEF CandidatesAreKnown
<1>10. ExecutionsAgree'
  BY <1>1 DEF ReplayIInv, ExecutionsAgree
<1>11. QED
  BY <1>5, <1>9, <1>10 DEF ReplayIInv

LEMMA CandidatesStay ==
    ASSUME ReplayIInv, phase # "off", phase' \notin {"off", "scan"},
           market' = market, candidates' = candidates
    PROVE  CandidatesAreKnown'
<1>1. \A c : IsClean(c)' <=> IsClean(c)
  BY MarketKeeps
<1>2. QED
  BY <1>1 DEF ReplayIInv, CandidatesAreKnown

LEMMA EndScanKeeps ==
    ASSUME ReplayIInv, EndScan
    PROVE  ReplayIInv'
<1>1. /\ phase = "scan" /\ phase' = "execute" /\ minute' = 0
      /\ UNCHANGED <<market, resetAfter, candidates, pending, account, audit>>
  BY DEF EndScan
<1>2. ReplayShape'
  BY <1>1, TimesAssumption DEF ReplayIInv, ReplayShape
<1>3. CandidatesAreKnown'
  BY <1>1, CandidatesStay
<1>4. audit = {} /\ pending = Nothing /\ account = [balance |-> 0, held |-> Nothing]
  BY <1>1 DEF ReplayIInv, ExecutionsAgree
<1>5. Life'[0] = [balance |-> 0, trade |-> Nothing, audit |-> {}]
  BY <1>1, LifeIs, LifeKeeps
<1>6. BooksAgree(minute)'
  BY <1>1, <1>4, <1>5 DEF BooksAgree
<1>7. ExecutionsAgree'
  BY <1>1, <1>6 DEF ExecutionsAgree
<1>8. QED
  BY <1>2, <1>3, <1>7 DEF ReplayIInv

\* A position that is not yet over at the next cycle is still the lived trade.
LEMMA ExecuteVetoedKeeps ==
    ASSUME ReplayIInv, ExecuteVetoed
    PROVE  ReplayIInv'
<1>1. PICK time \in Cycles, veto \in {"MAXIMUM_SPREAD_EXCEEDED", "DAILY_LOSS_LIMIT",
                                      "TOTAL_POSITION_LIMIT", "POSITION_SIZE_BELOW_MINIMUM"} :
          /\ phase = "execute" /\ Upcoming # {} /\ time = Cycle
          /\ veto = Veto(Selected(time), Settled(time))
          /\ minute' = time
          /\ audit' = audit \cup Audited(time, Settled(time), veto)
          /\ UNCHANGED <<market, phase, resetAfter, candidates>>
          /\ account' = Settled(time)
          /\ pending' = IF Over(time) THEN Nothing ELSE pending
  BY DEF ExecuteVetoed, Execute
<1>2. time \in minute + 1 .. LastMinute + 1 /\ minute \in Nat /\ LastMinute \in Nat
  BY <1>1, NextCycle, TimesAssumption DEF ReplayIInv, ReplayShape
<1>3. ReplayShape'
  BY <1>1, <1>2, SettledType DEF ReplayIInv, ReplayShape
<1>4. CandidatesAreKnown'
  BY <1>1, CandidatesStay
<1>5. /\ Life' = Life
      /\ \A c : Exits(c)' = Exits(c)
      /\ \A c, exit : Plans(c, exit)' <=> Plans(c, exit)
  BY <1>1, LifeKeeps, MarketKeeps
<1>6. Life[time] = [balance |-> Settled(time).balance, trade |-> Carried(time).trade,
                    audit |-> audit \cup Audited(time, Settled(time), veto)]
  BY <1>1, CycleIsLived
<1>7. BooksAgree(minute)
  BY <1>1 DEF ReplayIInv, ExecutionsAgree
<1>8. PICK trade : trade = Life[minute].trade
  OBVIOUS
<1>9. Carried(time).trade = IF Over(time) THEN Nothing ELSE trade
  BY <1>8 DEF Carried
<1>10. BooksAgree(time)'
  <2>1. audit' = Life'[time].audit /\ account'.balance = Life'[time].balance
    BY <1>1, <1>5, <1>6
  <2>2. Life'[time].trade = IF Over(time) THEN Nothing ELSE trade
    BY <1>5, <1>6, <1>9
  <2>3. CASE Over(time)
    <3>1. pending' = Nothing /\ account'.held = Nothing /\ Life'[time].trade = Nothing
      BY <1>1, <2>2, <2>3 DEF Settled
    <3>2. QED
      BY <2>1, <3>1 DEF BooksAgree
  <2>4. CASE ~Over(time)
    <3>1. pending' = pending /\ account' = account /\ Life'[time].trade = trade
      BY <1>1, <2>2, <2>4 DEF Settled
    <3>2. CASE trade = Nothing
      <4>1. pending' = Nothing /\ account'.held = Nothing
        BY <1>7, <1>8, <3>1, <3>2 DEF BooksAgree
      <4>2. QED
        BY <2>1, <3>1, <3>2, <4>1 DEF BooksAgree
    <3>3. CASE trade # Nothing
      <4>1. /\ trade \in candidates /\ trade.at <= minute
            /\ account.held = trade.epic
            /\ pending # Nothing /\ Plans(trade, pending.exit)
        BY <1>7, <1>8, <3>3 DEF BooksAgree
      <4>2. trade.at \in Nat
        BY <4>1 DEF ReplayIInv, CandidatesAreKnown, Trades
      <4>3. trade.at <= time
        BY <1>2, <4>1, <4>2
      <4>4. ASSUME NEW x \in Exits(trade) PROVE time <= x
        <5>1. PICK y \in Exits(trade) :
                  /\ \A z \in Exits(trade) : y <= z
                  /\ pending.exit = [at |-> y + 1, result |-> Result(trade.side, Candle(trade.epic, y))]
          BY <4>1 DEF Plans
        <5>2. x \in Nat /\ y \in Nat /\ y <= x
          BY <5>1 DEF Exits, Minutes
        <5>3. pending.exit \in Planned
          BY <5>1, <5>2 DEF Planned, Result
        <5>4. pending.exit # Nothing /\ pending.exit.at = y + 1
          BY <5>1, <5>3, NothingAssumption
        <5>5. ~(y + 1 <= time)
          BY <2>4, <4>1, <5>4 DEF Over
        <5>6. QED
          BY <1>2, <5>2, <5>5
      <4>5. /\ trade \in candidates' /\ account'.held = trade.epic /\ pending' # Nothing
            /\ Plans(trade, pending.exit)' /\ \A x \in Exits(trade)' : time <= x
        BY <1>1, <1>5, <3>1, <4>1, <4>4
      <4>6. QED
        BY <2>1, <3>1, <3>3, <4>3, <4>5 DEF BooksAgree
    <3>4. QED
      BY <3>2, <3>3
  <2>5. QED
    BY <2>3, <2>4
<1>11. ExecutionsAgree'
  BY <1>1, <1>10 DEF ExecutionsAgree
<1>12. QED
  BY <1>3, <1>4, <1>11 DEF ReplayIInv

LEMMA ExecuteAcceptedKeeps ==
    ASSUME ReplayIInv, ExecuteAccepted
    PROVE  ReplayIInv'
<1>1. PICK time \in Cycles :
          /\ phase = "execute" /\ Upcoming # {} /\ time = Cycle
          /\ "ALLOWED" = Veto(Selected(time), Settled(time))
          /\ minute' = time
          /\ audit' = audit \cup Audited(time, Settled(time), "ALLOWED")
          /\ UNCHANGED <<market, phase, resetAfter, candidates>>
          /\ account' = [Settled(time) EXCEPT !.held = Selected(time).epic]
          /\ pending' = [epic |-> Selected(time).epic, exit |-> PlanExit(Selected(time))]
  BY DEF ExecuteAccepted, Execute
<1>2. /\ time \in minute + 1 .. LastMinute + 1 /\ minute \in Nat /\ LastMinute \in Nat
      /\ Ranked(time) # {}
  BY <1>1, NextCycle, TimesAssumption DEF ReplayIInv, ReplayShape
<1>3. PICK c : c = Selected(time)
  OBVIOUS
<1>4. \A d \in candidates : d \in Trades
  BY DEF ReplayIInv, CandidatesAreKnown
<1>5. c \in candidates /\ c.at = time /\ c \in Trades /\ c # Nothing /\ c.epic \in Epics
  <2>1. c \in Ranked(time)
    BY <1>2, <1>3, BestIsSelected DEF ReplayIInv, CandidatesAreKnown
  <2>2. QED
    BY <1>4, <2>1, NothingAssumption DEF Ranked, Trades
<1>6. PICK exit : exit = PlanExit(c)
  OBVIOUS
<1>7. Plans(c, exit) /\ exit \in Planned \cup {Nothing}
  <2>1. Plans(c, exit)
    BY <1>6, PlannedExit
  <2>2. \A x \in Exits(c) : x \in Nat
    BY DEF Exits, Minutes
  <2>3. QED
    BY <2>1, <2>2 DEF Plans, Planned, Result
<1>8. PICK was : was = Settled(time)
  OBVIOUS
<1>9. was \in [balance : Int, held : Epics \cup {Nothing}]
  BY <1>8, SettledType DEF ReplayIInv
<1>10. /\ account' = [was EXCEPT !.held = c.epic]
       /\ pending' = [epic |-> c.epic, exit |-> exit]
  BY <1>1, <1>3, <1>6, <1>8
<1>11. /\ account' \in [balance : Int, held : Epics \cup {Nothing}]
       /\ account'.held = c.epic /\ account'.balance = was.balance
  BY <1>5, <1>9, <1>10
<1>12. pending' \in [epic : Epics, exit : Planned \cup {Nothing}] /\ pending'.exit = exit
  BY <1>5, <1>7, <1>10
<1>13. ReplayShape'
  BY <1>1, <1>2, <1>11, <1>12 DEF ReplayIInv, ReplayShape
<1>14. CandidatesAreKnown'
  BY <1>1, CandidatesStay
<1>15. /\ Life' = Life
       /\ \A d : Exits(d)' = Exits(d)
       /\ \A d, e : Plans(d, e)' <=> Plans(d, e)
  BY <1>1, LifeKeeps, MarketKeeps
<1>16. Life[time] = [balance |-> Settled(time).balance, trade |-> c,
                     audit |-> audit \cup Audited(time, Settled(time), "ALLOWED")]
  BY <1>1, <1>3, CycleIsLived
<1>17. /\ audit' = Life'[time].audit /\ account'.balance = Life'[time].balance
       /\ Life'[time].trade = c
  BY <1>1, <1>8, <1>11, <1>15, <1>16
<1>18. pending' # Nothing
  BY <1>12, NothingAssumption
<1>19. \A x \in Exits(c) : time <= x
  BY <1>5 DEF Exits
<1>20. c.at <= time
  BY <1>2, <1>5
<1>21. BooksAgree(time)'
  BY <1>1, <1>5, <1>7, <1>11, <1>12, <1>15, <1>17, <1>18, <1>19, <1>20 DEF BooksAgree
<1>22. ExecutionsAgree'
  BY <1>1, <1>21 DEF ExecutionsAgree
<1>23. QED
  BY <1>13, <1>14, <1>22 DEF ReplayIInv

LEMMA EndReplayKeeps ==
    ASSUME ReplayIInv, EndReplay
    PROVE  ReplayIInv'
<1> DEFINE N == LastMinute + 1
<1>1. /\ phase = "execute" /\ Upcoming = {} /\ phase' = "done"
      /\ account' = Settled(N)
      /\ pending' = IF Over(N) THEN Nothing ELSE pending
      /\ UNCHANGED <<market, minute, resetAfter, candidates, audit>>
  BY DEF EndReplay
<1>2. minute \in Nat /\ LastMinute \in Nat /\ minute <= N
  BY TimesAssumption DEF ReplayIInv, ReplayShape
<1>3. ReplayShape'
  BY <1>1, SettledType DEF ReplayIInv, ReplayShape
<1>4. CandidatesAreKnown'
  BY <1>1, CandidatesStay
<1>5. \A t \in minute + 1 .. N : Ranked(t) = {}
  BY <1>1, <1>2 DEF Ranked, Upcoming, Cycles
<1>6. Life[N] = Carried(N)
  BY <1>1, <1>2, <1>5, NothingHappensBetween
<1>7. Lived' = Carried(N)
  BY <1>1, <1>6, LifeKeeps DEF Lived
<1>8. audit' = Lived'.audit /\ account'.balance = Lived'.balance
  BY <1>1, <1>7 DEF Carried
<1>9. account'.held = Nothing <=> Lived'.trade = Nothing
  <2>1. Lived'.trade = IF Over(N) THEN Nothing ELSE Life[minute].trade
    BY <1>7 DEF Carried
  <2>2. CASE Over(N)
    BY <1>1, <2>1, <2>2 DEF Settled
  <2>3. CASE ~Over(N)
    <3>1. account' = account /\ Lived'.trade = Life[minute].trade
      BY <1>1, <2>1, <2>3 DEF Settled
    <3>2. BooksAgree(minute)
      BY <1>1 DEF ReplayIInv, ExecutionsAgree
    <3>3. Life[minute].trade # Nothing => Life[minute].trade.epic # Nothing
      <4>1. Life[minute].trade # Nothing => Life[minute].trade \in Trades
        BY <3>2 DEF BooksAgree, ReplayIInv, CandidatesAreKnown
      <4>2. QED
        BY <4>1, NothingAssumption DEF Trades
    <3>4. QED
      BY <3>1, <3>2, <3>3 DEF BooksAgree
  <2>4. QED
    BY <2>2, <2>3
<1>10. ExecutionsAgree'
  BY <1>1, <1>8, <1>9 DEF ExecutionsAgree
<1>11. QED
  BY <1>3, <1>4, <1>10 DEF ReplayIInv

\* A replay that fails promises nothing but its candidates.
LEMMA FailureKeeps ==
    ASSUME ReplayIInv, RefuseGap \/ ExecuteUnpriced
    PROVE  ReplayIInv'
<1>1. /\ phase \in {"scan", "execute"} /\ phase' = "failed"
      /\ UNCHANGED <<market, minute, resetAfter, candidates, audit>>
  BY DEF RefuseGap, Abandoned, ExecuteUnpriced
<1>2. ReplayShape'
  <2>1. CASE RefuseGap
    BY <1>1, <2>1 DEF RefuseGap, Abandoned, ReplayIInv, ReplayShape
  <2>2. CASE ExecuteUnpriced
    BY <1>1, <2>2, SettledType DEF ExecuteUnpriced, ReplayIInv, ReplayShape
  <2>3. QED
    BY <2>1, <2>2
<1>3. CandidatesAreKnown'
  BY <1>1, CandidatesStay
<1>4. ExecutionsAgree'
  BY <1>1 DEF ExecutionsAgree
<1>5. QED
  BY <1>2, <1>3, <1>4 DEF ReplayIInv

LEMMA ReplayStandsStill ==
    ASSUME ReplayIInv, UNCHANGED replayVars
    PROVE  ReplayIInv'
<1>1. UNCHANGED <<market, phase, minute, resetAfter, candidates, pending, account, audit>>
  BY DEF replayVars
<1>2. /\ Life' = Life
      /\ \A c : IsClean(c)' <=> IsClean(c)
      /\ \A c : Exits(c)' = Exits(c)
      /\ \A c, exit : Plans(c, exit)' <=> Plans(c, exit)
  BY <1>1, LifeKeeps, MarketKeeps
<1>3. ReplayShape'
  BY <1>1 DEF ReplayIInv, ReplayShape
<1>4. GapsAreBehind(minute)' <=> GapsAreBehind(minute)
  BY <1>1 DEF GapsAreBehind, Missing, Candle
<1>5. CandidatesAreKnown'
  BY <1>1, <1>2, <1>4 DEF ReplayIInv, CandidatesAreKnown
<1>6. BooksAgree(minute)' <=> BooksAgree(minute)
  BY <1>1, <1>2 DEF BooksAgree
<1>7. ExecutionsAgree'
  BY <1>1, <1>2, <1>6 DEF ReplayIInv, ExecutionsAgree, Lived
<1>8. QED
  BY <1>3, <1>5, <1>7 DEF ReplayIInv

LEMMA ReplayStarts == ReplayOff => ReplayIInv
<1> SUFFICES ASSUME ReplayOff PROVE ReplayIInv
  OBVIOUS
<1>1. ReplayShape
  BY TimesAssumption DEF ReplayOff, ReplayShape
<1>2. CandidatesAreKnown
  BY DEF ReplayOff, CandidatesAreKnown
<1>3. ExecutionsAgree
  BY DEF ReplayOff, ExecutionsAgree
<1>4. QED
  BY <1>1, <1>2, <1>3 DEF ReplayIInv

LEMMA ReplayIInvIsEnough == ReplayIInv => ReplayIsCausal
<1> SUFFICES ASSUME ReplayIInv PROVE ReplayIsCausal
  OBVIOUS
<1>1. CandidatesAreClean
  BY DEF ReplayIInv, CandidatesAreKnown, IsClean, CandidatesAreClean
<1>2. phase = "execute" => audit \subseteq Lived.audit
  <2>1. minute \in 0 .. LastMinute + 1 /\ (phase = "execute" => audit = Life[minute].audit)
    BY DEF ReplayIInv, ReplayShape, ExecutionsAgree, BooksAgree
  <2>2. QED
    BY <2>1, LifeOnlyAdds
<1>3. ReplayIsLived
  BY <1>2 DEF ReplayIInv, ExecutionsAgree, ReplayIsLived
<1>4. QED
  BY <1>1, <1>3 DEF ReplayIsCausal

(* The windows stop at the decision and at the gap, and the executions,    *)
(* with exits planned in advance and booked late, are those of an account  *)
(* lived forward minute by minute, whatever the market and its signals     *)
(* (g3b_replay/data.py:188, g3b_replay/engine.py:366).                     *)
THEOREM ReplayKnowsNoFuture == ReplaySpec => []ReplayIsCausal
<1>1. ReplayOff => ReplayIInv
  BY ReplayStarts
<1>2. ReplayIInv /\ [ReplayNext]_replayVars => ReplayIInv'
  <2> SUFFICES ASSUME ReplayIInv, [ReplayNext]_replayVars PROVE ReplayIInv'
    OBVIOUS
  <2>1. CASE Load
    BY <2>1, LoadKeeps
  <2>2. CASE ScanMinute
    BY <2>2, ScanMinuteKeeps
  <2>3. CASE EndScan
    BY <2>3, EndScanKeeps
  <2>4. CASE ExecuteVetoed
    BY <2>4, ExecuteVetoedKeeps
  <2>5. CASE ExecuteAccepted
    BY <2>5, ExecuteAcceptedKeeps
  <2>6. CASE RefuseGap \/ ExecuteUnpriced
    BY <2>6, FailureKeeps
  <2>7. CASE EndReplay
    BY <2>7, EndReplayKeeps
  <2>8. CASE UNCHANGED replayVars
    BY <2>8, ReplayStandsStill
  <2>9. QED
    BY <2>1, <2>2, <2>3, <2>4, <2>5, <2>6, <2>7, <2>8 DEF ReplayNext
<1>3. QED
  BY <1>1, <1>2, ReplayIInvIsEnough, PTL DEF ReplaySpec

-----------------------------------------------------------------------------
(* The engine of the laboratory. *)

\* The slices a history can be cut into.
LabSlices == {s \in (1 .. Length) \X (1 .. Length) : s[1] <= s[2]}
LabTrades == [entry : Nat, exit : Nat, reason : {"STOP", "TARGET", "END_OF_DATA"}, gross : Int]

\* A trade opens where it is told, ends in its slice, and where it was closed is the
\* first candle that reaches its stop or its target.
LEMMA TradeIs ==
    ASSUME NEW h \in PossibleHistories, NEW entry \in 1 .. Length, NEW last \in 1 .. Length,
           entry <= last, NEW s
    PROVE  /\ Trade(h, entry, last, s) \in LabTrades
           /\ Trade(h, entry, last, s).entry = entry
           /\ entry <= Trade(h, entry, last, s).exit
           /\ Trade(h, entry, last, s).exit <= last
           /\ Hits(h, entry, last, s) = {} =>
                Trade(h, entry, last, s) =
                    [entry |-> entry, exit |-> last, reason |-> "END_OF_DATA",
                     gross |-> IF s = "SHORT" THEN -h.mark ELSE h.mark]
           /\ \A j \in Hits(h, entry, last, s) :
                (\A i \in Hits(h, entry, last, s) : j <= i) =>
                Trade(h, entry, last, s) =
                    IF StopHit(s, h.move[j])
                    THEN [entry |-> entry, exit |-> j, reason |-> "STOP", gross |-> Stop]
                    ELSE [entry |-> entry, exit |-> j, reason |-> "TARGET", gross |-> Target]
<1> DEFINE H == Hits(h, entry, last, s)
           x == CHOOSE j \in H : \A k \in H : j <= k
           Unhit == [entry |-> entry, exit |-> last, reason |-> "END_OF_DATA",
                   gross |-> IF s = "SHORT" THEN -h.mark ELSE h.mark]
           Closed(j) == IF StopHit(s, h.move[j])
                        THEN [entry |-> entry, exit |-> j, reason |-> "STOP", gross |-> Stop]
                        ELSE [entry |-> entry, exit |-> j, reason |-> "TARGET", gross |-> Target]
<1>1. H \subseteq entry .. last /\ H \subseteq Nat
  BY LengthsAssumption DEF Hits
<1>2. Trade(h, entry, last, s) = IF H = {} THEN Unhit ELSE Closed(x)
  BY DEF Trade
<1>3. h.mark \in Int /\ -h.mark \in Int
  BY DEF PossibleHistories
<1>4. Unhit \in LabTrades
  BY <1>3, LengthsAssumption DEF LabTrades
<1>5. ASSUME NEW j \in H
      PROVE  Closed(j) \in LabTrades /\ Closed(j).entry = entry /\ Closed(j).exit = j
  BY <1>1, LengthsAssumption DEF LabTrades, Stop, Target
<1> HIDE DEF H, Closed
<1>6. CASE H = {}
  <2>1. Trade(h, entry, last, s) = Unhit
    BY <1>2, <1>6
  <2>2. QED
    BY <1>4, <1>6, <2>1 DEF H
<1>7. CASE H # {}
  <2>1. \E j \in H : \A k \in H : j <= k
    BY <1>1, <1>7, LeastNatural
  <2> HIDE DEF x
  <2>2. x \in H /\ \A k \in H : x <= k
    BY <2>1 DEF x
  <2>3. Trade(h, entry, last, s) = Closed(x)
    BY <1>2, <1>7
  <2>4. \A j \in H : (\A i \in H : j <= i) => j = x
    BY <1>1, <2>2
  <2>5. Trade(h, entry, last, s) \in LabTrades /\ Trade(h, entry, last, s).entry = entry
        /\ entry <= Trade(h, entry, last, s).exit /\ Trade(h, entry, last, s).exit <= last
    BY <1>1, <1>5, <2>2, <2>3
  <2>6. \A j \in H : (\A i \in H : j <= i) => Trade(h, entry, last, s) = Closed(j)
    BY <2>3, <2>4
  <2>7. QED
    BY <1>7, <2>5, <2>6 DEF H, Closed
<1>8. QED
  BY <1>6, <1>7

\* One step of the engine's loop, given what it finds later on.
SimStep(g, h, slice, v, i) ==
    IF i >= slice[2] THEN <<>>
    ELSE IF ~Enters(h, slice, v, i) THEN g[i + 1]
    ELSE <<Trade(h, i + 1, slice[2], Signal(h, slice, v, i))>>
            \o g[Trade(h, i + 1, slice[2], Signal(h, slice, v, i)).exit + 1]

\* What the engine does at a candle depends on later candles only.
LEMMA SimStepLooksOn ==
    ASSUME NEW h \in PossibleHistories, NEW slice \in LabSlices, NEW v \in Range(Variants),
           NEW i \in Nat, NEW f, NEW g, \A j \in Nat : j > i => f[j] = g[j]
    PROVE  SimStep(f, h, slice, v, i) = SimStep(g, h, slice, v, i)
<1>1. CASE i >= slice[2]
  BY <1>1 DEF SimStep
<1>2. CASE ~(i >= slice[2])
  <2> DEFINE t == Trade(h, i + 1, slice[2], Signal(h, slice, v, i))
  <2>1. slice[2] \in 1 .. Length /\ i + 1 \in 1 .. Length /\ i + 1 <= slice[2]
    BY <1>2, LengthsAssumption DEF LabSlices
  <2>3. t \in LabTrades /\ i + 1 <= t.exit
    BY <2>1, TradeIs
  <2>4. t.exit + 1 \in Nat /\ t.exit + 1 > i /\ i + 1 \in Nat /\ i + 1 > i
    BY <2>3 DEF LabTrades
  <2>5. f[i + 1] = g[i + 1] /\ f[t.exit + 1] = g[t.exit + 1]
    BY <2>4
  <2>6. QED
    BY <2>5 DEF SimStep
<1>3. QED
  BY <1>1, <1>2

\* The loop of the engine is well defined.
LEMMA SimulationIs ==
    ASSUME NEW h \in PossibleHistories, NEW slice \in LabSlices, NEW v \in Range(Variants)
    PROVE  \A i \in Nat :
              Simulation(h, slice, v)[i] = SimStep(Simulation(h, slice, v), h, slice, v, i)
<1> DEFINE last == slice[2]
           ValueOf(g, n, i) == IF i + n >= last THEN SimStep(g, h, slice, v, i) ELSE <<>>
           Done == {n \in Nat : \E g : g = [i \in Nat |-> ValueOf(g, n, i)]}
<1>1. last \in Nat
  BY LengthsAssumption DEF LabSlices
<1>2. 0 \in Done
  <2>1. PICK g : g = [i \in Nat |-> <<>>]
    OBVIOUS
  <2>2. \A i \in Nat : ValueOf(g, 0, i) = <<>>
    BY <1>1 DEF SimStep
  <2>3. g = [i \in Nat |-> ValueOf(g, 0, i)]
    BY <2>1, <2>2
  <2>4. QED
    BY <2>3
<1>3. ASSUME NEW n \in Nat, n \in Done PROVE n + 1 \in Done
  <2>1. PICK g : g = [i \in Nat |-> ValueOf(g, n, i)]
    BY <1>3
  <2>2. PICK f : f = [i \in Nat |-> ValueOf(g, n + 1, i)]
    OBVIOUS
  <2>3. ASSUME NEW i \in Nat PROVE f[i] = ValueOf(f, n + 1, i)
    <3>1. CASE i + (n + 1) >= last
      <4>1. ASSUME NEW j \in Nat, j > i PROVE f[j] = g[j]
        <5>1. j + n >= last /\ j + (n + 1) >= last
          BY <1>1, <3>1, <4>1
        <5>2. f[j] = ValueOf(g, n + 1, j) /\ g[j] = ValueOf(g, n, j)
          BY <2>1, <2>2
        <5>3. QED
          BY <5>1, <5>2
      <4>2. SimStep(f, h, slice, v, i) = SimStep(g, h, slice, v, i)
        BY <4>1, SimStepLooksOn
      <4>3. f[i] = ValueOf(g, n + 1, i)
        BY <2>2
      <4>4. QED
        BY <3>1, <4>2, <4>3
    <3>2. CASE ~(i + (n + 1) >= last)
      BY <2>2, <3>2
    <3>3. QED
      BY <3>1, <3>2
  <2> HIDE DEF ValueOf
  <2>4. f = [i \in Nat |-> ValueOf(f, n + 1, i)]
    BY <2>2, <2>3
  <2>5. QED
    BY <2>4
<1>4. last \in Done
  <2> HIDE DEF Done
  <2>1. QED
    BY <1>1, <1>2, <1>3, NaturalsFrom
<1>5. PICK g : g = [i \in Nat |-> ValueOf(g, last, i)]
  BY <1>4
<1>6. \A f : [i \in Nat |-> ValueOf(f, last, i)] = [i \in Nat |-> SimStep(f, h, slice, v, i)]
  BY <1>1
<1> DEFINE F(f) == [i \in Nat |-> SimStep(f, h, slice, v, i)]
<1>7. Simulation(h, slice, v) = CHOOSE f : f = F(f)
  BY DEF Simulation, SimStep
<1>8. \E f : f = F(f)
  BY <1>5, <1>6
<1> HIDE DEF F
<1>9. Simulation(h, slice, v) = F(Simulation(h, slice, v))
  BY <1>7, <1>8
<1>10. QED
  BY <1>9 DEF F

\* One turn of the loop, in its three cases.
LEMMA SimulationTurns ==
    ASSUME NEW h \in PossibleHistories, NEW slice \in LabSlices, NEW v \in Range(Variants),
           NEW i \in Nat
    PROVE  /\ i >= slice[2] => Simulation(h, slice, v)[i] = <<>>
           /\ i < slice[2] /\ ~Enters(h, slice, v, i) =>
                Simulation(h, slice, v)[i] = Simulation(h, slice, v)[i + 1]
           /\ \A t : /\ i < slice[2] /\ Enters(h, slice, v, i)
                     /\ t = Trade(h, i + 1, slice[2], Signal(h, slice, v, i))
                     => Simulation(h, slice, v)[i] = <<t>> \o Simulation(h, slice, v)[t.exit + 1]
<1>1. slice[2] \in Nat
  BY LengthsAssumption DEF LabSlices
<1>2. Simulation(h, slice, v)[i] = SimStep(Simulation(h, slice, v), h, slice, v, i)
  BY SimulationIs
<1>3. QED
  BY <1>1, <1>2 DEF SimStep

\* Induction from the end of a slice back to its start.
LEMMA Backwards ==
    ASSUME NEW S \in SUBSET Nat, NEW last \in Nat, \A i \in Nat : i >= last => i \in S,
           \A i \in Nat : i < last /\ (\A j \in Nat : j > i => j \in S) => i \in S
    PROVE  S = Nat
<1> DEFINE Done == {n \in Nat : \A i \in Nat : i + n >= last => i \in S}
<1>1. 0 \in Done
  OBVIOUS
<1>2. ASSUME NEW n \in Nat, n \in Done PROVE n + 1 \in Done
  <2>1. ASSUME NEW i \in Nat, i + (n + 1) >= last PROVE i \in S
    <3>1. \A j \in Nat : j > i => j + n >= last
      BY <2>1
    <3>2. \A j \in Nat : j > i => j \in S
      BY <1>2, <3>1
    <3>3. QED
      BY <3>2
  <2>2. QED
    BY <2>1
<1>3. last \in Done
  <2> HIDE DEF Done
  <2>1. QED
    BY <1>1, <1>2, NaturalsFrom
<1>4. \A i \in Nat : i \in S
  BY <1>3
<1>5. QED
  BY <1>4

LEMMA Prepended ==
    ASSUME NEW T, NEW t \in T, NEW r \in Seq(T)
    PROVE  /\ <<t>> \o r \in Seq(T) /\ Len(<<t>> \o r) = Len(r) + 1
           /\ (<<t>> \o r)[1] = t
           /\ \A k \in 2 .. Len(r) + 1 : (<<t>> \o r)[k] = r[k - 1]
OBVIOUS

\* A trade of the loop that starts at candle i: it was entered after a signal that allows
\* it, and ends inside the slice.
Fits(h, slice, v, i, t) ==
    /\ t \in LabTrades
    /\ i < t.entry /\ t.entry <= t.exit /\ t.exit <= slice[2]
    /\ Enters(h, slice, v, t.entry - 1)

\* One at a time.
InTurn(trades) == \A k \in 2 .. Len(trades) : trades[k - 1].exit < trades[k].entry

\* The trade that the loop takes at a candle, and the turn that takes it.
Taken(h, slice, v, i) == Trade(h, i + 1, slice[2], Signal(h, slice, v, i))

\* What is taken is a trade that opens on the next candle and comes before all that follows.
LEMMA TakingTurn ==
    ASSUME NEW h \in PossibleHistories, NEW slice \in LabSlices, NEW v \in Range(Variants),
           NEW i \in Nat, i < slice[2], Enters(h, slice, v, i)
    PROVE  /\ Taken(h, slice, v, i) \in LabTrades
           /\ Taken(h, slice, v, i).entry = i + 1
           /\ i + 1 <= Taken(h, slice, v, i).exit
           /\ Taken(h, slice, v, i).exit <= slice[2]
           /\ Taken(h, slice, v, i).exit \in Nat
           /\ Simulation(h, slice, v)[i] = <<Taken(h, slice, v, i)>>
                                 \o Simulation(h, slice, v)[Taken(h, slice, v, i).exit + 1]
<1>1. PICK last, s, t : /\ last = slice[2] /\ s = Signal(h, slice, v, i)
                        /\ t = Trade(h, i + 1, last, s)
  OBVIOUS
<1>2. last \in 1 .. Length /\ i + 1 \in 1 .. Length /\ i + 1 <= last
  BY <1>1, LengthsAssumption DEF LabSlices
<1>3. t = Trade(h, i + 1, last, s)
  BY <1>1
<1>4. t \in LabTrades /\ t.entry = i + 1 /\ i + 1 <= t.exit /\ t.exit <= last
  BY <1>2, <1>3, TradeIs
<1>5. Simulation(h, slice, v)[i] = <<t>> \o Simulation(h, slice, v)[t.exit + 1]
  BY SMTT(30), <1>1, SimulationTurns
<1>6. t.exit \in Nat
  BY <1>4 DEF LabTrades
<1>7. Taken(h, slice, v, i) = t
  BY <1>1 DEF Taken
<1>8. QED
  BY <1>1, <1>4, <1>5, <1>6, <1>7

\* What is simulated are trades that fit the slice, one after the other.
LEMMA SimulationTrades ==
    ASSUME NEW h \in PossibleHistories, NEW slice \in LabSlices, NEW v \in Range(Variants),
           NEW i \in Nat
    PROVE  /\ Simulation(h, slice, v)[i] \in Seq(LabTrades)
           /\ \A k \in 1 .. Len(Simulation(h, slice, v)[i]) :
                Fits(h, slice, v, i, Simulation(h, slice, v)[i][k])
           /\ InTurn(Simulation(h, slice, v)[i])
<1> DEFINE F == Simulation(h, slice, v)
           Good(n) == /\ F[n] \in Seq(LabTrades)
                      /\ \A k \in 1 .. Len(F[n]) : Fits(h, slice, v, n, F[n][k])
                      /\ InTurn(F[n])
           S == {n \in Nat : Good(n)}
<1>1. slice[2] \in Nat /\ slice[2] \in 1 .. Length /\ Length \in Nat
  BY LengthsAssumption DEF LabSlices
<1> HIDE DEF F, S
<1>2. ASSUME NEW n \in Nat, n >= slice[2] PROVE n \in S
  <2>1. F[n] = <<>>
    BY <1>2, SimulationTurns DEF F
  <2>2. F[n] \in Seq(LabTrades) /\ Len(F[n]) = 0
    BY <2>1
  <2>3. QED
    BY <2>2 DEF InTurn, S
<1>3. ASSUME NEW n \in Nat, n < slice[2], \A j \in Nat : j > n => j \in S PROVE n \in S
  <2>1. CASE ~Enters(h, slice, v, n)
    <3>1. F[n] = F[n + 1] /\ n + 1 \in S
      <4>1. F[n] = F[n + 1]
        BY <1>3, <2>1, SimulationTurns DEF F
      <4>2. QED
        BY <1>3, <4>1
    <3>2. \A t : Fits(h, slice, v, n + 1, t) => Fits(h, slice, v, n, t)
      BY DEF Fits, LabTrades
    <3>3. QED
      BY <3>1, <3>2 DEF S
  <2>2. CASE Enters(h, slice, v, n)
    <3>1. PICK t : t = Taken(h, slice, v, n)
      OBVIOUS
    <3>2. /\ t \in LabTrades /\ t.entry = n + 1 /\ n + 1 <= t.exit /\ t.exit <= slice[2]
          /\ Simulation(h, slice, v)[n] = <<t>> \o Simulation(h, slice, v)[t.exit + 1]
      BY <1>3, <2>2, <3>1, TakingTurn
    <3>3. t \in LabTrades /\ t.entry = n + 1 /\ n + 1 <= t.exit /\ t.exit <= slice[2]
      BY <3>2
    <3>4. t.exit \in Nat /\ t.exit + 1 \in Nat /\ t.exit + 1 > n
      BY <3>3 DEF LabTrades
    <3>5. PICK r : r = F[t.exit + 1]
      OBVIOUS
    <3>6. F[n] = <<t>> \o r
      BY <3>2, <3>5 DEF F
    <3>7. r \in Seq(LabTrades) /\ InTurn(r)
          /\ \A k \in 1 .. Len(r) : Fits(h, slice, v, t.exit + 1, r[k])
      BY <1>3, <3>4, <3>5 DEF S
    <3>8. /\ F[n] \in Seq(LabTrades) /\ Len(F[n]) = Len(r) + 1
          /\ F[n][1] = t /\ \A k \in 2 .. Len(r) + 1 : F[n][k] = r[k - 1]
      BY <3>3, <3>6, <3>7, Prepended
    <3>9. Fits(h, slice, v, n, t)
      BY <2>2, <3>3, <3>4 DEF Fits
    <3>10. \A u : Fits(h, slice, v, t.exit + 1, u) => Fits(h, slice, v, n, u) /\ t.exit < u.entry
      BY <3>4 DEF Fits, LabTrades
    <3>11. Len(r) \in Nat
      BY <3>7
    <3>12. ASSUME NEW k \in 1 .. Len(F[n]) PROVE Fits(h, slice, v, n, F[n][k])
      <4>1. CASE k = 1
        BY <3>8, <3>9, <4>1
      <4>2. CASE k # 1
        <5>1. k - 1 \in 1 .. Len(r) /\ F[n][k] = r[k - 1]
          BY <3>8, <3>11, <4>2
        <5>2. QED
          BY <3>7, <3>10, <5>1
      <4>3. QED
        BY <4>1, <4>2
    <3>13. ASSUME NEW k \in 2 .. Len(F[n]) PROVE F[n][k - 1].exit < F[n][k].entry
      <4>1. k - 1 \in 1 .. Len(r) /\ F[n][k] = r[k - 1]
        BY <3>8, <3>11
      <4>2. CASE k = 2
        BY <3>7, <3>8, <3>10, <4>1, <4>2
      <4>3. CASE k # 2
        <5>1. PICK j : j = k - 1
          OBVIOUS
        <5>2. j \in 2 .. Len(r) /\ j \in 2 .. Len(r) + 1
          BY <3>8, <3>11, <4>1, <4>3, <5>1
        <5>3. F[n][j] = r[j - 1]
          BY <3>8, <5>2
        <5>4. r[j - 1].exit < r[j].entry
          BY <3>7, <5>2 DEF InTurn
        <5>5. QED
          BY <4>1, <5>1, <5>3, <5>4
      <4>4. QED
        BY <4>2, <4>3
    <3>14. QED
      BY <3>8, <3>12, <3>13 DEF InTurn, S
  <2>3. QED
    BY <2>1, <2>2
<1>4. S = Nat
  <2>1. \A n \in Nat : n >= slice[2] => n \in S
    BY <1>2
  <2>2. \A n \in Nat : n < slice[2] /\ (\A j \in Nat : j > n => j \in S) => n \in S
    BY <1>3
  <2>3. PICK last : last = slice[2]
    OBVIOUS
  <2>4. last \in Nat
    BY <1>1, <2>3
  <2>5. \A n \in Nat : n >= last => n \in S
    BY <2>1, <2>3
  <2>6. \A n \in Nat : n < last /\ (\A j \in Nat : j > n => j \in S) => n \in S
    BY <2>2, <2>3
  <2>7. S \in SUBSET Nat
    BY DEF S
  <2>8. QED
    BY <2>4, <2>5, <2>6, <2>7, Backwards
<1>5. QED
  BY <1>4 DEF F, S

\* Two histories that are the same up to a candle.
Agree(h, k, last) ==
    /\ k.shut = h.shut /\ k.mark = h.mark
    /\ \A j \in 1 .. last : k.move[j] = h.move[j]
    /\ \A v \in Range(Variants) : \A j \in 1 .. last : k.signal[v][j] = h.signal[v][j]

\* What is known before a candle is a history, and agrees with the history up to it.
LEMMA KnownAgrees ==
    ASSUME NEW h \in PossibleHistories, NEW n \in Nat, NEW last \in 1 .. Length, last < n
    PROVE  KnownBefore(h, n) \in PossibleHistories /\ Agree(h, KnownBefore(h, n), last)
<1> DEFINE mv == [j \in DOMAIN h.move |-> IF j < n THEN h.move[j] ELSE "both"]
           sg == [v \in DOMAIN h.signal |->
                    [j \in DOMAIN h.signal[v] |-> IF j < n THEN h.signal[v][j] ELSE "none"]]
<1>1. /\ h.move \in [1 .. Length -> Moves]
      /\ h.signal \in [Range(Variants) -> [1 .. Length -> Advice]]
      /\ h = [move |-> h.move, signal |-> h.signal, shut |-> h.shut, gaps |-> h.gaps,
              mark |-> h.mark]
      /\ h.shut \in SUBSET Nat /\ h.gaps \in SUBSET (2 .. Length) /\ h.mark \in Int
  BY DEF PossibleHistories
<1>2. KnownBefore(h, n) = [move |-> mv, signal |-> sg, shut |-> h.shut, gaps |-> h.gaps,
                           mark |-> h.mark]
  <2>1. PICK m, g : m = mv /\ g = sg
    OBVIOUS
  <2>2. KnownBefore(h, n) = [h EXCEPT !.move = mv, !.signal = sg]
    BY DEF KnownBefore
  <2> HIDE DEF mv, sg
  <2>3. KnownBefore(h, n) = [h EXCEPT !.move = m, !.signal = g]
    BY <2>1, <2>2
  <2>4. PICK p : p = [h EXCEPT !.move = m]
    OBVIOUS
  <2>5. p = [move |-> m, signal |-> h.signal, shut |-> h.shut, gaps |-> h.gaps, mark |-> h.mark]
    BY <1>1, <2>4
  <2>6. KnownBefore(h, n) = [p EXCEPT !.signal = g]
    BY <2>3, <2>4
  <2>7. QED
    BY <2>1, <2>5, <2>6
<1>3. mv \in [1 .. Length -> Moves]
  BY <1>1 DEF Moves
<1>4. \A v \in Range(Variants) : DOMAIN h.signal[v] = 1 .. Length
  BY <1>1
<1>5. sg \in [Range(Variants) -> [1 .. Length -> Advice]]
  <2>1. DOMAIN h.signal = Range(Variants)
    BY <1>1
  <2>2. ASSUME NEW v \in Range(Variants)
        PROVE  [j \in DOMAIN h.signal[v] |-> IF j < n THEN h.signal[v][j] ELSE "none"]
               \in [1 .. Length -> Advice]
    <3>1. h.signal[v] \in [1 .. Length -> Advice]
      BY <1>1
    <3>2. PICK f : f = h.signal[v]
      OBVIOUS
    <3>3. f \in [1 .. Length -> Advice]
      BY <3>1, <3>2
    <3>4. [j \in DOMAIN f |-> IF j < n THEN f[j] ELSE "none"] \in [1 .. Length -> Advice]
      BY <3>3 DEF Advice
    <3>5. QED
      BY <3>2, <3>4
  <2>3. QED
    BY <2>1, <2>2
<1>6. \A j \in 1 .. last : j \in 1 .. Length /\ j < n
  BY LengthsAssumption
<1>7. \A j \in 1 .. last : mv[j] = h.move[j]
  BY <1>1, <1>6
<1>8. \A v \in Range(Variants) : \A j \in 1 .. last : sg[v][j] = h.signal[v][j]
  BY <1>1, <1>4, <1>6
<1> HIDE DEF mv, sg
<1>9. QED
  BY <1>1, <1>2, <1>3, <1>5, <1>7, <1>8 DEF PossibleHistories, Agree

\* A trade that was closed has touched its stop or its target for the first time.
LEMMA TradeClosed ==
    ASSUME NEW h \in PossibleHistories, NEW entry \in 1 .. Length, NEW last \in 1 .. Length,
           entry <= last, NEW s, NEW t, t = Trade(h, entry, last, s),
           t.reason # "END_OF_DATA"
    PROVE  t.exit \in Hits(h, entry, last, s)
           /\ \A j \in Hits(h, entry, last, s) : t.exit <= j
<1> DEFINE H == Hits(h, entry, last, s)
<1>1. H # {}
  BY TradeIs
<1>2. H \subseteq Nat
  BY LengthsAssumption DEF Hits
<1> HIDE DEF H
<1>3. PICK j \in H : \A i \in H : j <= i
  BY <1>1, <1>2, LeastNatural
<1>4. Trade(h, entry, last, s) =
         IF StopHit(s, h.move[j])
         THEN [entry |-> entry, exit |-> j, reason |-> "STOP", gross |-> Stop]
         ELSE [entry |-> entry, exit |-> j, reason |-> "TARGET", gross |-> Target]
  <2>1. j \in Hits(h, entry, last, s) /\ \A i \in Hits(h, entry, last, s) : j <= i
    BY <1>3 DEF H
  <2>2. QED
    BY <2>1, TradeIs
<1>5. t.exit = j
  BY <1>4
<1>6. QED
  BY <1>3, <1>5 DEF H

\* It is the same in a history that agrees up to where the slice ends.
LEMMA TradeAgrees ==
    ASSUME NEW h \in PossibleHistories, NEW k \in PossibleHistories,
           NEW entry \in 1 .. Length, NEW last \in 1 .. Length,
           entry <= last, NEW s, Agree(h, k, last)
    PROVE  Trade(k, entry, last, s) = Trade(h, entry, last, s)
<1> DEFINE H == Hits(h, entry, last, s)
<1>1. \A j \in entry .. last : k.move[j] = h.move[j]
  BY LengthsAssumption DEF Agree
<1>2. Hits(k, entry, last, s) = H
  BY <1>1 DEF Hits
<1>3. H \subseteq entry .. last /\ H \subseteq Nat
  BY LengthsAssumption DEF Hits
<1>4. CASE H = {}
  BY <1>2, <1>4, TradeIs DEF Agree
<1>5. CASE H # {}
  <2> HIDE DEF H
  <2>1. PICK j \in H : \A i \in H : j <= i
    BY <1>3, <1>5, LeastNatural
  <2> DEFINE Closed(g) == IF StopHit(s, g.move[j])
               THEN [entry |-> entry, exit |-> j, reason |-> "STOP", gross |-> Stop]
               ELSE [entry |-> entry, exit |-> j, reason |-> "TARGET", gross |-> Target]
  <2>2. Trade(h, entry, last, s) = Closed(h)
    <3>1. j \in Hits(h, entry, last, s) /\ \A i \in Hits(h, entry, last, s) : j <= i
      BY <2>1 DEF H
    <3>2. QED
      BY <3>1, TradeIs
  <2>3. Trade(k, entry, last, s) = Closed(k)
    <3>1. j \in Hits(k, entry, last, s) /\ \A i \in Hits(k, entry, last, s) : j <= i
      BY <1>2, <2>1
    <3>2. QED
      BY <3>1, TradeIs
  <2>4. k.move[j] = h.move[j]
    BY <1>1, <1>3, <2>1
  <2>5. QED
    BY <2>2, <2>3, <2>4
<1>6. QED
  BY <1>4, <1>5

\* A closed trade is the same in a history that agrees up to a candle it is closed by.
LEMMA ClosedTradeAgrees ==
    ASSUME NEW h \in PossibleHistories, NEW k \in PossibleHistories,
           NEW entry \in 1 .. Length, NEW last \in 1 .. Length, NEW x \in 1 .. Length,
           entry <= x, x <= last, NEW s, Agree(h, k, x),
           NEW t, t = Trade(h, entry, last, s), t.reason # "END_OF_DATA", t.exit <= x
    PROVE  Trade(k, entry, x, s) = t
<1>1. Trade(k, entry, x, s) = Trade(h, entry, x, s)
  BY TradeAgrees
<1>2. entry <= last
  BY LengthsAssumption
<1>3. PICK j : j = t.exit
  OBVIOUS
<1>4. j \in Hits(h, entry, last, s) /\ \A i \in Hits(h, entry, last, s) : j <= i
  BY <1>2, <1>3, TradeClosed
<1>5. j \in Hits(h, entry, x, s) /\ \A i \in Hits(h, entry, x, s) : j <= i
  BY <1>3, <1>4, LengthsAssumption DEF Hits
<1> DEFINE Closed == IF StopHit(s, h.move[j])
               THEN [entry |-> entry, exit |-> j, reason |-> "STOP", gross |-> Stop]
               ELSE [entry |-> entry, exit |-> j, reason |-> "TARGET", gross |-> Target]
<1>6. Trade(h, entry, last, s) = Closed
  BY <1>2, <1>4, TradeIs
<1>7. Trade(h, entry, x, s) = Closed
  BY <1>5, TradeIs
<1>8. QED
  BY <1>1, <1>6, <1>7

\* A trade that ends before its slice does was closed.
LEMMA EndsWhenClosed ==
    ASSUME NEW h \in PossibleHistories, NEW entry \in 1 .. Length, NEW last \in 1 .. Length,
           entry <= last, NEW s, NEW t, t = Trade(h, entry, last, s), t.exit < last
    PROVE  t.reason # "END_OF_DATA"
<1> DEFINE H == Hits(h, entry, last, s)
<1>1. CASE H = {}
  <2>1. t = [entry |-> entry, exit |-> last, reason |-> "END_OF_DATA",
             gross |-> IF s = "SHORT" THEN -h.mark ELSE h.mark]
    BY <1>1, TradeIs
  <2>2. t.exit = last
    BY <2>1
  <2>3. QED
    BY <2>2, LengthsAssumption
<1>2. CASE H # {}
  <2>1. H \subseteq Nat
    BY LengthsAssumption DEF Hits
  <2> HIDE DEF H
  <2>2. PICK j \in H : \A i \in H : j <= i
    BY <1>2, <2>1, LeastNatural
  <2>3. t = IF StopHit(s, h.move[j])
            THEN [entry |-> entry, exit |-> j, reason |-> "STOP", gross |-> Stop]
            ELSE [entry |-> entry, exit |-> j, reason |-> "TARGET", gross |-> Target]
    BY <2>2, TradeIs DEF H
  <2>4. QED
    BY <2>3
<1>3. QED
  BY <1>1, <1>2

\* Histories that agree up to a candle enter alike there.
LEMMA EntersAgrees ==
    ASSUME NEW h \in PossibleHistories, NEW k \in PossibleHistories,
           NEW slice \in LabSlices, NEW cut \in LabSlices, cut[1] = slice[1],
           NEW v \in Range(Variants), NEW last \in Nat, Agree(h, k, last),
           NEW i \in 1 .. last
    PROVE  /\ Signal(k, cut, v, i) = Signal(h, slice, v, i)
           /\ Enters(k, cut, v, i) <=> Enters(h, slice, v, i)
<1>1. k.signal[v][i] = h.signal[v][i] /\ k.shut = h.shut
  BY DEF Agree
<1>2. Signal(k, cut, v, i) = Signal(h, slice, v, i)
  BY <1>1 DEF Signal
<1>3. QED
  BY <1>1, <1>2 DEF Enters

\* The engine finds the same trades in histories that agree up to the end of the slice.
LEMMA SimulationAgrees ==
    ASSUME NEW h \in PossibleHistories, NEW k \in PossibleHistories,
           NEW slice \in LabSlices, NEW v \in Range(Variants), Agree(h, k, slice[2]),
           NEW i \in Nat \ {0}
    PROVE  Simulation(k, slice, v)[i] = Simulation(h, slice, v)[i]
<1> DEFINE F == Simulation(h, slice, v)
           G == Simulation(k, slice, v)
           S == {n \in Nat : n = 0 \/ G[n] = F[n]}
<1>1. PICK last : last = slice[2]
  OBVIOUS
<1>2. last \in Nat /\ last \in 1 .. Length /\ Length \in Nat
  BY <1>1, LengthsAssumption DEF LabSlices
<1> HIDE DEF F, G, S
<1>3. ASSUME NEW n \in Nat, n >= last PROVE n \in S
  <2>1. F[n] = <<>> /\ G[n] = <<>>
    BY <1>1, <1>3, SimulationTurns DEF F, G
  <2>2. QED
    BY <2>1 DEF S
<1>4. ASSUME NEW n \in Nat, n < last, \A j \in Nat : j > n => j \in S PROVE n \in S
  <2>1. CASE n = 0
    BY <2>1 DEF S
  <2>2. CASE n # 0
    <3>1. n \in 1 .. last /\ n + 1 \in 1 .. Length /\ n + 1 <= last
      BY <1>2, <1>4, <2>2
    <3>2. Agree(h, k, last)
      BY <1>1
    <3>3. /\ Signal(k, slice, v, n) = Signal(h, slice, v, n)
          /\ Enters(k, slice, v, n) <=> Enters(h, slice, v, n)
      BY <1>2, <3>1, <3>2, EntersAgrees
    <3>4. CASE ~Enters(h, slice, v, n)
      <4>1. F[n] = F[n + 1] /\ G[n] = G[n + 1]
        BY <1>1, <1>4, <3>3, <3>4, SimulationTurns DEF F, G
      <4>2. n + 1 \in S
        BY <1>4
      <4>3. QED
        BY <4>1, <4>2 DEF S
    <3>5. CASE Enters(h, slice, v, n)
      <4>1. PICK s : s = Signal(h, slice, v, n)
        OBVIOUS
      <4>2. PICK t : t = Trade(h, n + 1, last, s)
        OBVIOUS
      <4>3. Trade(k, n + 1, last, s) = t
        BY <1>2, <3>1, <3>2, <4>2, TradeAgrees
      <4>4. F[n] = <<t>> \o F[t.exit + 1]
        BY <1>1, <1>4, <3>5, <4>1, <4>2, SimulationTurns DEF F
      <4>5. G[n] = <<t>> \o G[t.exit + 1]
        BY SMTT(30), <1>1, <1>4, <3>3, <3>5, <4>1, <4>3, SimulationTurns DEF G
      <4>6. t \in LabTrades /\ n + 1 <= t.exit
        BY <1>2, <3>1, <4>2, TradeIs
      <4>7. t.exit + 1 \in Nat /\ t.exit + 1 > n /\ t.exit + 1 # 0
        BY <4>6 DEF LabTrades
      <4>8. t.exit + 1 \in S
        BY <1>4, <4>7
      <4>9. G[t.exit + 1] = F[t.exit + 1]
        BY <4>7, <4>8 DEF S
      <4>10. QED
        BY <4>4, <4>5, <4>9 DEF S
    <3>6. QED
      BY <3>4, <3>5
  <2>3. QED
    BY <2>1, <2>2
<1>5. S \in SUBSET Nat
  BY DEF S
<1>6. S = Nat
  BY <1>2, <1>3, <1>4, <1>5, Backwards
<1>7. i \in S
  BY <1>6
<1>8. QED
  BY <1>7 DEF S, F, G

\* Cut the history where a trade was closed, and the engine ends with that trade.
LEMMA SimulationCut ==
    ASSUME NEW h \in PossibleHistories, NEW k \in PossibleHistories,
           NEW slice \in LabSlices, NEW cut \in LabSlices, NEW v \in Range(Variants),
           cut[1] = slice[1], cut[2] <= slice[2], Agree(h, k, cut[2]),
           NEW i \in Nat \ {0}, NEW j \in 1 .. Len(Simulation(h, slice, v)[i]),
           NEW t, t = Simulation(h, slice, v)[i][j],
           t.reason # "END_OF_DATA", t.exit = cut[2]
    PROVE  Simulation(k, cut, v)[i] # <<>> /\ Last(Simulation(k, cut, v)[i]) = t
<1> DEFINE F == Simulation(h, slice, v)
           G == Simulation(k, cut, v)
           EndsIn(n) == G[n] \in Seq(LabTrades) /\ Len(G[n]) >= 1 /\ G[n][Len(G[n])] = t
           S == {n \in Nat : n = 0 \/ ((\E m \in 1 .. Len(F[n]) : F[n][m] = t) => EndsIn(n))}
<1>1. PICK last, x : last = slice[2] /\ x = cut[2]
  OBVIOUS
<1>2. /\ last \in Nat /\ last \in 1 .. Length /\ Length \in Nat
      /\ x \in Nat /\ x \in 1 .. Length /\ x <= last
  BY SMTT(30), <1>1, LengthsAssumption DEF LabSlices
<1>3. Agree(h, k, x) /\ t.exit = x
  BY <1>1
<1> HIDE DEF F, G, S, EndsIn
<1>4. ASSUME NEW n \in Nat, n >= last PROVE n \in S
  <2>1. F[n] = <<>>
    BY <1>1, <1>4, SimulationTurns DEF F
  <2>2. ~\E m \in 1 .. Len(F[n]) : F[n][m] = t
    BY <2>1
  <2>3. QED
    BY <2>2 DEF S
<1>5. ASSUME NEW n \in Nat, n < last, \A m \in Nat : m > n => m \in S PROVE n \in S
  <2> SUFFICES ASSUME n # 0, NEW m \in 1 .. Len(F[n]), F[n][m] = t PROVE EndsIn(n)
    BY <1>5 DEF S
  <2>1. F[n] \in Seq(LabTrades) /\ Fits(h, slice, v, n, t)
    BY SimulationTrades DEF F
  <2>2. n < x /\ n \in 1 .. x /\ n + 1 \in 1 .. Length /\ n + 1 <= x /\ n + 1 <= last
    <3>1. n < t.entry /\ t.entry <= x /\ t.entry \in Nat
      BY <1>3, <2>1 DEF Fits, LabTrades
    <3>2. n < x
      BY <1>2, <3>1
    <3>3. QED
      BY <1>2, <3>2
  <2>3. /\ Signal(k, cut, v, n) = Signal(h, slice, v, n)
        /\ Enters(k, cut, v, n) <=> Enters(h, slice, v, n)
    BY <1>2, <1>3, <2>2, EntersAgrees
  <2>0. n < slice[2] /\ n < cut[2] /\ last = slice[2] /\ x = cut[2]
    BY <1>1, <1>5, <2>2
  <2>4. CASE ~Enters(h, slice, v, n)
    <3>1. F[n] = F[n + 1] /\ G[n] = G[n + 1]
      BY <1>1, <1>5, <2>2, <2>3, <2>4, SimulationTurns DEF F, G
    <3>2. n + 1 \in S
      BY <1>5
    <3>3. m \in 1 .. Len(F[n + 1]) /\ F[n + 1][m] = t
      BY <3>1
    <3>4. EndsIn(n + 1)
      BY <3>2, <3>3 DEF S
    <3>5. QED
      BY <3>1, <3>4 DEF EndsIn
  <2>5. CASE Enters(h, slice, v, n)
    <3>1. PICK s : s = Signal(h, slice, v, n)
      OBVIOUS
    <3>2. PICK u : u = Trade(h, n + 1, last, s)
      OBVIOUS
    <3>3. /\ u \in LabTrades /\ u.entry = n + 1 /\ n + 1 <= u.exit /\ u.exit <= last
          /\ u.exit \in Nat /\ u.exit + 1 \in Nat \ {0} /\ u.exit + 1 > n
          /\ F[n] = <<u>> \o F[u.exit + 1]
      <4>1. u = Trade(h, n + 1, slice[2], s) /\ n < slice[2]
        BY <2>0, <3>2
      <4>2. /\ u \in LabTrades /\ u.entry = n + 1 /\ n + 1 <= u.exit /\ u.exit <= slice[2]
            /\ u.exit \in Nat /\ u.exit + 1 \in Nat \ {0} /\ u.exit + 1 > n
            /\ Simulation(h, slice, v)[n] = <<u>> \o Simulation(h, slice, v)[u.exit + 1]
        <5>1. /\ Taken(h, slice, v, n) \in LabTrades
              /\ Taken(h, slice, v, n).entry = n + 1
              /\ n + 1 <= Taken(h, slice, v, n).exit
              /\ Taken(h, slice, v, n).exit <= slice[2]
              /\ Taken(h, slice, v, n).exit \in Nat
              /\ Simulation(h, slice, v)[n] = <<Taken(h, slice, v, n)>>
                                 \o Simulation(h, slice, v)[Taken(h, slice, v, n).exit + 1]
          BY <2>5, <4>1, TakingTurn
        <5>2. u = Taken(h, slice, v, n)
          BY <3>1, <4>1 DEF Taken
        <5>3. u.exit + 1 \in Nat \ {0} /\ u.exit + 1 > n
          BY SMTT(30), <5>1, <5>2
        <5>4. QED
          BY <5>1, <5>2, <5>3
      <4>3. QED
        BY <2>0, <4>2 DEF F
    <3>4. u.exit \in Nat /\ u.exit + 1 \in Nat /\ u.exit + 1 > n /\ u.exit + 1 # 0
      BY <3>3
    <3>5. PICK r : r = F[u.exit + 1]
      OBVIOUS
    <3>6. F[n] = <<u>> \o r
      BY <3>3, <3>5
    <3>7. r \in Seq(LabTrades) /\ \A q \in 1 .. Len(r) : Fits(h, slice, v, u.exit + 1, r[q])
      BY <3>4, <3>5, SimulationTrades DEF F
    <3>8. /\ Len(F[n]) = Len(r) + 1 /\ F[n][1] = u
          /\ \A q \in 2 .. Len(r) + 1 : F[n][q] = r[q - 1]
      <4>1. u \in LabTrades
        BY <3>3
      <4>2. QED
        BY <3>6, <3>7, <4>1, Prepended
    <3>9. Len(r) \in Nat
      BY <3>7
    <3>10. CASE m = 1
      <4>1. u = t /\ u.exit = x /\ u.reason # "END_OF_DATA"
        BY <1>3, <3>8, <3>10
      <4>2. Trade(k, n + 1, x, s) = u
        BY <1>2, <1>3, <2>2, <3>2, <4>1, ClosedTradeAgrees
      <4>3. G[n] = <<u>> \o G[u.exit + 1]
        <5>1. u = Trade(k, n + 1, cut[2], s) /\ n < cut[2]
          BY <2>0, <4>2
        <5>2. s = Signal(k, cut, v, n) /\ Enters(k, cut, v, n)
          BY <2>3, <2>5, <3>1
        <5>3. Simulation(k, cut, v)[n] = <<u>> \o Simulation(k, cut, v)[u.exit + 1]
          <6>1. Simulation(k, cut, v)[n] = <<Taken(k, cut, v, n)>>
                                 \o Simulation(k, cut, v)[Taken(k, cut, v, n).exit + 1]
            BY <5>1, <5>2, TakingTurn
          <6>2. u = Taken(k, cut, v, n)
            BY <5>1, <5>2 DEF Taken
          <6>3. QED
            BY <6>1, <6>2
        <5>4. QED
          BY <5>3 DEF G
      <4>4. u.exit + 1 >= x
        BY <3>4, <4>1
      <4>5. G[u.exit + 1] = <<>>
        BY <1>1, <3>4, <4>4, SimulationTurns DEF G
      <4>6. G[n] = <<u>>
        BY <3>3, <4>3, <4>5
      <4>7. QED
        BY <3>3, <4>1, <4>6 DEF EndsIn
    <3>11. CASE m # 1
      <4>1. m - 1 \in 1 .. Len(r) /\ F[n][m] = r[m - 1]
        BY <3>8, <3>9, <3>11
      <4>2. Fits(h, slice, v, u.exit + 1, t)
        BY <3>7, <4>1
      <4>3. u.exit < x /\ u.exit < last
        <5>1. u.exit + 1 < t.entry /\ t.entry <= x /\ t.entry \in Nat
          BY <1>3, <4>2 DEF Fits, LabTrades
        <5>2. u.exit \in Nat
          BY <3>3
        <5>3. QED
          BY SMTT(30), <1>2, <5>1, <5>2
      <4>4. u.reason # "END_OF_DATA"
        BY <1>2, <2>2, <3>2, <4>3, EndsWhenClosed
      <4>5. Trade(k, n + 1, x, s) = u
        BY <1>2, <1>3, <2>2, <3>2, <3>4, <4>3, <4>4, ClosedTradeAgrees
      <4>6. PICK g : g = G[u.exit + 1]
        OBVIOUS
      <4>7. G[n] = <<u>> \o g
        <5>1. u = Trade(k, n + 1, cut[2], s) /\ n < cut[2]
          BY <2>0, <4>5
        <5>2. s = Signal(k, cut, v, n) /\ Enters(k, cut, v, n)
          BY <2>3, <2>5, <3>1
        <5>3. Simulation(k, cut, v)[n] = <<u>> \o Simulation(k, cut, v)[u.exit + 1]
          <6>1. Simulation(k, cut, v)[n] = <<Taken(k, cut, v, n)>>
                                 \o Simulation(k, cut, v)[Taken(k, cut, v, n).exit + 1]
            BY <5>1, <5>2, TakingTurn
          <6>2. u = Taken(k, cut, v, n)
            BY <5>1, <5>2 DEF Taken
          <6>3. QED
            BY <6>1, <6>2
        <5>4. QED
          BY <4>6, <5>3 DEF G
      <4>8. u.exit + 1 \in S
        BY <1>5, <3>4
      <4>9. EndsIn(u.exit + 1)
        BY <3>4, <3>5, <4>1, <4>8 DEF S
      <4>10. g \in Seq(LabTrades) /\ Len(g) >= 1 /\ g[Len(g)] = t
        BY <4>6, <4>9 DEF EndsIn
      <4>11. /\ G[n] \in Seq(LabTrades) /\ Len(G[n]) = Len(g) + 1
             /\ \A q \in 2 .. Len(g) + 1 : G[n][q] = g[q - 1]
        BY <3>3, <4>7, <4>10, Prepended
      <4>12. Len(g) \in Nat
        BY <4>10
      <4>13. G[n][Len(g) + 1] = g[(Len(g) + 1) - 1]
        BY <4>10, <4>11, <4>12
      <4>14. QED
        BY <4>10, <4>11, <4>12, <4>13 DEF EndsIn
    <3>12. QED
      BY <3>10, <3>11
  <2>6. QED
    BY <2>4, <2>5
<1>6. S \in SUBSET Nat
  BY DEF S
<1>7. S = Nat
  BY <1>2, <1>4, <1>5, <1>6, Backwards
<1>8. i \in S
  BY <1>7
<1>9. EndsIn(i)
  BY <1>8 DEF S, F
<1>10. G[i] # <<>> /\ Last(G[i]) = t
  BY <1>9 DEF EndsIn, Last
<1>11. QED
  BY <1>10 DEF G

-----------------------------------------------------------------------------
(* Sequences of sequences. *)

LEMMA Joined ==
    ASSUME NEW T, NEW a \in Seq(T), NEW b \in Seq(T)
    PROVE  /\ a \o b \in Seq(T) /\ Len(a \o b) = Len(a) + Len(b)
           /\ \A m \in 1 .. Len(a) : (a \o b)[m] = a[m]
           /\ \A m \in 1 .. Len(b) : (a \o b)[Len(a) + m] = b[m]
OBVIOUS

FlatAt(g, seqs, i) == IF i = 1 THEN seqs[1] ELSE g[i - 1] \o seqs[i]

\* A flattened sequence is built up from the left.
LEMMA FlattenIs ==
    ASSUME NEW seqs, NEW n \in Nat \ {0}, Len(seqs) = n
    PROVE  \E g : /\ FlattenSeq(seqs) = g[n] /\ g[1] = seqs[1]
                  /\ \A i \in 2 .. n : g[i] = g[i - 1] \o seqs[i]
<1> DEFINE Done == {m \in Nat : \E g : g = [i \in 1 .. m |-> FlatAt(g, seqs, i)]}
<1>1. 0 \in Done
  <2>1. PICK g : g = [i \in 1 .. 0 |-> <<>>]
    OBVIOUS
  <2>2. g = [i \in 1 .. 0 |-> FlatAt(g, seqs, i)]
    BY <2>1
  <2>3. QED
    BY <2>2
<1>2. ASSUME NEW m \in Nat, m \in Done PROVE m + 1 \in Done
  <2>1. PICK g : g = [i \in 1 .. m |-> FlatAt(g, seqs, i)]
    BY <1>2
  <2>2. PICK f : f = [i \in 1 .. m + 1 |-> IF i = m + 1 THEN FlatAt(g, seqs, i) ELSE g[i]]
    OBVIOUS
  <2>3. ASSUME NEW i \in 1 .. m + 1 PROVE f[i] = FlatAt(f, seqs, i)
    <3>1. FlatAt(f, seqs, i) = FlatAt(g, seqs, i)
      <4>1. CASE i = 1
        BY <4>1 DEF FlatAt
      <4>2. CASE i # 1
        <5>1. i - 1 \in 1 .. m + 1 /\ i - 1 # m + 1
          BY <4>2
        <5>2. f[i - 1] = g[i - 1]
          BY <2>2, <5>1
        <5>3. QED
          BY <5>2 DEF FlatAt
      <4>3. QED
        BY <4>1, <4>2
    <3>2. CASE i = m + 1
      BY <2>2, <3>1, <3>2
    <3>3. CASE i # m + 1
      <4>1. i \in 1 .. m
        BY <3>3
      <4>2. f[i] = g[i] /\ g[i] = FlatAt(g, seqs, i)
        BY <2>1, <2>2, <3>3, <4>1
      <4>3. QED
        BY <3>1, <4>2
    <3>4. QED
      BY <3>2, <3>3
  <2>4. f = [i \in 1 .. m + 1 |-> FlatAt(f, seqs, i)]
    BY <2>2, <2>3
  <2>5. QED
    BY <2>4
<1>3. n \in Done
  <2> HIDE DEF Done
  <2>1. QED
    BY <1>1, <1>2, NaturalsFrom
<1>4. PICK p : p = [i \in 1 .. n |-> FlatAt(p, seqs, i)]
  BY <1>3
<1> DEFINE F(g) == [i \in 1 .. n |-> IF i = 1 THEN seqs[i] ELSE g[i - 1] \o seqs[i]]
<1>5. ASSUME NEW g PROVE F(g) = [i \in 1 .. n |-> FlatAt(g, seqs, i)]
  BY DEF FlatAt
<1>6. \E g : g = F(g)
  <2> HIDE DEF F
  <2>1. QED
    BY <1>4, <1>5
<1>7. PICK h : h = CHOOSE g : g = F(g)
  OBVIOUS
<1>8. FlattenSeq(seqs) = h[n]
  BY <1>7 DEF FlattenSeq
<1>9. h = F(h)
  <2> HIDE DEF F
  <2>1. QED
    BY <1>6, <1>7
<1>10. h[1] = seqs[1]
  BY <1>9
<1>11. ASSUME NEW i \in 2 .. n PROVE h[i] = h[i - 1] \o seqs[i]
  <2>1. i \in 1 .. n /\ i # 1
    OBVIOUS
  <2>2. h[i] = IF i = 1 THEN seqs[i] ELSE h[i - 1] \o seqs[i]
    BY <1>9, <2>1
  <2>3. QED
    BY <2>1, <2>2
<1>12. QED
  BY <1>8, <1>10, <1>11

\* The m-th element of w is the j-th of the k-th sequence, and the one before it the one
\* before that or an element of an earlier sequence.
Comes(seqs, w, m, k, j) ==
    /\ w[m] = seqs[k][j]
    /\ m > 1 => \/ j > 1 /\ w[m - 1] = seqs[k][j - 1]
                \/ \E i \in 1 .. k - 1 : \E l \in 1 .. Len(seqs[i]) : w[m - 1] = seqs[i][l]

\* What flattening gives, element by element.
LEMMA FlattenComes ==
    ASSUME NEW T, NEW seqs \in Seq(Seq(T))
    PROVE  /\ FlattenSeq(seqs) \in Seq(T)
           /\ \A m \in 1 .. Len(FlattenSeq(seqs)) :
                \E k \in 1 .. Len(seqs) : \E j \in 1 .. Len(seqs[k]) :
                    Comes(seqs, FlattenSeq(seqs), m, k, j)
<1>1. PICK n : n = Len(seqs)
  OBVIOUS
<1>2. n \in Nat /\ \A k \in 1 .. n : seqs[k] \in Seq(T)
  BY <1>1
<1>3. CASE n = 0
  <2>1. seqs = <<>>
    <3>1. PICK U : U = Seq(T)
      OBVIOUS
    <3>2. seqs \in Seq(U) /\ Len(seqs) = 0
      BY <1>1, <1>3, <3>1
    <3>3. QED
      BY <3>2
  <2>0. FlattenSeq(seqs) = seqs
    BY <1>1, <1>3 DEF FlattenSeq
  <2>2. FlattenSeq(seqs) \in Seq(T) /\ Len(FlattenSeq(seqs)) = 0
    BY <2>0, <2>1
  <2>3. QED
    BY <2>2
<1>4. CASE n # 0
  <2>1. n \in Nat \ {0} /\ Len(seqs) = n
    BY <1>1, <1>2, <1>4
  <2>2. PICK g : /\ FlattenSeq(seqs) = g[n] /\ g[1] = seqs[1]
                 /\ \A i \in 2 .. n : g[i] = g[i - 1] \o seqs[i]
    BY <2>1, FlattenIs
  <2> DEFINE Good(i) == /\ g[i] \in Seq(T)
                        /\ \A m \in 1 .. Len(g[i]) : \E k \in 1 .. i : \E j \in 1 .. Len(seqs[k]) :
                              Comes(seqs, g[i], m, k, j)
             S == {i \in Nat : i + 1 <= n => Good(i + 1)}
  <2>3. 0 \in S
    <3>1. g[0 + 1] = seqs[1] /\ seqs[1] \in Seq(T) /\ 0 + 1 = 1
      BY <1>2, <2>1, <2>2
    <3>2. ASSUME NEW m \in 1 .. Len(seqs[1]) PROVE Comes(seqs, seqs[1], m, 1, m)
      <4>1. Len(seqs[1]) \in Nat
        BY <3>1
      <4>2. QED
        BY <4>1 DEF Comes
    <3>3. QED
      BY <3>1, <3>2
  <2>4. ASSUME NEW i \in Nat, i \in S PROVE i + 1 \in S
    <3> SUFFICES ASSUME (i + 1) + 1 <= n PROVE Good((i + 1) + 1)
      OBVIOUS
    <3>1. PICK c : c = i + 1
      OBVIOUS
    <3>2. c \in 1 .. n /\ c + 1 \in 2 .. n /\ c + 1 \in 1 .. n /\ (c + 1) - 1 = c
      BY <1>2, <3>1
    <3>3. Good(c)
      BY <2>4, <3>1, <3>2
    <3> HIDE DEF S
    <3>4. g[c] \in Seq(T) /\ seqs[c + 1] \in Seq(T) /\ g[c + 1] = g[c] \o seqs[c + 1]
      BY <1>2, <2>2, <3>2, <3>3
    <3>5. PICK a, b, w : a = g[c] /\ b = seqs[c + 1] /\ w = g[c + 1]
      OBVIOUS
    <3>6. /\ w = a \o b /\ a \in Seq(T) /\ b \in Seq(T)
          /\ Len(a) \in Nat /\ Len(b) \in Nat
      BY <3>4, <3>5
    <3>7. /\ w \in Seq(T) /\ Len(w) = Len(a) + Len(b)
          /\ \A m \in 1 .. Len(a) : w[m] = a[m]
          /\ \A m \in 1 .. Len(b) : w[Len(a) + m] = b[m]
      BY <3>6, Joined
    <3>8. ASSUME NEW m \in 1 .. Len(w)
          PROVE  \E k \in 1 .. c + 1 : \E j \in 1 .. Len(seqs[k]) : Comes(seqs, w, m, k, j)
      <4>1. CASE m <= Len(a)
        <5>1. m \in 1 .. Len(a) /\ (m > 1 => m - 1 \in 1 .. Len(a))
          BY <3>6, <3>7, <4>1
        <5>2. PICK k \in 1 .. c : \E j \in 1 .. Len(seqs[k]) : Comes(seqs, a, m, k, j)
          BY <3>3, <3>5, <5>1
        <5>0. PICK j \in 1 .. Len(seqs[k]) : Comes(seqs, a, m, k, j)
          BY <5>2
        <5>3. w[m] = a[m] /\ (m > 1 => w[m - 1] = a[m - 1])
          BY <3>7, <5>1
        <5>4. Comes(seqs, w, m, k, j)
          BY <5>0, <5>3 DEF Comes
        <5>5. k \in 1 .. c + 1
          BY <3>2, <5>2
        <5>6. QED
          BY <5>0, <5>4, <5>5
      <4>2. CASE ~(m <= Len(a))
        <5>1. PICK j : j = m - Len(a)
          OBVIOUS
        <5>2. j \in 1 .. Len(b) /\ m = Len(a) + j
          BY <3>6, <3>7, <4>2, <5>1
        <5>3. w[m] = b[j]
          BY <3>7, <5>2
        <5>4. CASE j > 1
          <6>1. j - 1 \in 1 .. Len(b) /\ m - 1 = Len(a) + (j - 1)
            BY <3>6, <5>2, <5>4
          <6>2. w[m - 1] = b[j - 1]
            BY <3>7, <6>1
          <6>3. Comes(seqs, w, m, c + 1, j)
            BY <3>5, <5>3, <5>4, <6>2 DEF Comes
          <6>4. QED
            BY <3>2, <3>5, <5>2, <6>3
        <5>5. CASE ~(j > 1)
          <6>1. j = 1 /\ m - 1 = Len(a)
            BY <3>6, <5>2, <5>5
          <6>2. CASE m > 1
            <7>1. Len(a) \in 1 .. Len(a)
              BY <3>6, <6>1, <6>2
            <7>0. PICK k \in 1 .. c : \E l \in 1 .. Len(seqs[k]) : Comes(seqs, a, Len(a), k, l)
              BY <3>3, <3>5, <7>1
            <7>2. PICK l \in 1 .. Len(seqs[k]) : Comes(seqs, a, Len(a), k, l)
              BY <7>0
            <7>3. w[m - 1] = seqs[k][l]
              BY <3>7, <6>1, <7>1, <7>2 DEF Comes
            <7>4. k \in 1 .. (c + 1) - 1
              BY <3>2, <7>0
            <7>5. Comes(seqs, w, m, c + 1, j)
              BY <3>5, <5>3, <7>3, <7>4 DEF Comes
            <7>6. QED
              BY <3>2, <3>5, <5>2, <7>5
          <6>3. CASE ~(m > 1)
            <7>1. Comes(seqs, w, m, c + 1, j)
              BY <3>5, <5>3, <6>3 DEF Comes
            <7>2. QED
              BY <3>2, <3>5, <5>2, <7>1
          <6>4. QED
            BY <6>2, <6>3
        <5>6. QED
          BY <5>4, <5>5
      <4>3. QED
        BY <4>1, <4>2
    <3>9. QED
      BY <3>1, <3>5, <3>7, <3>8
  <2>5. n - 1 \in S
    <3> HIDE DEF S
    <3>1. n - 1 \in Nat
      BY <2>1
    <3>2. QED
      BY <2>3, <2>4, <3>1, NaturalsFrom
  <2>6. Good(n)
    <3>1. (n - 1) + 1 = n /\ (n - 1) + 1 <= n
      BY <2>1
    <3> HIDE DEF Good
    <3>2. Good((n - 1) + 1)
      BY <2>5, <3>1
    <3>3. QED
      BY <3>1, <3>2
  <2>7. QED
    BY <2>1, <2>2, <2>6
<1>5. QED
  BY <1>3, <1>4

-----------------------------------------------------------------------------
(* The variants, and the slices in order. *)

\* max answers with one of the variants.
LEMMA FirstBestIs ==
    ASSUME NEW beaten
    PROVE  FirstBest(beaten) \in Range(Variants)
<1> DEFINE N == Len(Variants)
           ValueOf(g, k) == IF k = 1 THEN 1 ELSE IF <<k, g[k - 1]>> \in beaten THEN k ELSE g[k - 1]
           Done == {m \in Nat : \E g : g = [i \in 1 .. m |-> ValueOf(g, i)]}
<1>1. N \in Nat \ {0} /\ DOMAIN Variants = 1 .. N
  BY VariantsAssumption
<1>2. 0 \in Done
  <2>1. PICK g : g = [i \in 1 .. 0 |-> 1]
    OBVIOUS
  <2>2. g = [i \in 1 .. 0 |-> ValueOf(g, i)]
    BY <2>1
  <2>3. QED
    BY <2>2
<1>3. ASSUME NEW m \in Nat, m \in Done PROVE m + 1 \in Done
  <2>1. PICK g : g = [i \in 1 .. m |-> ValueOf(g, i)]
    BY <1>3
  <2>2. PICK f : f = [i \in 1 .. m + 1 |-> IF i = m + 1 THEN ValueOf(g, i) ELSE g[i]]
    OBVIOUS
  <2>3. ASSUME NEW i \in 1 .. m + 1 PROVE f[i] = ValueOf(f, i)
    <3>1. ValueOf(f, i) = ValueOf(g, i)
      <4>1. CASE i = 1
        BY <4>1
      <4>2. CASE i # 1
        <5>1. i - 1 \in 1 .. m + 1 /\ i - 1 # m + 1
          BY <4>2
        <5>2. f[i - 1] = g[i - 1]
          BY <2>2, <5>1
        <5>3. QED
          BY <5>2
      <4>3. QED
        BY <4>1, <4>2
    <3> HIDE DEF ValueOf
    <3>2. CASE i = m + 1
      BY <2>2, <3>1, <3>2
    <3>3. CASE i # m + 1
      <4>1. i \in 1 .. m
        BY <3>3
      <4>2. f[i] = g[i] /\ g[i] = ValueOf(g, i)
        BY <2>1, <2>2, <3>3, <4>1
      <4>3. QED
        BY <3>1, <4>2
    <3>4. QED
      BY <3>2, <3>3
  <2> HIDE DEF ValueOf
  <2>4. f = [i \in 1 .. m + 1 |-> ValueOf(f, i)]
    BY <2>2, <2>3
  <2>5. QED
    BY <2>4
<1>4. N \in Done
  <2> HIDE DEF Done, N
  <2>1. QED
    BY <1>1, <1>2, <1>3, NaturalsFrom
<1>5. PICK p : p = [i \in 1 .. N |-> ValueOf(p, i)]
  BY <1>4
<1> DEFINE F(g) == [k \in DOMAIN Variants |-> ValueOf(g, k)]
<1>6. \E g : g = F(g)
  BY <1>1, <1>5
<1>7. PICK h : h = CHOOSE g : g = F(g)
  OBVIOUS
<1>8. FirstBest(beaten) = Variants[h[N]]
  BY <1>7 DEF FirstBest
<1>9. h = F(h)
  <2> HIDE DEF F
  <2>1. QED
    BY <1>6, <1>7
<1>10. \A k \in 1 .. N : h[k] = ValueOf(h, k)
  BY <1>1, <1>9
<1> HIDE DEF F, N
<1> DEFINE S == {m \in Nat : m + 1 <= N => h[m + 1] \in 1 .. N}
<1>11. 0 \in S
  <2>0. 1 \in 1 .. N
    BY <1>1 DEF N
  <2>3. h[1] = ValueOf(h, 1)
    BY <1>10, <2>0
  <2>1. h[1] = 1
    BY <2>3
  <2>2. QED
    BY <1>1, <2>1
<1>12. ASSUME NEW m \in Nat, m \in S PROVE m + 1 \in S
  <2> SUFFICES ASSUME (m + 1) + 1 <= N PROVE h[(m + 1) + 1] \in 1 .. N
    OBVIOUS
  <2>1. PICK k : k = (m + 1) + 1
    OBVIOUS
  <2>2. k \in 1 .. N /\ k # 1 /\ k - 1 = m + 1 /\ k - 1 <= N
    BY <1>1, <2>1
  <2>3. h[k - 1] \in 1 .. N
    BY <1>12, <2>2
  <2>4. h[k] = ValueOf(h, k)
    BY <1>10, <2>2
  <2>5. h[k] = k \/ h[k] = h[k - 1]
    BY <2>2, <2>4
  <2>6. QED
    BY <2>1, <2>2, <2>3, <2>5
<1>13. N - 1 \in S
  <2>1. N - 1 \in Nat
    BY <1>1
  <2> HIDE DEF S
  <2>2. QED
    BY <1>11, <1>12, <2>1, NaturalsFrom
<1>14. (N - 1) + 1 = N /\ (N - 1) + 1 <= N
  BY <1>1
<1>15. h[N] \in 1 .. N
  BY <1>13, <1>14
<1>16. QED
  BY <1>1, <1>8, <1>15 DEF Range

\* How many slices of the group start before this one.
Rank(group, s) == Cardinality({t \in group : t[1] < s[1]})
OneEach(group) == \A s, t \in group : s[1] = t[1] => s = t

LEMMA GroupsAreFinite ==
    ASSUME NEW group \in SUBSET LabSlices
    PROVE  IsFiniteSet(group) /\ Cardinality(group) \in Nat
<1>1. IsFiniteSet(1 .. Length)
  BY LengthsAssumption, FS_Interval
<1>2. IsFiniteSet((1 .. Length) \X (1 .. Length))
  BY <1>1, FS_Product
<1>3. group \subseteq (1 .. Length) \X (1 .. Length)
  BY DEF LabSlices
<1>4. IsFiniteSet(group)
  BY <1>2, <1>3, FS_Subset
<1>5. QED
  BY <1>4, FS_CardinalityType

\* Every rank below the number of slices is one slice's.
LEMMA RankExists ==
    ASSUME NEW group \in SUBSET LabSlices, OneEach(group), NEW k \in Nat, k < Cardinality(group)
    PROVE  \E s \in group : Rank(group, s) = k
<1>1. IsFiniteSet(group) /\ Cardinality(group) \in Nat
  BY GroupsAreFinite
<1>2. \A s \in group : s[1] \in Nat
  BY LengthsAssumption DEF LabSlices
<1>3. ASSUME NEW B \in SUBSET group, \A s \in B : \A t \in group : t[1] <= s[1] => t \in B,
             Cardinality(B) < Cardinality(group)
      PROVE  \E m \in group : Rank(group, m) = Cardinality(B)
  <2>1. group \ B # {}
    BY <1>1, <1>3
  <2> DEFINE firsts == {t[1] : t \in group \ B}
  <2>2. firsts \subseteq Nat /\ firsts # {}
    BY <1>2, <2>1
  <2>3. PICK a \in firsts : \A b \in firsts : a <= b
    BY <2>2, LeastNatural
  <2>4. PICK m \in group \ B : a = m[1]
    OBVIOUS
  <2>5. {t \in group : t[1] < m[1]} = B
    <3>1. ASSUME NEW t \in group, t[1] < m[1] PROVE t \in B
      <4>1. SUFFICES ASSUME t \notin B PROVE FALSE
        OBVIOUS
      <4>2. a <= t[1]
        BY <2>3, <4>1
      <4>3. QED
        BY <1>2, <2>4, <3>1, <4>2
    <3>2. ASSUME NEW t \in B PROVE t[1] < m[1]
      <4>1. ~(m[1] <= t[1])
        BY <1>3, <2>4
      <4>2. QED
        BY <1>2, <2>4, <4>1
    <3>3. QED
      BY <3>1, <3>2
  <2>6. QED
    BY <2>5 DEF Rank
<1> DEFINE S == {n \in Nat : n < Cardinality(group) => \E s \in group : Rank(group, s) = n}
<1>4. 0 \in S
  <2>1. Cardinality({}) = 0
    BY FS_EmptySet
  <2>2. QED
    BY <1>3, <2>1
<1>5. ASSUME NEW n \in Nat, n \in S PROVE n + 1 \in S
  <2> SUFFICES ASSUME n + 1 < Cardinality(group) PROVE \E s \in group : Rank(group, s) = n + 1
    OBVIOUS
  <2>1. PICK s \in group : Rank(group, s) = n
    BY <1>1, <1>5
  <2> DEFINE A == {t \in group : t[1] < s[1]}
             B == A \cup {s}
  <2>2. s \notin A /\ A \subseteq group
    BY <1>2
  <2>3. Cardinality(A) = n
    BY <2>1 DEF Rank
  <2>4. IsFiniteSet(A)
    BY <1>1, <2>2, FS_Subset
  <2>5. Cardinality(B) = n + 1
    BY <2>2, <2>3, <2>4, FS_AddElement
  <2>6. ASSUME NEW u \in B, NEW t \in group, t[1] <= u[1] PROVE t \in B
    <3>1. u[1] <= s[1] /\ t[1] <= s[1]
      BY <1>2, <2>2, <2>6
    <3>2. CASE t[1] < s[1]
      BY <3>2
    <3>3. CASE t[1] = s[1]
      BY <3>3 DEF OneEach
    <3>4. QED
      BY <1>2, <3>1, <3>2, <3>3
  <2> HIDE DEF A, B
  <2>7. B \in SUBSET group
    BY <2>2 DEF B
  <2>8. Cardinality(B) < Cardinality(group)
    BY <2>5
  <2>9. \E m \in group : Rank(group, m) = Cardinality(B)
    BY <1>3, <2>6, <2>7, <2>8
  <2>10. QED
    BY <2>5, <2>9
<1>6. k \in S
  <2> HIDE DEF S
  <2>1. QED
    BY <1>4, <1>5, NaturalsFrom
<1>7. QED
  BY <1>6

\* The slices of a group in the order of their first candles.
LEMMA InOrderIs ==
    ASSUME NEW group \in SUBSET LabSlices, OneEach(group)
    PROVE  /\ InOrder(group) \in Seq(group)
           /\ \A j, k \in 1 .. Len(InOrder(group)) :
                j < k => InOrder(group)[j][1] < InOrder(group)[k][1]
<1>1. IsFiniteSet(group) /\ Cardinality(group) \in Nat
  BY GroupsAreFinite
<1>2. \A s \in group : s[1] \in Nat
  BY LengthsAssumption DEF LabSlices
<1>3. PICK n : n = Cardinality(group)
  OBVIOUS
<1>4. PICK o : o = InOrder(group)
  OBVIOUS
<1>5. o = [k \in 1 .. n |-> CHOOSE s \in group : Rank(group, s) = k - 1]
  BY <1>3, <1>4 DEF InOrder, Rank
<1>6. ASSUME NEW k \in 1 .. n PROVE o[k] \in group /\ Rank(group, o[k]) = k - 1
  <2>1. k - 1 \in Nat /\ k - 1 < Cardinality(group)
    BY <1>1, <1>3
  <2>2. \E s \in group : Rank(group, s) = k - 1
    BY <2>1, RankExists
  <2>3. o[k] = CHOOSE s \in group : Rank(group, s) = k - 1
    BY <1>5
  <2>4. QED
    BY <2>2, <2>3
<1>7. o \in Seq(group) /\ Len(o) = n
  <2>1. o \in [1 .. n -> group]
    BY <1>5, <1>6
  <2>2. n \in Nat
    BY <1>1, <1>3
  <2>3. QED
    BY <2>1, <2>2
<1>8. ASSUME NEW j \in 1 .. n, NEW k \in 1 .. n, j < k PROVE o[j][1] < o[k][1]
  <2>1. SUFFICES ASSUME o[k][1] <= o[j][1] PROVE FALSE
    BY <1>2, <1>6
  <2> DEFINE A == {t \in group : t[1] < o[k][1]}
             B == {t \in group : t[1] < o[j][1]}
  <2>2. A \subseteq B
    BY <1>2, <1>6, <2>1
  <2>3. IsFiniteSet(B)
    BY <1>1, FS_Subset
  <2>4. Cardinality(A) <= Cardinality(B)
    BY <2>2, <2>3, FS_Subset
  <2>5. Cardinality(A) = k - 1 /\ Cardinality(B) = j - 1
    BY <1>6 DEF Rank
  <2>6. QED
    BY <1>1, <1>3, <1>8, <2>4, <2>5
<1>9. QED
  BY <1>4, <1>7, <1>8

-----------------------------------------------------------------------------
(* What the engine returns for a slice, and for a group of them. *)

\* A trade that the rule asked for, at an hour that was open, with a stop that may be set.
Asked(h, v, t) ==
    /\ t.entry \notin h.shut
    /\ h.signal[v][t.entry - 1] # "none"
    /\ study.programme # "SL02" => h.signal[v][t.entry - 1] # "TIGHT"

\* The trades of a slice lie in it, were asked for, and follow each other.
LEMMA SimulateIs ==
    ASSUME NEW h \in PossibleHistories, NEW slice \in LabSlices, NEW v \in Range(Variants)
    PROVE  /\ Simulate(h, slice, v) \in Seq(LabTrades)
           /\ \A k \in 1 .. Len(Simulate(h, slice, v)) :
                Within(Simulate(h, slice, v)[k], slice) /\ Asked(h, v, Simulate(h, slice, v)[k])
           /\ InTurn(Simulate(h, slice, v))
<1>1. PICK i : i = slice[1] + Warmup
  OBVIOUS
<1>2. i \in Nat
  BY <1>1, LengthsAssumption DEF LabSlices
<1>3. PICK tr : tr = Simulation(h, slice, v)[i]
  OBVIOUS
<1>4. /\ tr \in Seq(LabTrades) /\ InTurn(tr)
      /\ \A k \in 1 .. Len(tr) : Fits(h, slice, v, i, tr[k])
  BY <1>2, <1>3, SimulationTrades
<1>5. ASSUME NEW k \in 1 .. Len(tr) PROVE Within(tr[k], slice) /\ Asked(h, v, tr[k])
  <2>1. PICK t : t = tr[k]
    OBVIOUS
  <2>2. Fits(h, slice, v, i, t)
    BY <1>4, <2>1
  <2>3. Within(t, slice)
    BY <1>1, <2>2 DEF Fits, Within
  <2>4. PICK e : e = t.entry
    OBVIOUS
  <2>5. Enters(h, slice, v, e - 1) /\ e \in Nat
    BY <2>2, <2>4 DEF Fits, LabTrades
  <2>6. (e - 1) + 1 = e
    BY <2>5
  <2>7. /\ Signal(h, slice, v, e - 1) # "none" /\ (e - 1) + 1 \notin h.shut
        /\ ~Rejects(Signal(h, slice, v, e - 1))
    BY <2>5 DEF Enters
  <2>8. Signal(h, slice, v, e - 1) = h.signal[v][e - 1]
    BY <2>7 DEF Signal
  <2>9. Asked(h, v, t)
    BY <2>4, <2>6, <2>7, <2>8 DEF Asked, Rejects
  <2>10. QED
    BY <2>1, <2>3, <2>9
<1>6. Simulate(h, slice, v) = tr
  BY <1>1, <1>3 DEF Simulate
<1>7. QED
  BY <1>4, <1>5, <1>6

\* A slice that ends before a candle is simulated from what is known before that candle.
LEMMA SimulateKnown ==
    ASSUME NEW h \in PossibleHistories, NEW slice \in LabSlices, NEW v \in Range(Variants),
           NEW n \in Nat, slice[2] < n
    PROVE  Simulate(KnownBefore(h, n), slice, v) = Simulate(h, slice, v)
<1>1. PICK i, last, k : i = slice[1] + Warmup /\ last = slice[2] /\ k = KnownBefore(h, n)
  OBVIOUS
<1>2. i \in Nat \ {0} /\ last \in 1 .. Length /\ last < n
  BY <1>1, LengthsAssumption DEF LabSlices
<1>3. k \in PossibleHistories /\ Agree(h, k, last)
  BY <1>1, <1>2, KnownAgrees
<1>4. Agree(h, k, slice[2])
  BY <1>1, <1>3
<1>5. Simulation(k, slice, v)[i] = Simulation(h, slice, v)[i]
  BY <1>2, <1>3, <1>4, SimulationAgrees
<1>6. QED
  BY <1>1, <1>5 DEF Simulate

\* A closed trade is the last one of the history that ends where it closed.
LEMMA SimulateClosed ==
    ASSUME NEW h \in PossibleHistories, NEW slice \in LabSlices, NEW v \in Range(Variants),
           NEW j \in 1 .. Len(Simulate(h, slice, v)),
           NEW t, t = Simulate(h, slice, v)[j], t.reason # "END_OF_DATA"
    PROVE  Last(Simulate(KnownBefore(h, t.exit + 1), <<slice[1], t.exit>>, v)) = t
<1>1. PICK i, x, cut, k : /\ i = slice[1] + Warmup /\ x = t.exit /\ cut = <<slice[1], x>>
                          /\ k = KnownBefore(h, x + 1)
  OBVIOUS
<1>2. t \in LabTrades /\ Within(t, slice)
  BY SimulateIs
<1>3. /\ i \in Nat \ {0} /\ slice[1] \in 1 .. Length /\ slice[2] \in 1 .. Length
      /\ Length \in Nat /\ Warmup \in Nat
  BY SMTT(30), <1>1, LengthsAssumption DEF LabSlices
<1>4. x \in Nat /\ t.entry \in Nat
  BY <1>1, <1>2 DEF LabTrades
<1>5. x \in 1 .. Length /\ slice[1] <= x /\ x <= slice[2] /\ x < x + 1 /\ x + 1 \in Nat
  <2>1. slice[1] + Warmup < t.entry /\ t.entry <= x /\ x <= slice[2]
    BY <1>1, <1>2 DEF Within
  <2>2. PICK a, b, e : a = slice[1] /\ b = slice[2] /\ e = t.entry
    OBVIOUS
  <2>3. a \in 1 .. Length /\ b \in 1 .. Length /\ e \in Nat /\ a + Warmup < e /\ e <= x /\ x <= b
    BY <1>3, <1>4, <2>1, <2>2
  <2>4. x \in 1 .. Length /\ a <= x /\ x <= b
    BY <1>3, <1>4, <2>3
  <2>5. QED
    BY <1>4, <2>2, <2>4
<1>6. cut \in LabSlices /\ cut[1] = slice[1] /\ cut[2] = x
  BY <1>1, <1>3, <1>5 DEF LabSlices
<1>7. k \in PossibleHistories /\ Agree(h, k, x)
  BY <1>1, <1>5, KnownAgrees
<1>8. cut[2] <= slice[2] /\ Agree(h, k, cut[2]) /\ t.exit = cut[2]
  BY <1>1, <1>5, <1>6, <1>7
<1>9. j \in 1 .. Len(Simulation(h, slice, v)[i]) /\ t = Simulation(h, slice, v)[i][j]
  BY <1>1 DEF Simulate
<1>10. Last(Simulation(k, cut, v)[i]) = t
  BY <1>3, <1>6, <1>7, <1>8, <1>9, SimulationCut
<1>11. Simulate(k, cut, v) = Simulation(k, cut, v)[i]
  BY <1>1, <1>6 DEF Simulate
<1>12. QED
  BY <1>1, <1>10, <1>11

\* Slices that follow each other, each with its own first candle.
Apart(group) == OneEach(group) /\ \A s, t \in group : s[1] < t[1] => s[2] < t[1]

\* The trades of slices that lie apart are each of one of them, and follow each other.
LEMMA SimulateAllIs ==
    ASSUME NEW h \in PossibleHistories, NEW group \in SUBSET LabSlices, Apart(group),
           NEW v \in Range(Variants)
    PROVE  /\ SimulateAll(h, group, v) \in Seq(LabTrades)
           /\ \A m \in 1 .. Len(SimulateAll(h, group, v)) :
                \E s \in group : \E j \in 1 .. Len(Simulate(h, s, v)) :
                    SimulateAll(h, group, v)[m] = Simulate(h, s, v)[j]
           /\ InTurn(SimulateAll(h, group, v))
<1>1. PICK o : o = InOrder(group)
  OBVIOUS
<1>2. /\ o \in Seq(group)
      /\ \A j, k \in 1 .. Len(o) : j < k => o[j][1] < o[k][1]
  BY <1>1, InOrderIs DEF Apart
<1>3. Len(o) \in Nat /\ DOMAIN o = 1 .. Len(o) /\ \A k \in 1 .. Len(o) : o[k] \in group
  BY <1>2
<1>4. PICK seqs : seqs = [k \in DOMAIN o |-> Simulate(h, o[k], v)]
  OBVIOUS
<1>5. \A s \in group : Simulate(h, s, v) \in Seq(LabTrades)
  BY SimulateIs
<1>6. seqs \in Seq(Seq(LabTrades)) /\ Len(seqs) = Len(o)
  <2>1. seqs \in [1 .. Len(o) -> Seq(LabTrades)]
    BY <1>3, <1>4, <1>5
  <2>2. PICK U, n : U = Seq(LabTrades) /\ n = Len(o)
    OBVIOUS
  <2>3. seqs \in [1 .. n -> U] /\ n \in Nat
    BY <1>3, <2>1, <2>2
  <2>4. seqs \in Seq(U) /\ Len(seqs) = n
    BY <2>3
  <2>5. QED
    BY <2>2, <2>4
<1>7. PICK w : w = FlattenSeq(seqs)
  OBVIOUS
<1>8. SimulateAll(h, group, v) = w
  BY <1>1, <1>4, <1>7 DEF SimulateAll
<1>9. /\ w \in Seq(LabTrades)
      /\ \A m \in 1 .. Len(w) : \E k \in 1 .. Len(seqs) : \E j \in 1 .. Len(seqs[k]) :
            Comes(seqs, w, m, k, j)
  BY <1>6, <1>7, FlattenComes
<1>10. \A k \in 1 .. Len(o) : seqs[k] = Simulate(h, o[k], v)
  BY <1>3, <1>4
<1>11. ASSUME NEW m \in 1 .. Len(w)
       PROVE  \E s \in group : \E j \in 1 .. Len(Simulate(h, s, v)) : w[m] = Simulate(h, s, v)[j]
  <2>1. PICK k \in 1 .. Len(o) : \E j \in 1 .. Len(seqs[k]) : Comes(seqs, w, m, k, j)
    BY <1>6, <1>9
  <2>2. o[k] \in group /\ seqs[k] = Simulate(h, o[k], v)
    BY <1>3, <1>10
  <2>3. QED
    BY <2>1, <2>2 DEF Comes
<1>12. ASSUME NEW s \in group, NEW j \in 1 .. Len(Simulate(h, s, v)), NEW t,
              t = Simulate(h, s, v)[j]
       PROVE  t \in LabTrades /\ s[1] < t.entry /\ t.entry <= t.exit /\ t.exit <= s[2]
  <2>1. t \in LabTrades /\ Within(t, s)
    BY <1>12, SimulateIs
  <2>2. s[1] \in Nat /\ Warmup \in Nat /\ t.entry \in Nat
    BY SMTT(30), <2>1, LengthsAssumption DEF LabSlices, LabTrades
  <2>3. QED
    BY <2>1, <2>2 DEF Within
<1>13. ASSUME NEW m \in 2 .. Len(w) PROVE w[m - 1].exit < w[m].entry
  <2>1. Len(w) \in Nat
    BY <1>9
  <2>2. m \in 1 .. Len(w) /\ m > 1
    BY <2>1
  <2>3. PICK k \in 1 .. Len(o) : \E j \in 1 .. Len(seqs[k]) : Comes(seqs, w, m, k, j)
    BY <1>6, <1>9, <2>2
  <2>4. PICK j \in 1 .. Len(seqs[k]) : Comes(seqs, w, m, k, j)
    BY <2>3
  <2>5. o[k] \in group /\ seqs[k] = Simulate(h, o[k], v)
    BY <1>3, <1>10
  <2>6. PICK t, p : t = w[m] /\ p = w[m - 1]
    OBVIOUS
  <2>7. t = seqs[k][j]
    BY <2>4, <2>6 DEF Comes
  <2>8. CASE j > 1 /\ p = seqs[k][j - 1]
    <3>1. Simulate(h, o[k], v) \in Seq(LabTrades) /\ InTurn(Simulate(h, o[k], v))
      BY <2>5, SimulateIs
    <3>2. seqs[k] \in Seq(LabTrades) /\ InTurn(seqs[k])
      BY <2>5, <3>1
    <3>3. Len(seqs[k]) \in Nat
      BY <3>2
    <3>4. j \in 2 .. Len(seqs[k])
      BY <2>8, <3>3
    <3>5. QED
      BY <2>6, <2>7, <2>8, <3>2, <3>4 DEF InTurn
  <2>9. CASE \E i \in 1 .. k - 1 : \E l \in 1 .. Len(seqs[i]) : p = seqs[i][l]
    <3>1. PICK i \in 1 .. k - 1 : \E l \in 1 .. Len(seqs[i]) : p = seqs[i][l]
      BY <2>9
    <3>2. i \in 1 .. Len(o) /\ i < k
      BY <1>3
    <3>3. o[i] \in group /\ seqs[i] = Simulate(h, o[i], v) /\ o[i][1] < o[k][1]
      BY <1>2, <1>3, <1>10, <3>2
    <3>4. p \in LabTrades /\ p.exit <= o[i][2]
      BY <1>12, <3>1, <3>3
    <3>5. t \in LabTrades /\ o[k][1] < t.entry
      BY <1>12, <2>5, <2>7
    <3>6. o[i][2] < o[k][1] /\ o[i][2] \in Nat /\ o[k][1] \in Nat
      <4>1. o[i][2] < o[k][1]
        BY <2>5, <3>3 DEF Apart
      <4>2. \A s \in group : s[1] \in Nat /\ s[2] \in Nat
        BY SMTT(30), LengthsAssumption DEF LabSlices
      <4>3. QED
        BY <2>5, <3>3, <4>1, <4>2
    <3>7. p.exit \in Nat /\ t.entry \in Nat
      BY <3>4, <3>5 DEF LabTrades
    <3>8. QED
      BY SMTT(30), <2>6, <3>4, <3>5, <3>6, <3>7
  <2>10. QED
    BY <2>2, <2>4, <2>6, <2>8, <2>9 DEF Comes
<1>14. InTurn(w)
  BY <1>13 DEF InTurn
<1>15. QED
  BY <1>8, <1>9, <1>11, <1>14

\* And so are slices that all end before it.
LEMMA SimulateAllKnown ==
    ASSUME NEW h \in PossibleHistories, NEW group \in SUBSET LabSlices, OneEach(group),
           NEW v \in Range(Variants), NEW n \in Nat, \A s \in group : s[2] < n
    PROVE  SimulateAll(KnownBefore(h, n), group, v) = SimulateAll(h, group, v)
<1>1. PICK o, k : o = InOrder(group) /\ k = KnownBefore(h, n)
  OBVIOUS
<1>2. o \in Seq(group)
  BY <1>1, InOrderIs
<1>3. \A i \in DOMAIN o : o[i] \in group
  BY <1>2
<1>4. \A i \in DOMAIN o : Simulate(k, o[i], v) = Simulate(h, o[i], v)
  BY <1>1, <1>3, SimulateKnown
<1>5. [i \in DOMAIN o |-> Simulate(k, o[i], v)] = [i \in DOMAIN o |-> Simulate(h, o[i], v)]
  BY <1>4
<1>6. QED
  BY <1>1, <1>5 DEF SimulateAll

-----------------------------------------------------------------------------
(* Slices of the history. *)

LEMMA MinIs ==
    ASSUME NEW S, S \subseteq Nat, S # {}
    PROVE  Min(S) \in S /\ \A y \in S : Min(S) <= y
<1>1. \E x \in S : \A y \in S : x <= y
  BY LeastNatural
<1>2. QED
  BY <1>1 DEF Min

LEMMA MaxIs ==
    ASSUME NEW S, S \subseteq Nat, S # {}, NEW n \in Nat, \A x \in S : x <= n
    PROVE  Max(S) \in S /\ \A y \in S : y <= Max(S)
<1> DEFINE R == {n - x : x \in S}
<1>1. R \subseteq Nat /\ R # {}
  <2>1. \A x \in S : n - x \in Nat
    OBVIOUS
  <2>2. R \subseteq Nat
    BY <2>1
  <2>3. QED
    BY <2>2
<1>2. PICK r \in R : \A q \in R : r <= q
  BY <1>1, LeastNatural
<1>3. PICK x \in S : r = n - x
  OBVIOUS
<1>4. ASSUME NEW y \in S PROVE x >= y
  <2>1. r <= n - y
    BY <1>2
  <2>2. x \in Nat /\ y \in Nat
    OBVIOUS
  <2>3. QED
    BY <1>3, <2>1, <2>2
<1>5. \E z \in S : \A y \in S : z >= y
  BY <1>4
<1>6. PICK m : m = Max(S)
  OBVIOUS
<1>7. m \in S /\ \A y \in S : m >= y
  BY <1>5, <1>6 DEF Max
<1>8. \A y \in S : y <= m
  BY <1>7
<1>9. QED
  BY <1>6, <1>7, <1>8

LEMMA CoveredIs ==
    ASSUME NEW spans
    PROVE  /\ Covered(spans) \subseteq 1 .. Length
           /\ IsFiniteSet(Covered(spans)) /\ Cardinality(Covered(spans)) \in Nat
<1>1. Covered(spans) \subseteq 1 .. Length
  BY DEF Covered
<1>2. IsFiniteSet(1 .. Length)
  BY LengthsAssumption, FS_Interval
<1>3. IsFiniteSet(Covered(spans))
  BY <1>1, <1>2, FS_Subset
<1>4. QED
  BY <1>1, <1>3, FS_CardinalityType

\* Positions are in the order of the candles.
LEMMA PositionsAreOrdered ==
    ASSUME NEW spans, NEW i \in Nat, NEW j \in Nat, j <= i
    PROVE  Position(spans, j) <= Position(spans, i)
           /\ Position(spans, i) \in Nat /\ Position(spans, j) \in Nat
<1> DEFINE A == {c \in Covered(spans) : c < j}
           B == {c \in Covered(spans) : c < i}
<1>1. A \subseteq B
  <2>1. \A c \in Covered(spans) : c \in Nat
    BY CoveredIs, LengthsAssumption
  <2>2. QED
    BY <2>1
<1>2. IsFiniteSet(A) /\ IsFiniteSet(B)
  BY CoveredIs, FS_Subset
<1>3. Cardinality(A) <= Cardinality(B)
  BY <1>1, <1>2, FS_Subset
<1>4. Cardinality(A) \in Nat /\ Cardinality(B) \in Nat
  BY <1>2, FS_CardinalityType
<1>5. QED
  BY <1>3, <1>4 DEF Position

\* The candles of a span whose positions are from .. to - 1.
Held(spans, s, from, to) ==
    {i \in s[1] .. s[2] : from <= Position(spans, i) /\ Position(spans, i) < to}

\* The part of a span that lies in a phase is a slice of it.
LEMMA HeldIs ==
    ASSUME NEW spans \in SUBSET LabSlices, NEW s \in spans, NEW from \in Nat, NEW to \in Nat,
           Held(spans, s, from, to) # {},
           NEW p, p = <<Min(Held(spans, s, from, to)), Max(Held(spans, s, from, to))>>
    PROVE  /\ p \in LabSlices /\ s[1] <= p[1] /\ p[2] <= s[2]
           /\ from <= Position(spans, p[1]) /\ Position(spans, p[2]) < to
<1>1. PICK H : H = Held(spans, s, from, to)
  OBVIOUS
<1>2. PICK a, b : a = s[1] /\ b = s[2]
  OBVIOUS
<1>3. a \in 1 .. Length /\ b \in 1 .. Length /\ b \in Nat /\ Length \in Nat
  BY <1>2, LengthsAssumption DEF LabSlices
<1>4. H \subseteq a .. b /\ H \subseteq Nat /\ H # {} /\ \A x \in H : x <= b
  BY <1>1, <1>2, <1>3 DEF Held
<1>5. Min(H) \in H /\ \A y \in H : Min(H) <= y
  BY <1>4, MinIs
<1>6. Max(H) \in H
  BY <1>3, <1>4, MaxIs
<1>7. p = <<Min(H), Max(H)>> /\ p[1] = Min(H) /\ p[2] = Max(H)
  BY <1>1
<1>8. p[1] \in a .. b /\ p[2] \in a .. b /\ p[1] <= p[2]
  BY <1>4, <1>5, <1>6, <1>7
<1>9. p \in LabSlices
  <2>1. p[1] \in 1 .. Length /\ p[2] \in 1 .. Length
    BY <1>3, <1>8
  <2>2. QED
    BY <1>7, <1>8, <2>1 DEF LabSlices
<1>10. from <= Position(spans, p[1]) /\ Position(spans, p[2]) < to
  BY <1>1, <1>5, <1>6, <1>7 DEF Held
<1>11. QED
  BY <1>2, <1>3, <1>8, <1>9, <1>10

\* The slices of a phase lie in the spans, and apart.
LEMMA PartIs ==
    ASSUME NEW spans \in SUBSET LabSlices, Apart(spans), NEW from \in Nat, NEW to \in Nat
    PROVE  /\ Part(spans, from, to) \in SUBSET LabSlices
           /\ Apart(Part(spans, from, to))
           /\ \A p \in Part(spans, from, to) :
                /\ from <= Position(spans, p[1]) /\ Position(spans, p[2]) < to
                /\ \E s \in spans : s[1] <= p[1] /\ p[2] <= s[2]
<1> DEFINE Edges(s) == <<Min(Held(spans, s, from, to)), Max(Held(spans, s, from, to))>>
<1>1. PICK P : P = Part(spans, from, to)
  OBVIOUS
<1>2. ASSUME NEW p \in P
      PROVE  \E s \in spans : Held(spans, s, from, to) # {} /\ p = Edges(s)
  BY <1>1 DEF Part, Held
<1> HIDE DEF Edges
<1>3. ASSUME NEW s \in spans, NEW p, Held(spans, s, from, to) # {}, p = Edges(s)
      PROVE  /\ p \in LabSlices /\ s[1] <= p[1] /\ p[2] <= s[2]
             /\ from <= Position(spans, p[1]) /\ Position(spans, p[2]) < to
  BY <1>3, HeldIs DEF Edges
<1>4. \A s \in LabSlices : s[1] \in Nat /\ s[2] \in Nat /\ s[1] <= s[2]
  BY LengthsAssumption DEF LabSlices
<1>5. P \in SUBSET LabSlices
  BY <1>2, <1>3
<1>6. ASSUME NEW p \in P, NEW q \in P
      PROVE  (p[1] = q[1] => p = q) /\ (p[1] < q[1] => p[2] < q[1])
  <2>1. PICK s \in spans : Held(spans, s, from, to) # {} /\ p = Edges(s)
    BY <1>2
  <2>2. PICK t \in spans : Held(spans, t, from, to) # {} /\ q = Edges(t)
    BY <1>2
  <2>3. s[1] <= p[1] /\ p[2] <= s[2] /\ t[1] <= q[1] /\ q[2] <= t[2]
    BY <1>3, <2>1, <2>2
  <2>4. /\ p[1] \in Nat /\ p[2] \in Nat /\ q[1] \in Nat /\ q[2] \in Nat
        /\ s[1] \in Nat /\ s[2] \in Nat /\ t[1] \in Nat /\ t[2] \in Nat
        /\ p[1] <= p[2] /\ q[1] <= q[2]
    BY <1>4, <1>5
  <2>5. CASE s[1] = t[1]
    <3>1. s = t
      BY <2>5 DEF Apart, OneEach
    <3>2. p = q
      BY <2>1, <2>2, <3>1
    <3>3. QED
      BY <2>4, <3>2
  <2>6. CASE s[1] < t[1]
    <3>1. s[2] < t[1]
      BY <2>6 DEF Apart
    <3>2. QED
      BY <2>3, <2>4, <3>1
  <2>7. CASE t[1] < s[1]
    <3>1. t[2] < s[1]
      BY <2>7 DEF Apart
    <3>2. QED
      BY <2>3, <2>4, <3>1
  <2>8. QED
    BY <2>4, <2>5, <2>6, <2>7
<1>7. Apart(P)
  BY <1>6 DEF Apart, OneEach
<1>8. \A p \in P : /\ from <= Position(spans, p[1]) /\ Position(spans, p[2]) < to
                   /\ \E s \in spans : s[1] <= p[1] /\ p[2] <= s[2]
  BY <1>2, <1>3
<1>9. QED
  BY <1>1, <1>5, <1>7, <1>8

\* A phase ends before the next begins.
LEMMA PartsPrecede ==
    ASSUME NEW spans \in SUBSET LabSlices, Apart(spans),
           NEW a \in Nat, NEW b \in Nat, NEW c \in Nat
    PROVE  Precedes(Part(spans, a, b), Part(spans, b, c))
<1>1. ASSUME NEW p \in Part(spans, a, b), NEW q \in Part(spans, b, c) PROVE p[2] < q[1]
  <2>1. Position(spans, p[2]) < b /\ p \in LabSlices
    BY PartIs
  <2>2. b <= Position(spans, q[1]) /\ q \in LabSlices
    BY PartIs
  <2>3. p[2] \in Nat /\ q[1] \in Nat
    BY <2>1, <2>2, LengthsAssumption DEF LabSlices
  <2>4. SUFFICES ASSUME q[1] <= p[2] PROVE FALSE
    BY <2>3
  <2>5. /\ Position(spans, q[1]) <= Position(spans, p[2])
        /\ Position(spans, q[1]) \in Nat /\ Position(spans, p[2]) \in Nat
    BY <2>3, <2>4, PositionsAreOrdered
  <2>6. QED
    BY <2>1, <2>2, <2>5
<1>2. QED
  BY <1>1 DEF Precedes

\* A segment begins at its start and has no gap inside.
LEMMA SegmentIs ==
    ASSUME NEW h \in PossibleHistories, NEW first \in Starts(h)
    PROVE  /\ Segment(h, first) \in LabSlices /\ Segment(h, first)[1] = first
           /\ \A g \in h.gaps : ~(first < g /\ g <= Segment(h, first)[2])
<1>1. h.gaps \subseteq 2 .. Length /\ Length \in Nat \ {0}
  BY LengthsAssumption DEF PossibleHistories
<1>2. first \in 1 .. Length
  BY <1>1 DEF Starts
<1> DEFINE E == {l \in Ends(h) : first <= l}
<1>3. Ends(h) \subseteq 1 .. Length /\ Length \in Ends(h)
  BY <1>1 DEF Ends
<1>4. E \subseteq Nat /\ E # {}
  BY <1>1, <1>2, <1>3
<1>5. PICK last : last = Min(E)
  OBVIOUS
<1>6. last \in E /\ \A y \in E : last <= y
  BY <1>4, <1>5, MinIs
<1>7. Segment(h, first) = <<first, last>>
  BY <1>5 DEF Segment
<1>8. last \in 1 .. Length /\ first <= last
  BY <1>3, <1>6
<1>9. ASSUME NEW g \in h.gaps, first < g, g <= last PROVE FALSE
  <2>1. g - 1 \in Ends(h)
    BY DEF Ends
  <2>2. g \in 2 .. Length /\ first <= g - 1
    BY <1>1, <1>2, <1>9
  <2>3. last <= g - 1
    BY <1>6, <2>1, <2>2
  <2>4. QED
    BY <1>8, <1>9, <2>2, <2>3
<1>10. QED
  BY <1>2, <1>7, <1>8, <1>9 DEF LabSlices

\* The spans lie apart, and those of SL04 have no gap.
LEMMA SpansAre ==
    ASSUME NEW h \in PossibleHistories
    PROVE  /\ Spans(h) \in SUBSET LabSlices /\ Apart(Spans(h))
           /\ study.programme = "SL04" =>
                \A s \in Spans(h) : \A g \in h.gaps : ~(s[1] < g /\ g <= s[2])
<1>1. CASE study.programme = "SL04"
  <2>1. ASSUME NEW s \in Spans(h) PROVE \E first \in Starts(h) : s = Segment(h, first)
    BY <1>1 DEF Spans, EligibleSegments
  <2>2. \A s \in Spans(h) : /\ s \in LabSlices /\ s[1] \in Starts(h) /\ s = Segment(h, s[1])
                            /\ \A g \in h.gaps : ~(s[1] < g /\ g <= s[2])
    BY <2>1, SegmentIs
  <2>3. ASSUME NEW s \in Spans(h), NEW t \in Spans(h), s[1] < t[1] PROVE s[2] < t[1]
    <3>1. s[1] \in Nat \ {0} /\ s[2] \in Nat /\ t[1] \in Nat
      BY <2>2, LengthsAssumption DEF LabSlices
    <3>2. t[1] \in h.gaps
      BY <2>2, <2>3, <3>1 DEF Starts
    <3>3. ~(t[1] <= s[2])
      BY <2>2, <2>3, <3>2
    <3>4. QED
      BY <3>1, <3>3
  <2>4. OneEach(Spans(h))
    BY <2>2 DEF OneEach
  <2>5. QED
    BY <2>2, <2>3, <2>4 DEF Apart
<1>2. CASE study.programme # "SL04"
  <2>1. Spans(h) = {<<1, Length>>}
    BY <1>2 DEF Spans
  <2>2. <<1, Length>> \in LabSlices
    BY LengthsAssumption DEF LabSlices
  <2>3. QED
    BY <1>2, <2>1, <2>2 DEF Apart, OneEach
<1>3. QED
  BY <1>1, <1>2

LEMMA TenthsAre ==
    ASSUME NEW total \in Nat, NEW n \in Nat
    PROVE  Tenths(total, n) \in Nat /\ 10 * Tenths(total, n) <= total * n
<1>1. PICK m : m = total * n
  OBVIOUS
<1>2. m \in Nat
  BY <1>1
<1>3. m \div 10 \in Nat /\ 10 * (m \div 10) <= m
  BY <1>2
<1>4. QED
  BY <1>1, <1>3 DEF Tenths

\* Where development and validation end, of so many candles.
CutOne(total) == Tenths(total, 6)
CutTwo(total) == Tenths(total, 6) + Tenths(total, 2)

LEMMA CutsAre ==
    ASSUME NEW total \in Nat
    PROVE  CutOne(total) \in Nat /\ CutTwo(total) \in Nat /\ (total > 0 => CutTwo(total) < total)
<1>1. PICK a, b : a = Tenths(total, 6) /\ b = Tenths(total, 2)
  OBVIOUS
<1>2. a \in Nat /\ b \in Nat /\ 10 * a <= total * 6 /\ 10 * b <= total * 2
  BY <1>1, TenthsAre
<1>3. total > 0 => a + b < total
  BY <1>2
<1>4. QED
  BY <1>1, <1>2, <1>3 DEF CutOne, CutTwo

\* The phases are the parts between two cuts.
LEMMA PartitionsAre ==
    ASSUME NEW h \in PossibleHistories, NEW spans, spans = Spans(h),
           NEW total, total = Cardinality(Covered(spans))
    PROVE  /\ Partitions(h) = [development |-> Part(spans, 0, CutOne(total)),
                               validation |-> Part(spans, CutOne(total), CutTwo(total)),
                               untouched |-> Part(spans, CutTwo(total), total)]
           /\ total \in Nat
BY CoveredIs DEF Partitions, CutOne, CutTwo

\* Without segments there is always something to test on.
LEMMA SomethingIsUntouched ==
    ASSUME NEW h \in PossibleHistories, study.programme # "SL04"
    PROVE  Partitions(h).untouched # {}
<1>1. PICK spans, total : spans = Spans(h) /\ total = Cardinality(Covered(spans))
  OBVIOUS
<1>2. spans = {<<1, Length>>}
  BY <1>1 DEF Spans
<1>3. Length \in Nat \ {0}
  BY LengthsAssumption
<1>4. Covered(spans) = 1 .. Length
  <2>1. PICK s : s = <<1, Length>>
    OBVIOUS
  <2>2. s \in spans /\ s[1] = 1 /\ s[2] = Length
    BY <1>2, <2>1
  <2>3. \A i \in 1 .. Length : 1 <= i /\ i <= Length
    BY <1>3
  <2>4. QED
    BY <2>2, <2>3 DEF Covered
<1>5. total = Length
  <2>1. Cardinality(1 .. Length) = Length
    BY <1>3, FS_Interval
  <2>2. QED
    BY <1>1, <1>4, <2>1
<1>6. Position(spans, Length) = Length - 1
  <2>1. {j \in Covered(spans) : j < Length} = 1 .. (Length - 1)
    BY <1>3, <1>4
  <2>2. Cardinality(1 .. (Length - 1)) = Length - 1
    BY <1>3, FS_Interval
  <2>3. QED
    BY <2>1, <2>2 DEF Position
<1>7. PICK two : two = CutTwo(total)
  OBVIOUS
<1>8. two \in Nat /\ two < Length
  BY <1>3, <1>5, <1>7, CutsAre
<1>9. PICK s : s = <<1, Length>>
  OBVIOUS
<1>10. Length \in Held(spans, s, two, total)
  <2>1. s[1] = 1 /\ s[2] = Length
    BY <1>9
  <2>2. two <= Length - 1 /\ Length - 1 < total /\ Length \in 1 .. Length
    BY <1>3, <1>5, <1>8
  <2>3. QED
    BY <1>6, <2>1, <2>2 DEF Held
<1>11. Held(spans, s, two, total) # {} /\ s \in spans
  BY <1>2, <1>9, <1>10
<1>12. <<Min(Held(spans, s, two, total)), Max(Held(spans, s, two, total))>>
         \in Part(spans, two, total)
  BY <1>11 DEF Part, Held
<1>13. Partitions(h).untouched = Part(spans, two, total)
  BY <1>1, <1>7, PartitionsAre
<1>14. QED
  BY <1>12, <1>13

\* The three groups of slices a study works with, as they are split off the history.
LEMMA PhasesFollow ==
    ASSUME NEW h \in PossibleHistories, NEW parts, parts = Partitions(h)
    PROVE  /\ parts.development \in SUBSET LabSlices /\ Apart(parts.development)
           /\ parts.validation \in SUBSET LabSlices /\ Apart(parts.validation)
           /\ parts.untouched \in SUBSET LabSlices /\ Apart(parts.untouched)
           /\ Precedes(parts.development, parts.validation)
           /\ Precedes(parts.validation, parts.untouched)
           /\ Precedes(parts.development, parts.untouched)
           /\ \A p \in parts.untouched : \E s \in Spans(h) : s[1] <= p[1] /\ p[2] <= s[2]
<1>1. PICK spans, total : spans = Spans(h) /\ total = Cardinality(Covered(spans))
  OBVIOUS
<1>2. /\ parts.development = Part(spans, 0, CutOne(total))
      /\ parts.validation = Part(spans, CutOne(total), CutTwo(total))
      /\ parts.untouched = Part(spans, CutTwo(total), total)
      /\ total \in Nat
  BY <1>1, PartitionsAre
<1>3. spans \in SUBSET LabSlices /\ Apart(spans)
  BY <1>1, SpansAre
<1>4. PICK one, two : one = CutOne(total) /\ two = CutTwo(total)
  OBVIOUS
<1>5. one \in Nat /\ two \in Nat /\ 0 \in Nat /\ one <= two
  <2>1. Tenths(total, 6) \in Nat /\ Tenths(total, 2) \in Nat
    BY <1>2, TenthsAre
  <2>2. QED
    BY <1>4, <2>1 DEF CutOne, CutTwo
<1>6. /\ Part(spans, 0, one) \in SUBSET LabSlices /\ Apart(Part(spans, 0, one))
      /\ Part(spans, one, two) \in SUBSET LabSlices /\ Apart(Part(spans, one, two))
  BY <1>3, <1>5, PartIs
<1>7. /\ Part(spans, two, total) \in SUBSET LabSlices /\ Apart(Part(spans, two, total))
      /\ \A p \in Part(spans, two, total) : \E s \in spans : s[1] <= p[1] /\ p[2] <= s[2]
  BY <1>2, <1>3, <1>5, PartIs
<1>8. /\ Precedes(Part(spans, 0, one), Part(spans, one, two))
      /\ Precedes(Part(spans, one, two), Part(spans, two, total))
  BY <1>2, <1>3, <1>5, PartsPrecede
<1>9. ASSUME NEW p \in Part(spans, 0, one), NEW q \in Part(spans, two, total) PROVE p[2] < q[1]
  <2>1. Position(spans, p[2]) < one /\ two <= Position(spans, q[1])
        /\ p \in LabSlices /\ q \in LabSlices
    BY <1>2, <1>3, <1>5, PartIs
  <2>2. p[2] \in Nat /\ q[1] \in Nat
    BY <2>1, LengthsAssumption DEF LabSlices
  <2>3. SUFFICES ASSUME q[1] <= p[2] PROVE FALSE
    BY <2>2
  <2>4. /\ Position(spans, q[1]) <= Position(spans, p[2])
        /\ Position(spans, q[1]) \in Nat /\ Position(spans, p[2]) \in Nat
    BY <2>2, <2>3, PositionsAreOrdered
  <2>5. QED
    BY <1>5, <2>1, <2>4
<1>10. QED
  BY <1>1, <1>2, <1>4, <1>6, <1>7, <1>8, <1>9 DEF Precedes

-----------------------------------------------------------------------------
(* Selection. *)

\* The slices that a selection is made on end before a candle.
SelectedBefore(n) ==
    /\ slices.development \in SUBSET LabSlices /\ OneEach(slices.development)
    /\ slices.validation \in SUBSET LabSlices /\ OneEach(slices.validation)
    /\ \A s \in slices.development \cup slices.validation : s[2] < n

\* The selection is the same on what is known before the candles it does not look at.
LEMMA SelectionKnown ==
    ASSUME NEW h \in PossibleHistories, NEW n \in Nat, SelectedBefore(n)
    PROVE  Selection(KnownBefore(h, n)) = Selection(h)
<1>1. PICK k : k = KnownBefore(h, n)
  OBVIOUS
<1>2. ASSUME NEW v \in Range(Variants)
      PROVE  /\ SimulateAll(k, slices.validation, v) = SimulateAll(h, slices.validation, v)
             /\ SimulateAll(k, slices.development, v) = SimulateAll(h, slices.development, v)
  BY <1>1, SimulateAllKnown DEF SelectedBefore
<1>3. \A i \in DOMAIN Variants : Variants[i] \in Range(Variants)
  BY DEF Range
<1>4. ASSUME NEW v \in Range(Variants) PROVE Supporters(k, v) = Supporters(h, v)
  BY <1>2, <1>3 DEF Supporters
<1>5. ASSUME NEW v \in Range(Variants) PROVE Score(k, v) = Score(h, v)
  BY <1>2, <1>4 DEF Score
<1>6. ASSUME NEW v \in Range(Variants), NEW w \in Range(Variants)
      PROVE  Beats(k, v, w) <=> Beats(h, v, w)
  BY <1>2, <1>5 DEF Beats
<1>7. PICK D : D = (DOMAIN Variants) \X (DOMAIN Variants)
  OBVIOUS
<1>8. {p \in D : Beats(k, Variants[p[1]], Variants[p[2]])}
         = {p \in D : Beats(h, Variants[p[1]], Variants[p[2]])}
  <2>1. \A p \in D : Variants[p[1]] \in Range(Variants) /\ Variants[p[2]] \in Range(Variants)
    BY <1>3, <1>7
  <2>2. \A p \in D : Beats(k, Variants[p[1]], Variants[p[2]])
                        <=> Beats(h, Variants[p[1]], Variants[p[2]])
    BY <1>6, <2>1
  <2>3. QED
    BY <2>2
<1>9. /\ Selection(k) = FirstBest({p \in D : Beats(k, Variants[p[1]], Variants[p[2]])})
      /\ Selection(h) = FirstBest({p \in D : Beats(h, Variants[p[1]], Variants[p[2]])})
  BY <1>7 DEF Selection
<1>10. QED
  BY <1>1, <1>8, <1>9

\* And so is the best variant of a window.
LEMMA BestOfKnown ==
    ASSUME NEW h \in PossibleHistories, NEW slice \in LabSlices, NEW n \in Nat, slice[2] < n
    PROVE  BestOf(KnownBefore(h, n), slice) = BestOf(h, slice)
<1>1. PICK k : k = KnownBefore(h, n)
  OBVIOUS
<1>2. \A v \in Range(Variants) : Simulate(k, slice, v) = Simulate(h, slice, v)
  BY <1>1, SimulateKnown
<1>3. \A i \in DOMAIN Variants : Variants[i] \in Range(Variants)
  BY DEF Range
<1>4. PICK D : D = (DOMAIN Variants) \X (DOMAIN Variants)
  OBVIOUS
<1> DEFINE Ahead(g) == {p \in D : Better(Simulate(g, slice, Variants[p[1]]),
                                         Simulate(g, slice, Variants[p[2]]))}
<1>5. Ahead(k) = Ahead(h)
  <2>1. \A p \in D : Variants[p[1]] \in Range(Variants) /\ Variants[p[2]] \in Range(Variants)
    BY <1>3, <1>4
  <2>2. \A p \in D : /\ Simulate(k, slice, Variants[p[1]]) = Simulate(h, slice, Variants[p[1]])
                     /\ Simulate(k, slice, Variants[p[2]]) = Simulate(h, slice, Variants[p[2]])
    BY <1>2, <2>1
  <2>3. QED
    BY <2>2
<1>6. BestOf(k, slice) = FirstBest(Ahead(k)) /\ BestOf(h, slice) = FirstBest(Ahead(h))
  BY <1>4 DEF BestOf
<1>7. QED
  BY <1>1, <1>5, <1>6

LEMMA OpeningIs ==
    ASSUME NEW group \in SUBSET LabSlices, group # {}
    PROVE  Opening(group) \in Nat /\ \E q \in group : q[1] = Opening(group)
<1>1. PICK F : F = {s[1] : s \in group}
  OBVIOUS
<1>2. F \subseteq Nat /\ F # {}
  <2>1. \A s \in group : s[1] \in Nat
    BY LengthsAssumption DEF LabSlices
  <2>2. QED
    BY <1>1, <2>1
<1>3. PICK m : m = Min(F)
  OBVIOUS
<1>4. m \in F
  BY <1>2, <1>3, MinIs
<1>5. Opening(group) = m
  BY <1>1, <1>3 DEF Opening
<1>6. QED
  BY <1>1, <1>2, <1>4, <1>5

-----------------------------------------------------------------------------
(* The walk forward. *)

\* A window of a span: its validation follows its development, inside the span.
InSpan(w, s) ==
    /\ w.development \in LabSlices /\ w.validation \in LabSlices
    /\ s[1] <= w.development[1] /\ w.validation[2] <= s[2]
    /\ w.development[2] < w.validation[1]

LEMMA QuotientIs ==
    ASSUME NEW n \in Nat, NEW d \in Nat \ {0}, NEW k \in 1 .. ((n \div d) + 1)
    PROVE  (k - 1) * d \in Nat /\ (k - 1) * d <= n
<1>1. PICK q : q = n \div d
  OBVIOUS
<1>2. q \in Nat /\ q * d <= n
  BY <1>1
<1>3. PICK j : j = k - 1
  OBVIOUS
<1>4. j \in Nat /\ j <= q
  BY <1>1, <1>2, <1>3
<1>5. j * d <= q * d /\ j * d \in Nat
  BY <1>2, <1>4
<1>6. q * d \in Nat
  BY <1>2
<1>7. QED
  BY <1>2, <1>3, <1>5, <1>6

\* The windows of a span lie in it.
LEMMA WindowsAre ==
    ASSUME NEW span \in LabSlices
    PROVE  /\ \E n \in Nat : DOMAIN WindowsOf(span) = 1 .. n
           /\ \A k \in DOMAIN WindowsOf(span) : InSpan(WindowsOf(span)[k], span)
<1>1. PICK long, short : /\ long = Most(MinimumDevelopment, Tenths(Size(span), 4))
                         /\ short = Most(MinimumValidation, Tenths(Size(span), 2))
  OBVIOUS
<1>2. PICK a, b : a = span[1] /\ b = span[2]
  OBVIOUS
<1>3. a \in 1 .. Length /\ b \in 1 .. Length /\ a <= b /\ Length \in Nat
  BY <1>2, LengthsAssumption DEF LabSlices
<1>4. Size(span) = b - a + 1 /\ Size(span) \in Nat
  BY <1>2, <1>3 DEF Size
<1>5. long \in Nat \ {0} /\ short \in Nat \ {0}
  <2>1. Tenths(Size(span), 4) \in Nat /\ Tenths(Size(span), 2) \in Nat
    BY <1>4, TenthsAre
  <2>2. MinimumDevelopment \in Nat \ {0} /\ MinimumValidation \in Nat \ {0}
    BY LengthsAssumption
  <2>3. QED
    BY <1>1, <2>1, <2>2 DEF Most
<1>6. PICK rest : rest = Size(span) - long - short
  OBVIOUS
<1>7. PICK count : count = IF Size(span) < long + short THEN 0 ELSE rest \div short + 1
  OBVIOUS
<1>8. PICK n : n = IF study.programme = "SL02" THEN count ELSE Least(3, count)
  OBVIOUS
<1>9. count \in Nat /\ n \in Nat /\ n <= count
  <2>1. CASE Size(span) < long + short
    BY <1>7, <1>8, <2>1 DEF Least
  <2>2. CASE ~(Size(span) < long + short)
    <3>1. rest \in Nat
      BY <1>4, <1>5, <1>6, <2>2
    <3>2. rest \div short \in Nat
      BY <1>5, <3>1
    <3>3. count \in Nat
      BY <1>7, <2>2, <3>2
    <3>4. QED
      BY <1>8, <3>3 DEF Least
  <2>3. QED
    BY <2>1, <2>2
<1> DEFINE start(k) == a + (k - 1) * short
           window(k) == [development |-> <<start(k), start(k) + long - 1>>,
                         validation |-> <<start(k) + long, start(k) + long + short - 1>>]
<1>10. WindowsOf(span) = [k \in 1 .. n |-> window(k)]
  BY <1>1, <1>2, <1>6, <1>7, <1>8 DEF WindowsOf
<1>11. ASSUME NEW k \in 1 .. n PROVE InSpan(window(k), span)
  <2>1. ~(Size(span) < long + short)
    BY <1>7, <1>9
  <2>2. rest \in Nat
    BY <1>4, <1>5, <1>6, <2>1
  <2>3. k \in 1 .. ((rest \div short) + 1)
    BY <1>7, <1>9, <2>1
  <2>4. PICK m : m = (k - 1) * short
    OBVIOUS
  <2>5. m \in Nat /\ m <= rest
    BY <1>5, <2>2, <2>3, <2>4, QuotientIs
  <2>6. start(k) = a + m
    BY <2>4
  <2>7. a + m + long + short - 1 <= b
    BY <1>3, <1>4, <1>5, <1>6, <2>2, <2>5
  <2>8. PICK w : w = window(k)
    OBVIOUS
  <2>9. /\ w.development = <<a + m, a + m + long - 1>>
        /\ w.validation = <<a + m + long, a + m + long + short - 1>>
    BY <2>6, <2>8
  <2>10. /\ a + m \in 1 .. Length /\ a + m + long - 1 \in 1 .. Length
         /\ a + m + long \in 1 .. Length /\ a + m + long + short - 1 \in 1 .. Length
    BY <1>3, <1>5, <2>5, <2>7
  <2>11. a + m <= a + m + long - 1 /\ a + m + long <= a + m + long + short - 1
    BY <1>3, <1>5, <2>5
  <2>12. w.development \in LabSlices /\ w.validation \in LabSlices
    BY <2>9, <2>10, <2>11 DEF LabSlices
  <2>13. a <= a + m /\ a + m + long - 1 < a + m + long
    BY <1>3, <1>5, <2>5
  <2>14. InSpan(w, span)
    BY <1>2, <2>7, <2>9, <2>12, <2>13 DEF InSpan
  <2>15. QED
    BY <2>8, <2>14
<1> HIDE DEF window
<1>12. DOMAIN WindowsOf(span) = 1 .. n /\ \A k \in 1 .. n : WindowsOf(span)[k] = window(k)
  BY <1>10
<1>13. QED
  BY <1>9, <1>11, <1>12

-----------------------------------------------------------------------------
(* Sums over trades. *)

\* A function on the sets 1 .. k that folds a step from the left.
LEMMA FoldExists ==
    ASSUME NEW n \in Nat, NEW step \in [Int \X (1 .. n) -> Int]
    PROVE  \E h \in [SUBSET (1 .. n) -> Int] :
              \A s \in SUBSET (1 .. n) :
                 h[s] = IF s = {} THEN 0 ELSE step[<<h[s \ {Max(s)}], Max(s)>>]
<1> DEFINE D == 1 .. n
           ValueOf(h, s) == IF s = {} THEN 0 ELSE step[<<h[s \ {Max(s)}], Max(s)>>]
           Fine(m) == \E h \in [SUBSET D -> Int] : \A s \in SUBSET (1 .. m) : h[s] = ValueOf(h, s)
           Done == {m \in Nat : m <= n => Fine(m)}
<1>1. ASSUME NEW s \in SUBSET D, s # {}
      PROVE  Max(s) \in s /\ \A y \in s : y <= Max(s)
  <2>1. s \subseteq Nat /\ \A x \in s : x <= n
    OBVIOUS
  <2>2. QED
    BY <1>1, <2>1, MaxIs
<1> HIDE DEF ValueOf, Fine
<1>2. 0 \in Done
  <2>1. PICK h : h = [s \in SUBSET D |-> 0]
    OBVIOUS
  <2>2. h \in [SUBSET D -> Int]
    BY <2>1
  <2>3. ASSUME NEW s \in SUBSET (1 .. 0) PROVE h[s] = ValueOf(h, s)
    <3>1. s = {} /\ s \in SUBSET D
      OBVIOUS
    <3>2. QED
      BY <2>1, <3>1 DEF ValueOf
  <2>4. QED
    BY <2>2, <2>3 DEF Fine
<1>3. ASSUME NEW m \in Nat, m \in Done PROVE m + 1 \in Done
  <2> SUFFICES ASSUME m + 1 <= n PROVE Fine(m + 1)
    OBVIOUS
  <2>0. Fine(m)
    BY <1>3
  <2>1. PICK g \in [SUBSET D -> Int] : \A s \in SUBSET (1 .. m) : g[s] = ValueOf(g, s)
    BY <2>0 DEF Fine
  <2>2. PICK h : h = [s \in SUBSET D |-> IF s \subseteq 1 .. m THEN g[s] ELSE ValueOf(g, s)]
    OBVIOUS
  <2>3. ASSUME NEW s \in SUBSET D, s # {} PROVE ValueOf(g, s) \in Int
    <3>1. Max(s) \in D /\ s \ {Max(s)} \in SUBSET D
      BY <1>1, <2>3
    <3>2. PICK x, r : x = Max(s) /\ r = s \ {Max(s)}
      OBVIOUS
    <3>3. g[r] \in Int /\ x \in D
      BY <3>1, <3>2
    <3>4. step[<<g[r], x>>] \in Int
      BY <3>3
    <3>5. QED
      BY <2>3, <3>2, <3>4 DEF ValueOf
  <2>4. h \in [SUBSET D -> Int]
    <3>1. ASSUME NEW s \in SUBSET D
          PROVE  (IF s \subseteq 1 .. m THEN g[s] ELSE ValueOf(g, s)) \in Int
      <4>1. CASE s \subseteq 1 .. m
        BY <4>1
      <4>2. CASE ~(s \subseteq 1 .. m)
        <5>1. s # {}
          BY <4>2
        <5>2. QED
          BY <2>3, <4>2, <5>1
      <4>3. QED
        BY <4>1, <4>2
    <3>2. QED
      BY <2>2, <3>1
  <2>5. ASSUME NEW s \in SUBSET (1 .. m + 1) PROVE h[s] = ValueOf(h, s)
    <3>1. s \in SUBSET D
      OBVIOUS
    <3>2. ValueOf(h, s) = ValueOf(g, s)
      <4>1. CASE s = {}
        BY <4>1 DEF ValueOf
      <4>2. CASE s # {}
        <5>1. PICK x, r : x = Max(s) /\ r = s \ {x}
          OBVIOUS
        <5>2. x \in s /\ \A y \in s : y <= x
          BY <1>1, <3>1, <4>2, <5>1
        <5>3. r \subseteq 1 .. m /\ r \in SUBSET D
          <6>1. ASSUME NEW y \in r PROVE y \in 1 .. m
            <7>1. y \in 1 .. m + 1 /\ x \in 1 .. m + 1 /\ y <= x /\ y # x
              BY <5>1, <5>2
            <7>2. QED
              BY <7>1
          <6>2. QED
            BY <3>1, <5>1, <6>1
        <5>4. h[r] = g[r]
          BY <2>2, <5>3
        <5>5. QED
          BY <4>2, <5>1, <5>4 DEF ValueOf
      <4>3. QED
        BY <4>1, <4>2
    <3>3. CASE s \subseteq 1 .. m
      <4>1. h[s] = g[s] /\ g[s] = ValueOf(g, s)
        BY <2>1, <2>2, <3>1, <3>3
      <4>2. QED
        BY <3>2, <4>1
    <3>4. CASE ~(s \subseteq 1 .. m)
      <4>1. h[s] = ValueOf(g, s)
        BY <2>2, <3>1, <3>4
      <4>2. QED
        BY <3>2, <4>1
    <3>5. QED
      BY <3>3, <3>4
  <2>6. QED
    BY <2>4, <2>5 DEF Fine
<1>4. n \in Done
  <2> HIDE DEF Done
  <2>1. QED
    BY <1>2, <1>3, NaturalsFrom
<1>5. Fine(n)
  BY <1>4
<1>6. QED
  BY <1>5 DEF ValueOf, Fine

\* Net's fold, and Gross's, as functions of the places summed over.
NetOver(trades, cost) ==
    CHOOSE h : h = [s \in SUBSET DOMAIN trades |->
        IF s = {} THEN 0 ELSE h[s \ {Max(s)}] + trades[Max(s)].gross - cost]
GrossOver(trades) ==
    CHOOSE h : h = [s \in SUBSET DOMAIN trades |->
        IF s = {} THEN 0 ELSE h[s \ {Max(s)}] + trades[Max(s)].gross]

LEMMA NetIsOver ==
    ASSUME NEW trades, NEW percent
    PROVE  Net(trades, percent) = NetOver(trades, Cost(percent))[DOMAIN trades]
BY Zenon DEF Net, FoldLeft, MapThenFoldSet, NetOver

LEMMA GrossIsOver ==
    ASSUME NEW trades
    PROVE  Gross(trades) = GrossOver(trades)[DOMAIN trades]
BY Zenon DEF Gross, FoldLeft, MapThenFoldSet, GrossOver

\* Such a fold adds trade by trade.
LEMMA NetOverIs ==
    ASSUME NEW trades \in Seq(LabTrades), NEW cost \in Int
    PROVE  \A s \in SUBSET (1 .. Len(trades)) :
              NetOver(trades, cost)[s] =
                  IF s = {} THEN 0
                  ELSE NetOver(trades, cost)[s \ {Max(s)}] + trades[Max(s)].gross - cost
<1>0. PICK n, h : n = Len(trades) /\ h = NetOver(trades, cost)
  OBVIOUS
<1>1. n \in Nat /\ DOMAIN trades = 1 .. n
  BY <1>0
<1>2. \A i \in 1 .. n : trades[i].gross \in Int
  <2>1. \A i \in 1 .. n : trades[i] \in LabTrades
    BY <1>1
  <2>2. QED
    BY <2>1 DEF LabTrades
<1>3. PICK step : step = [p \in Int \X (1 .. n) |-> p[1] + trades[p[2]].gross - cost]
  OBVIOUS
<1>4. step \in [Int \X (1 .. n) -> Int]
  BY <1>2, <1>3
<1>5. PICK g \in [SUBSET (1 .. n) -> Int] :
         \A s \in SUBSET (1 .. n) :
            g[s] = IF s = {} THEN 0 ELSE step[<<g[s \ {Max(s)}], Max(s)>>]
  BY <1>1, <1>4, FoldExists
<1> DEFINE F(f) == [s \in SUBSET DOMAIN trades |->
                      IF s = {} THEN 0 ELSE f[s \ {Max(s)}] + trades[Max(s)].gross - cost]
<1>6. ASSUME NEW s \in SUBSET (1 .. n), s # {}
      PROVE  g[s] = g[s \ {Max(s)}] + trades[Max(s)].gross - cost
  <2>1. s \subseteq Nat /\ \A x \in s : x <= n
    BY <1>1
  <2>2. Max(s) \in s
    BY <1>1, <1>6, <2>1, MaxIs
  <2>3. PICK x, r : x = Max(s) /\ r = s \ {Max(s)}
    OBVIOUS
  <2>4. x \in 1 .. n /\ g[r] \in Int
    BY <2>2, <2>3
  <2>5. g[s] = step[<<g[r], x>>]
    BY <1>5, <1>6, <2>3
  <2>6. step[<<g[r], x>>] = g[r] + trades[x].gross - cost
    BY <1>3, <2>4
  <2>7. QED
    BY <2>3, <2>5, <2>6
<1>7. g = F(g)
  <2>1. g \in [SUBSET DOMAIN trades -> Int]
    BY <1>1
  <2>2. \A s \in SUBSET DOMAIN trades :
           g[s] = IF s = {} THEN 0 ELSE g[s \ {Max(s)}] + trades[Max(s)].gross - cost
    BY <1>1, <1>5, <1>6
  <2>3. QED
    BY <2>1, <2>2
<1>8. h = CHOOSE f : f = F(f)
  BY <1>0 DEF NetOver
<1>9. h = F(h)
  <2> HIDE DEF F
  <2>1. QED
    BY <1>7, <1>8
<1>10. \A s \in SUBSET (1 .. n) : h[s] = F(h)[s]
  BY <1>9
<1>11. QED
  BY <1>0, <1>1, <1>10

LEMMA GrossOverIs ==
    ASSUME NEW trades \in Seq(LabTrades)
    PROVE  \A s \in SUBSET (1 .. Len(trades)) :
              GrossOver(trades)[s] =
                  IF s = {} THEN 0
                  ELSE GrossOver(trades)[s \ {Max(s)}] + trades[Max(s)].gross
<1>0. PICK n, h : n = Len(trades) /\ h = GrossOver(trades)
  OBVIOUS
<1>1. n \in Nat /\ DOMAIN trades = 1 .. n
  BY <1>0
<1>2. \A i \in 1 .. n : trades[i].gross \in Int
  <2>1. \A i \in 1 .. n : trades[i] \in LabTrades
    BY <1>1
  <2>2. QED
    BY <2>1 DEF LabTrades
<1>3. PICK step : step = [p \in Int \X (1 .. n) |-> p[1] + trades[p[2]].gross]
  OBVIOUS
<1>4. step \in [Int \X (1 .. n) -> Int]
  BY <1>2, <1>3
<1>5. PICK g \in [SUBSET (1 .. n) -> Int] :
         \A s \in SUBSET (1 .. n) :
            g[s] = IF s = {} THEN 0 ELSE step[<<g[s \ {Max(s)}], Max(s)>>]
  BY <1>1, <1>4, FoldExists
<1> DEFINE F(f) == [s \in SUBSET DOMAIN trades |->
                      IF s = {} THEN 0 ELSE f[s \ {Max(s)}] + trades[Max(s)].gross]
<1>6. ASSUME NEW s \in SUBSET (1 .. n), s # {}
      PROVE  g[s] = g[s \ {Max(s)}] + trades[Max(s)].gross
  <2>1. s \subseteq Nat /\ \A x \in s : x <= n
    BY <1>1
  <2>2. Max(s) \in s
    BY <1>1, <1>6, <2>1, MaxIs
  <2>3. PICK x, r : x = Max(s) /\ r = s \ {Max(s)}
    OBVIOUS
  <2>4. x \in 1 .. n /\ g[r] \in Int
    BY <2>2, <2>3
  <2>5. g[s] = step[<<g[r], x>>]
    BY <1>5, <1>6, <2>3
  <2>6. step[<<g[r], x>>] = g[r] + trades[x].gross
    BY <1>3, <2>4
  <2>7. QED
    BY <2>3, <2>5, <2>6
<1>7. g = F(g)
  <2>1. g \in [SUBSET DOMAIN trades -> Int]
    BY <1>1
  <2>2. \A s \in SUBSET DOMAIN trades :
           g[s] = IF s = {} THEN 0 ELSE g[s \ {Max(s)}] + trades[Max(s)].gross
    BY <1>1, <1>5, <1>6
  <2>3. QED
    BY <2>1, <2>2
<1>8. h = CHOOSE f : f = F(f)
  BY <1>0 DEF GrossOver
<1>9. h = F(h)
  <2> HIDE DEF F
  <2>1. QED
    BY <1>7, <1>8
<1>10. \A s \in SUBSET (1 .. n) : h[s] = F(h)[s]
  BY <1>9
<1>11. QED
  BY <1>0, <1>1, <1>10

\* The largest of the first places, and what is left without it.
LEMMA TopIs ==
    ASSUME NEW m \in Nat
    PROVE  Max(1 .. m + 1) = m + 1 /\ (1 .. m + 1) \ {m + 1} = 1 .. m /\ 1 .. m + 1 # {}
<1>1. PICK S : S = 1 .. m + 1
  OBVIOUS
<1>2. S \subseteq Nat /\ S # {} /\ \A x \in S : x <= m + 1
  BY <1>1
<1>3. PICK x : x = Max(S)
  OBVIOUS
<1>4. x \in S /\ \A y \in S : y <= x
  <2>1. m + 1 \in Nat
    OBVIOUS
  <2>2. QED
    BY <1>2, <1>3, <2>1, MaxIs
<1>5. m + 1 \in S
  BY <1>1
<1>6. x = m + 1
  BY <1>1, <1>4, <1>5
<1>7. QED
  BY <1>1, <1>2, <1>3, <1>6

\* What trades earn is their gross less the costs of each.
LEMMA NetIs ==
    ASSUME NEW trades \in Seq(LabTrades), NEW percent, Cost(percent) \in Int
    PROVE  Gross(trades) \in Int
           /\ Net(trades, percent) = Gross(trades) - Len(trades) * Cost(percent)
<1>1. PICK n, c, f, g : /\ n = Len(trades) /\ c = Cost(percent)
                        /\ f = NetOver(trades, c) /\ g = GrossOver(trades)
  OBVIOUS
<1>2. n \in Nat /\ DOMAIN trades = 1 .. n /\ c \in Int
  BY <1>1
<1>3. \A i \in 1 .. n : trades[i].gross \in Int
  <2>1. \A i \in 1 .. n : trades[i] \in LabTrades
    BY <1>2
  <2>2. QED
    BY <2>1 DEF LabTrades
<1>4. \A s \in SUBSET (1 .. n) :
         f[s] = IF s = {} THEN 0 ELSE f[s \ {Max(s)}] + trades[Max(s)].gross - c
  BY <1>1, <1>2, NetOverIs
<1>5. \A s \in SUBSET (1 .. n) :
         g[s] = IF s = {} THEN 0 ELSE g[s \ {Max(s)}] + trades[Max(s)].gross
  BY <1>1, GrossOverIs
<1> DEFINE S == {m \in Nat : m <= n => g[1 .. m] \in Int /\ f[1 .. m] = g[1 .. m] - m * c}
<1>6. 0 \in S
  <2>1. 1 .. 0 = {} /\ {} \in SUBSET (1 .. n)
    OBVIOUS
  <2>2. f[{}] = 0 /\ g[{}] = 0
    BY <1>4, <1>5, <2>1
  <2>3. 0 * c = 0
    BY <1>2
  <2>4. QED
    BY <2>1, <2>2, <2>3
<1>7. ASSUME NEW m \in Nat, m \in S PROVE m + 1 \in S
  <2> SUFFICES ASSUME m + 1 <= n
               PROVE  g[1 .. m + 1] \in Int /\ f[1 .. m + 1] = g[1 .. m + 1] - (m + 1) * c
    OBVIOUS
  <2>1. PICK a, b : a = f[1 .. m] /\ b = g[1 .. m]
    OBVIOUS
  <2>2. b \in Int /\ a = b - m * c
    BY <1>2, <1>7, <2>1
  <2>3. PICK x : x = trades[m + 1].gross
    OBVIOUS
  <2>4. x \in Int
    BY <1>2, <1>3, <2>3
  <2>5. 1 .. m + 1 \in SUBSET (1 .. n)
    BY <1>2
  <2>6. Max(1 .. m + 1) = m + 1 /\ (1 .. m + 1) \ {m + 1} = 1 .. m /\ 1 .. m + 1 # {}
    BY TopIs
  <2>7. f[1 .. m + 1] = a + x - c
    BY <1>4, <2>1, <2>3, <2>5, <2>6
  <2>8. g[1 .. m + 1] = b + x
    BY <1>5, <2>1, <2>3, <2>5, <2>6
  <2>9. PICK d, e : d = m * c /\ e = (m + 1) * c
    OBVIOUS
  <2>10. d \in Int /\ e = d + c
    BY <1>2, <2>9
  <2>11. PICK y, z : y = f[1 .. m + 1] /\ z = g[1 .. m + 1]
    OBVIOUS
  <2>12. y = a + x - c /\ z = b + x /\ a = b - d
    BY <2>2, <2>7, <2>8, <2>9, <2>11
  <2>13. z \in Int /\ y = z - e
    BY <1>2, <2>2, <2>4, <2>10, <2>12
  <2>14. QED
    BY <2>9, <2>11, <2>13
<1>8. n \in S
  <2> HIDE DEF S
  <2>1. QED
    BY <1>2, <1>6, <1>7, NaturalsFrom
<1>9. g[1 .. n] \in Int /\ f[1 .. n] = g[1 .. n] - n * c
  BY <1>2, <1>8
<1>10. Net(trades, percent) = f[1 .. n] /\ Gross(trades) = g[1 .. n]
  BY <1>1, <1>2, NetIsOver, GrossIsOver
<1>11. QED
  BY <1>1, <1>9, <1>10

-----------------------------------------------------------------------------
(* What was walked. *)

\* A window lies in a span; its variant is the best of its development, and its trades are
\* those of its validation.
WalkIs(h, e) ==
    /\ \E s \in Spans(h) : InSpan(e.window, s)
    /\ e.variant = BestOf(h, e.window.development)
    /\ e.trades = Simulate(h, e.window.validation, e.variant)

LEMMA WalkedIs ==
    ASSUME NEW h, NEW s \in Spans(h), NEW w, InSpan(w, s)
    PROVE  WalkIs(h, Walked(h, w))
<1>1. PICK e : e = Walked(h, w)
  OBVIOUS
<1>2. /\ e.window = w /\ e.variant = BestOf(h, w.development)
      /\ e.trades = Simulate(h, w.validation, BestOf(h, w.development))
  BY <1>1 DEF Walked
<1>3. WalkIs(h, e)
  BY <1>2 DEF WalkIs
<1>4. QED
  BY <1>1, <1>3

\* All that is walked forward are walks.
LEMMA WalkedAllIs ==
    ASSUME NEW h \in PossibleHistories
    PROVE  /\ DOMAIN WalkedAll(h) = 1 .. Len(WalkedAll(h)) /\ Len(WalkedAll(h)) \in Nat
           /\ \A k \in DOMAIN WalkedAll(h) : WalkIs(h, WalkedAll(h)[k])
<1>1. PICK spans, o : spans = Spans(h) /\ o = InOrder(spans)
  OBVIOUS
<1>2. spans \in SUBSET LabSlices /\ Apart(spans)
  BY <1>1, SpansAre
<1>3. o \in Seq(spans)
  BY <1>1, <1>2, InOrderIs DEF Apart
<1>4. Len(o) \in Nat /\ DOMAIN o = 1 .. Len(o) /\ \A k \in DOMAIN o : o[k] \in spans
  BY <1>3
<1> DEFINE walk(s) == [j \in DOMAIN WindowsOf(s) |-> Walked(h, WindowsOf(s)[j])]
           T == UNION {{walk(s)[j] : j \in DOMAIN WindowsOf(s)} : s \in spans}
<1>5. ASSUME NEW e \in T PROVE WalkIs(h, e)
  <2>1. PICK s \in spans : \E j \in DOMAIN WindowsOf(s) : e = walk(s)[j]
    OBVIOUS
  <2>2. PICK j \in DOMAIN WindowsOf(s) : e = walk(s)[j]
    BY <2>1
  <2>3. e = Walked(h, WindowsOf(s)[j])
    BY <2>2
  <2>4. s \in LabSlices /\ s \in Spans(h)
    BY <1>1, <1>2
  <2>5. InSpan(WindowsOf(s)[j], s)
    BY <2>4, WindowsAre
  <2>6. QED
    BY <2>3, <2>4, <2>5, WalkedIs
<1>6. ASSUME NEW s \in spans PROVE walk(s) \in Seq(T)
  <2>1. PICK n \in Nat : DOMAIN WindowsOf(s) = 1 .. n
    BY <1>2, WindowsAre
  <2>2. walk(s) = [j \in 1 .. n |-> walk(s)[j]]
    BY <2>1
  <2>3. \A j \in 1 .. n : walk(s)[j] \in T
    BY <2>1
  <2> HIDE DEF walk, T
  <2>4. walk(s) \in [1 .. n -> T]
    BY <2>2, <2>3
  <2>5. QED
    BY <2>4
<1>7. PICK seqs : seqs = [k \in DOMAIN o |-> walk(o[k])]
  OBVIOUS
<1>8. WalkedAll(h) = FlattenSeq(seqs)
  BY <1>1, <1>7 DEF WalkedAll
<1> HIDE DEF walk, T
<1>9. seqs \in Seq(Seq(T))
  <2>1. PICK U, n : U = Seq(T) /\ n = Len(o)
    OBVIOUS
  <2>2. seqs \in [1 .. n -> U] /\ n \in Nat
    BY <1>4, <1>6, <1>7, <2>1
  <2>3. QED
    BY <2>1, <2>2
<1>10. PICK w : w = WalkedAll(h)
  OBVIOUS
<1>11. w \in Seq(T)
  BY <1>8, <1>9, <1>10, FlattenComes
<1>12. DOMAIN w = 1 .. Len(w) /\ Len(w) \in Nat /\ \A k \in DOMAIN w : w[k] \in T
  BY <1>11
<1>13. QED
  BY <1>5, <1>10, <1>12

LEMMA BestOfIs ==
    ASSUME NEW h, NEW slice
    PROVE  BestOf(h, slice) \in Range(Variants)
BY FirstBestIs DEF BestOf

LEMMA SelectionIs ==
    ASSUME NEW h
    PROVE  Selection(h) \in Range(Variants)
BY FirstBestIs DEF Selection

\* The costs are whole numbers.
LEMMA CostsAre ==
    /\ Cost(100) \in Int /\ Cost(125) \in Int /\ Cost(150) \in Int
<1>1. ASSUME NEW percent \in Nat PROVE Cost(percent) \in Int
  <2>1. PICK m : m = 32 * percent
    OBVIOUS
  <2>2. m \in Nat /\ m \div 100 \in Int
    BY <2>1
  <2>3. QED
    BY <2>1, <2>2 DEF Cost, Friction, Commission
<1>2. QED
  BY <1>1

-----------------------------------------------------------------------------
(* The laboratory. *)

\* The walk forward that the test of a history earned.
WalkOf(h, trades) ==
    IF study.programme # "SL02" /\ Len(trades) < MinimumTrades THEN <<>> ELSE WalkedAll(h)

\* A study that was not blocked works on its history alone, and each stage holds what the
\* stages before it determine; it is classified at the end.
LabIInv ==
    /\ stage \in {"off", "acquired", "split", "selected", "tested", "walked", "classified"}
    /\ stage # "off" => data \in Histories
    /\ stage \in {"split", "selected", "tested", "walked"} =>
           Blocked = "none" /\ slices = Partitions(data)
    /\ stage \in {"selected", "tested", "walked"} => chosen = Selection(data)
    /\ stage \in {"tested", "walked"} => tested = SimulateAll(data, slices.untouched, chosen)
    /\ stage = "walked" => windows = WalkOf(data, tested)
    /\ stage # "classified" => status = Unset
    /\ ReadinessIsEarned

\* What a study works with follows from its programme and its history: steps that leave
\* these alone leave it alone.
LEMMA StudyStays ==
    ASSUME study' = study, data' = data
    PROVE  Blocked' = Blocked /\ Partitions(data)' = Partitions(data)
<1>1. Spans(data)' = Spans(data)
  BY DEF Spans, EligibleSegments
<1>2. Partitions(data)' = Partitions(data)
  BY DEF Partitions, Spans, EligibleSegments, Part
<1>3. Depth(data)' = Depth(data)
  BY <1>1, Zenon DEF Depth, MapThenSumSet, MapThenFoldSet
<1>4. Complete(Partitions(data))' = Complete(Partitions(data))
  BY <1>2 DEF Complete
<1>5. Blocked' = Blocked
  BY <1>3, <1>4 DEF Blocked
<1>6. QED
  BY <1>2, <1>5

LEMMA ChoiceStays ==
    ASSUME study' = study, data' = data, slices' = slices
    PROVE  Selection(data)' = Selection(data)
BY DEF Selection, Beats, Score, Supporters, SimulateAll, Simulate, Simulation, Enters, Rejects

LEMMA TestStays ==
    ASSUME study' = study, data' = data, slices' = slices, chosen' = chosen
    PROVE  SimulateAll(data, slices.untouched, chosen)'
                = SimulateAll(data, slices.untouched, chosen)
BY DEF SimulateAll, Simulate, Simulation, Enters, Rejects

LEMMA WalkStays ==
    ASSUME study' = study, data' = data, tested' = tested
    PROVE  WalkOf(data, tested)' = WalkOf(data, tested)
<1>1. Spans(data)' = Spans(data)
  BY DEF Spans, EligibleSegments
<1>2. InOrder(Spans(data))' = InOrder(Spans(data))
  BY DEF Spans, EligibleSegments
<1>3. \A w : Walked(data, w)' = Walked(data, w)
  BY DEF Walked, BestOf, Simulate, Simulation, Enters, Rejects
<1>4. \A s : WindowsOf(s)' = WindowsOf(s)
  BY DEF WindowsOf
<1>5. WalkedAll(data)' = WalkedAll(data)
  BY <1>2, <1>3, <1>4 DEF WalkedAll
<1>6. QED
  BY <1>5 DEF WalkOf

LEMMA ReadinessStays ==
    ASSUME UNCHANGED labVars
    PROVE  ReadinessIsEarned' = ReadinessIsEarned
BY DEF labVars, ReadinessIsEarned, GapFree, OutOfSample

\* What the walk forward gives is a sequence of walks.
LEMMA WalkOfIs ==
    ASSUME data \in PossibleHistories, windows = WalkOf(data, tested)
    PROVE  /\ DOMAIN windows = 1 .. Len(windows) /\ Len(windows) \in Nat
           /\ \A k \in DOMAIN windows : WalkIs(data, windows[k])
<1>1. CASE windows = <<>>
  <2>1. Len(windows) = 0 /\ DOMAIN windows = {}
    BY <1>1
  <2>2. QED
    BY <2>1
<1>2. CASE windows = WalkedAll(data)
  BY <1>2, WalkedAllIs
<1>3. QED
  BY <1>1, <1>2 DEF WalkOf

\* The trades out of sample are a sequence of trades.
LEMMA OutOfSampleIs ==
    ASSUME data \in PossibleHistories, windows = WalkOf(data, tested)
    PROVE  OutOfSample \in Seq(LabTrades)
<1>1. PICK n : n = Len(windows)
  OBVIOUS
<1>2. n \in Nat /\ DOMAIN windows = 1 .. n /\ \A k \in 1 .. n : WalkIs(data, windows[k])
  BY <1>1, WalkOfIs
<1>3. ASSUME NEW k \in 1 .. n PROVE windows[k].trades \in Seq(LabTrades)
  <2>1. PICK e : e = windows[k]
    OBVIOUS
  <2>2. WalkIs(data, e)
    BY <1>2, <2>1
  <2>3. /\ e.window.validation \in LabSlices /\ e.variant \in Range(Variants)
        /\ e.trades = Simulate(data, e.window.validation, e.variant)
    BY <2>2, BestOfIs DEF WalkIs, InSpan
  <2>4. QED
    BY <2>1, <2>3, SimulateIs
<1>4. PICK seqs, U : seqs = [k \in DOMAIN windows |-> windows[k].trades] /\ U = Seq(LabTrades)
  OBVIOUS
<1>5. seqs \in [1 .. n -> U]
  BY <1>2, <1>3, <1>4
<1>6. seqs \in Seq(U)
  BY <1>2, <1>5
<1>7. FlattenSeq(seqs) \in Seq(LabTrades)
  BY <1>4, <1>6, FlattenComes
<1>8. QED
  BY <1>4, <1>7 DEF OutOfSample

\* What is not blocked does not diverge from its source (no overlap counts as aligned), has
\* known costs, and is clean.
LEMMA UnblockedIs ==
    ASSUME Blocked = "none"
    PROVE  /\ study.aligned /\ study.priced
           /\ study.programme = "SL04" => Complete(Partitions(data))
           /\ study.programme # "SL04" => data.gaps = {}
BY DEF Blocked

\* A study that was not blocked has no gap in a span.
LEMMA SpansAreClean ==
    ASSUME data \in PossibleHistories, Blocked = "none",
           NEW s \in Spans(data), NEW a \in Nat, NEW b \in Nat, s[1] <= a, b <= s[2]
    PROVE  GapFree(<<a, b>>)
<1>1. \A g \in data.gaps : ~(s[1] < g /\ g <= s[2])
  BY UnblockedIs, SpansAre
<1>2. \A g \in data.gaps : g \in Nat
  <2>1. data.gaps \subseteq 2 .. Length
    BY DEF PossibleHistories
  <2>2. QED
    BY <2>1, LengthsAssumption
<1>3. s[1] \in Nat /\ s[2] \in Nat
  BY SpansAre, LengthsAssumption DEF LabSlices
<1>4. \A g \in data.gaps : ~(a < g /\ g <= b)
  BY <1>1, <1>2, <1>3
<1>5. QED
  BY <1>4 DEF GapFree

\* The trades of the test are each of a slice of it, asked for, in turn, and over no gap.
LEMMA TestIs ==
    ASSUME data \in PossibleHistories, Blocked = "none", slices = Partitions(data),
           chosen \in Range(Variants), tested = SimulateAll(data, slices.untouched, chosen)
    PROVE  /\ tested \in Seq(LabTrades) /\ InTurn(tested)
           /\ \A k \in 1 .. Len(tested) :
                /\ Asked(data, chosen, tested[k])
                /\ GapFree(<<tested[k].entry, tested[k].exit>>)
                /\ \E s \in slices.untouched : s \in LabSlices /\ Within(tested[k], s) /\
                     \E j \in 1 .. Len(Simulate(data, s, chosen)) :
                        tested[k] = Simulate(data, s, chosen)[j]
<1>1. PICK parts, group : parts = Partitions(data) /\ group = parts.untouched
  OBVIOUS
<1>2. /\ group \in SUBSET LabSlices /\ Apart(group)
      /\ \A p \in group : \E s \in Spans(data) : s[1] <= p[1] /\ p[2] <= s[2]
  BY <1>1, PhasesFollow
<1>3. /\ tested \in Seq(LabTrades) /\ InTurn(tested)
      /\ \A k \in 1 .. Len(tested) :
           \E s \in group : \E j \in 1 .. Len(Simulate(data, s, chosen)) :
              tested[k] = Simulate(data, s, chosen)[j]
  BY <1>1, <1>2, SimulateAllIs
<1>4. ASSUME NEW k \in 1 .. Len(tested)
      PROVE  /\ Asked(data, chosen, tested[k])
             /\ GapFree(<<tested[k].entry, tested[k].exit>>)
             /\ \E s \in group : s \in LabSlices /\ Within(tested[k], s) /\
                     \E j \in 1 .. Len(Simulate(data, s, chosen)) :
                        tested[k] = Simulate(data, s, chosen)[j]
  <2>1. PICK s \in group : \E j \in 1 .. Len(Simulate(data, s, chosen)) :
                              tested[k] = Simulate(data, s, chosen)[j]
    BY <1>3
  <2>2. s \in LabSlices
    BY <1>2
  <2>3. Within(tested[k], s) /\ Asked(data, chosen, tested[k])
    BY <2>1, <2>2, SimulateIs
  <2>4. PICK t : t = tested[k]
    OBVIOUS
  <2>5. t \in LabTrades
    BY <1>3, <2>4
  <2>6. t.entry \in Nat /\ t.exit \in Nat
    BY <2>5 DEF LabTrades
  <2>7. PICK p \in Spans(data) : p[1] <= s[1] /\ s[2] <= p[2]
    BY <1>2
  <2>8. p \in LabSlices
    BY <2>7, SpansAre
  <2>9. p[1] <= t.entry /\ t.exit <= p[2]
    <3>1. p[1] \in Nat /\ p[2] \in Nat /\ s[1] \in Nat /\ s[2] \in Nat /\ Warmup \in Nat
      BY <2>2, <2>8, LengthsAssumption DEF LabSlices
    <3>2. s[1] + Warmup < t.entry /\ t.exit <= s[2]
      BY <2>3, <2>4 DEF Within
    <3>3. QED
      BY <2>6, <2>7, <3>1, <3>2
  <2>10. GapFree(<<t.entry, t.exit>>)
    BY <2>6, <2>7, <2>9, SpansAreClean
  <2>11. QED
    BY <2>1, <2>2, <2>3, <2>4, <2>10
<1>5. QED
  BY <1>1, <1>3, <1>4

\* What the study would have to show to be classified so.
EarnedWith(final) ==
    /\ study.aligned /\ study.priced
    /\ \A k \in DOMAIN tested :
        /\ GapFree(<<tested[k].entry, tested[k].exit>>)
        /\ Asked(data, chosen, tested[k])
        /\ k > 1 => tested[k - 1].exit < tested[k].entry
    /\ \A k \in DOMAIN windows :
        GapFree(<<windows[k].window.development[1], windows[k].window.validation[2]>>)
    /\ Len(tested) >= MinimumTotal /\ Len(OutOfSample) >= MinimumOos
    /\ Gross(tested) > Len(tested) * Cost(150)
    /\ Gross(OutOfSample) > Len(OutOfSample) * Cost(100)
    /\ final = "READY_FOR_DEMO_QUALIFICATION" =>
        study.programme # "SL02" /\ Len(OutOfSample) >= MinimumWalk

\* Only a champion that passed the stress is held ready, or a champion.
LEMMA FinalIs ==
    ASSUME Final(Classification) \in {"READY_FOR_DEMO_QUALIFICATION", "CHAMPION_CANDIDATE"}
    PROVE  /\ Classification = "CHAMPION_CANDIDATE" /\ StressPassed
           /\ Final(Classification) = "READY_FOR_DEMO_QUALIFICATION" =>
                study.programme # "SL02" /\ Len(OutOfSample) >= MinimumWalk
<1>1. PICK base : base = Classification
  OBVIOUS
<1>2. base # "READY_FOR_DEMO_QUALIFICATION" /\ base # "STRESS_TEST_FAIL"
  BY <1>1 DEF Classification
<1>3. Final(base) \in {"READY_FOR_DEMO_QUALIFICATION", "CHAMPION_CANDIDATE"}
  BY <1>1
<1>4. /\ base = "CHAMPION_CANDIDATE" /\ StressPassed
      /\ Final(base) = "READY_FOR_DEMO_QUALIFICATION" =>
           study.programme # "SL02" /\ Len(OutOfSample) >= MinimumWalk
  BY <1>2, <1>3 DEF Final
<1>5. QED
  BY <1>1, <1>4

\* A champion has the trades it needs, in the test and in the windows, and these earn.
LEMMA ChampionIs ==
    ASSUME Classification = "CHAMPION_CANDIDATE",
           tested \in Seq(LabTrades), OutOfSample \in Seq(LabTrades)
    PROVE  /\ Len(tested) >= MinimumTotal /\ Len(OutOfSample) >= MinimumOos
           /\ Positive(OutOfSample)
<1>1. PICK n, m : n = Len(tested) /\ m = Len(OutOfSample)
  OBVIOUS
<1>2. n \in Nat /\ m \in Nat /\ MinimumTotal \in Nat /\ MinimumOos \in Nat
  BY <1>1, LengthsAssumption
<1>3. ~(n < MinimumTotal) /\ ~(m < MinimumOos) /\ Positive(OutOfSample)
  BY <1>1 DEF Classification
<1>4. n >= MinimumTotal /\ m >= MinimumOos
  BY <1>2, <1>3
<1>5. QED
  BY <1>1, <1>3, <1>4

\* What earns at a cost has a gross above it.
LEMMA EarnsIs ==
    ASSUME NEW trades \in Seq(LabTrades), NEW percent, Cost(percent) \in Int,
           Net(trades, percent) > 0
    PROVE  Gross(trades) > Len(trades) * Cost(percent)
<1>1. PICK all, g : all = Len(trades) * Cost(percent) /\ g = Gross(trades)
  OBVIOUS
<1>2. Len(trades) \in Nat
  OBVIOUS
<1>3. all \in Int
  BY <1>1, <1>2
<1>4. g \in Int /\ Net(trades, percent) = g - all
  BY <1>1, NetIs
<1>5. g > all
  BY <1>3, <1>4
<1>6. QED
  BY <1>1, <1>5

\* The last step, which classifies, finds its result earned.
LEMMA ClassifiedEarned ==
    ASSUME LabIInv, stage = "walked", NEW final, final = Final(Classification),
           final \in {"READY_FOR_DEMO_QUALIFICATION", "CHAMPION_CANDIDATE"}
    PROVE  EarnedWith(final)
<1>1. /\ data \in PossibleHistories /\ Blocked = "none" /\ slices = Partitions(data)
      /\ chosen = Selection(data) /\ tested = SimulateAll(data, slices.untouched, chosen)
      /\ windows = WalkOf(data, tested)
  BY HistoriesAssumption DEF LabIInv
<1>2. chosen \in Range(Variants)
  BY <1>1, SelectionIs
<1>3. /\ tested \in Seq(LabTrades) /\ InTurn(tested)
      /\ \A k \in 1 .. Len(tested) :
            Asked(data, chosen, tested[k]) /\ GapFree(<<tested[k].entry, tested[k].exit>>)
  BY <1>1, <1>2, TestIs
<1>4. OutOfSample \in Seq(LabTrades)
  BY <1>1, OutOfSampleIs
<1>5. /\ Classification = "CHAMPION_CANDIDATE" /\ StressPassed
      /\ final = "READY_FOR_DEMO_QUALIFICATION" =>
           study.programme # "SL02" /\ Len(OutOfSample) >= MinimumWalk
  BY FinalIs
<1>6. study.aligned /\ study.priced
  BY <1>1, UnblockedIs
<1>7. /\ Len(tested) >= MinimumTotal /\ Len(OutOfSample) >= MinimumOos
      /\ Positive(OutOfSample)
  BY <1>3, <1>4, <1>5, ChampionIs
<1>8. Gross(OutOfSample) > Len(OutOfSample) * Cost(100)
  <2>1. Net(OutOfSample, 100) > 0
    BY <1>7 DEF Positive
  <2>2. QED
    BY <1>4, <2>1, CostsAre, EarnsIs
<1>9. Gross(tested) > Len(tested) * Cost(150)
  <2>1. Net(tested, 150) > 0
    BY <1>5 DEF StressPassed
  <2>2. QED
    BY <1>3, <2>1, CostsAre, EarnsIs
<1>10. ASSUME NEW k \in DOMAIN tested
       PROVE  /\ GapFree(<<tested[k].entry, tested[k].exit>>)
              /\ Asked(data, chosen, tested[k])
              /\ k > 1 => tested[k - 1].exit < tested[k].entry
  <2>1. DOMAIN tested = 1 .. Len(tested) /\ Len(tested) \in Nat
    BY <1>3
  <2>2. k > 1 => k \in 2 .. Len(tested)
    BY <2>1
  <2>3. k > 1 => tested[k - 1].exit < tested[k].entry
    BY <1>3, <2>2 DEF InTurn
  <2>4. QED
    BY <1>3, <2>1, <2>3
<1>11. ASSUME NEW k \in DOMAIN windows
       PROVE  GapFree(<<windows[k].window.development[1], windows[k].window.validation[2]>>)
  <2>1. PICK e : e = windows[k]
    OBVIOUS
  <2>2. WalkIs(data, e)
    BY <1>1, <2>1, WalkOfIs
  <2>3. PICK s \in Spans(data) : InSpan(e.window, s)
    BY <2>2 DEF WalkIs
  <2>4. PICK a, b : a = e.window.development[1] /\ b = e.window.validation[2]
    OBVIOUS
  <2>5. a \in Nat /\ b \in Nat /\ s[1] <= a /\ b <= s[2]
    BY <2>3, <2>4, LengthsAssumption DEF InSpan, LabSlices
  <2>6. GapFree(<<a, b>>)
    BY <1>1, <2>5, SpansAreClean
  <2>7. QED
    BY <2>1, <2>4, <2>6
<1>12. QED
  BY <1>5, <1>6, <1>7, <1>8, <1>9, <1>10, <1>11 DEF EarnedWith

\* The invariant holds at the start.
LEMMA LabStarts ==
    ASSUME LabOff
    PROVE  LabIInv
BY UnsetAssumption DEF LabOff, LabIInv, ReadinessIsEarned

\* Every step of the laboratory keeps its invariant.
LEMMA LabStep ==
    ASSUME LabIInv, [LabNext]_labVars
    PROVE  LabIInv'
<1>1. CASE Acquire
  BY <1>1, UnsetAssumption DEF Acquire, LabIInv, ReadinessIsEarned
<1>2. CASE Block
  <2>1. Blocked \notin {"READY_FOR_DEMO_QUALIFICATION", "CHAMPION_CANDIDATE"}
    BY <1>2 DEF Block, Blocked
  <2>2. status' \notin {"READY_FOR_DEMO_QUALIFICATION", "CHAMPION_CANDIDATE"}
    BY <1>2, <2>1 DEF Block
  <2>3. ReadinessIsEarned'
    BY <2>2 DEF ReadinessIsEarned
  <2>4. QED
    BY <1>2, <2>3 DEF Block, LabIInv
<1>3. CASE Split
  <2>1. study' = study /\ data' = data /\ stage' = "split" /\ status' = Unset
        /\ data' \in Histories /\ Blocked = "none" /\ slices' = Partitions(data)
    BY <1>3 DEF Split, LabIInv
  <2>2. Blocked' = "none" /\ slices' = Partitions(data)'
    BY <2>1, StudyStays
  <2>3. ReadinessIsEarned'
    BY <2>1, UnsetAssumption DEF ReadinessIsEarned
  <2>4. QED
    BY <2>1, <2>2, <2>3 DEF LabIInv
<1>4. CASE Select
  <2>1. /\ study' = study /\ data' = data /\ slices' = slices /\ stage' = "selected"
        /\ status' = Unset /\ data' \in Histories /\ Blocked = "none"
        /\ slices = Partitions(data) /\ chosen' = Selection(data)
    BY <1>4 DEF Select, LabIInv
  <2>2. Blocked' = "none" /\ slices' = Partitions(data)'
    BY <2>1, StudyStays
  <2>3. chosen' = Selection(data)'
    BY <2>1, ChoiceStays
  <2>4. ReadinessIsEarned'
    BY <2>1, UnsetAssumption DEF ReadinessIsEarned
  <2>5. QED
    BY <2>1, <2>2, <2>3, <2>4 DEF LabIInv
<1>5. CASE Test
  <2>1. /\ study' = study /\ data' = data /\ slices' = slices /\ chosen' = chosen
        /\ stage' = "tested" /\ status' = Unset /\ data' \in Histories /\ Blocked = "none"
        /\ slices = Partitions(data) /\ chosen = Selection(data)
        /\ tested' = SimulateAll(data, slices.untouched, chosen)
    BY <1>5 DEF Test, LabIInv
  <2>2. Blocked' = "none" /\ slices' = Partitions(data)'
    BY <2>1, StudyStays
  <2>3. chosen' = Selection(data)'
    BY <2>1, ChoiceStays
  <2>4. tested' = SimulateAll(data, slices.untouched, chosen)'
    BY <2>1, TestStays
  <2>5. ReadinessIsEarned'
    BY <2>1, UnsetAssumption DEF ReadinessIsEarned
  <2>6. QED
    BY <2>1, <2>2, <2>3, <2>4, <2>5 DEF LabIInv
<1>6. CASE WalkForward
  <2>1. /\ study' = study /\ data' = data /\ slices' = slices /\ chosen' = chosen
        /\ tested' = tested
        /\ stage' = "walked" /\ status' = Unset /\ data' \in Histories /\ Blocked = "none"
        /\ slices = Partitions(data) /\ chosen = Selection(data)
        /\ tested = SimulateAll(data, slices.untouched, chosen)
    BY <1>6 DEF WalkForward, LabIInv
  <2>2. Blocked' = "none" /\ slices' = Partitions(data)'
    BY <2>1, StudyStays
  <2>3. chosen' = Selection(data)'
    BY <2>1, ChoiceStays
  <2>4. tested' = SimulateAll(data, slices.untouched, chosen)'
    BY <2>1, TestStays
  <2>5. windows' = WalkOf(data, tested)
    BY <1>6 DEF WalkForward, WalkOf
  <2>6. windows' = WalkOf(data, tested)'
    BY <2>1, <2>5, WalkStays
  <2>7. ReadinessIsEarned'
    BY <2>1, UnsetAssumption DEF ReadinessIsEarned
  <2>8. QED
    BY <2>1, <2>2, <2>3, <2>4, <2>6, <2>7 DEF LabIInv
<1>7. CASE Classify
  <2>1. /\ study' = study /\ data' = data /\ slices' = slices /\ chosen' = chosen
        /\ tested' = tested /\ windows' = windows /\ stage' = "classified"
        /\ stage = "walked" /\ data' \in Histories
    BY <1>7 DEF Classify, LabIInv
  <2>2. PICK final : final = Final(Classification)
    OBVIOUS
  <2>3. status' = final
    BY <1>7, <2>2 DEF Classify
  <2>4. CASE final \in {"READY_FOR_DEMO_QUALIFICATION", "CHAMPION_CANDIDATE"}
    <3>1. EarnedWith(final)
      BY <2>1, <2>2, <2>4, ClassifiedEarned
    <3>2. EarnedWith(final)'
      BY <2>1, <3>1 DEF EarnedWith, GapFree, Asked, OutOfSample
    <3>3. ReadinessIsEarned'
      BY <2>3, <3>2 DEF EarnedWith, Asked, ReadinessIsEarned
    <3>4. QED
      BY <2>1, <3>3 DEF LabIInv
  <2>5. CASE final \notin {"READY_FOR_DEMO_QUALIFICATION", "CHAMPION_CANDIDATE"}
    <3>1. ReadinessIsEarned'
      BY <2>3, <2>5 DEF ReadinessIsEarned
    <3>2. QED
      BY <2>1, <3>1 DEF LabIInv
  <2>6. QED
    BY <2>4, <2>5
<1>8. CASE UNCHANGED labVars
  <2>1. /\ study' = study /\ data' = data /\ stage' = stage /\ slices' = slices
        /\ chosen' = chosen /\ tested' = tested /\ windows' = windows /\ status' = status
    BY <1>8 DEF labVars
  <2>2. Blocked' = Blocked /\ Partitions(data)' = Partitions(data)
    BY <2>1, StudyStays
  <2>3. Selection(data)' = Selection(data)
    BY <2>1, ChoiceStays
  <2>4. SimulateAll(data, slices.untouched, chosen)' = SimulateAll(data, slices.untouched, chosen)
    BY <2>1, TestStays
  <2>5. WalkOf(data, tested)' = WalkOf(data, tested)
    BY <2>1, WalkStays
  <2>6. ReadinessIsEarned'
    BY <1>8, ReadinessStays DEF LabIInv
  <2>7. QED
    BY <2>1, <2>2, <2>3, <2>4, <2>5, <2>6 DEF LabIInv
<1>9. QED
  BY <1>1, <1>2, <1>3, <1>4, <1>5, <1>6, <1>7, <1>8 DEF LabNext

\* The selection is the one made on what is known before the test opens.
LEMMA ChoiceLooksBack ==
    ASSUME data \in PossibleHistories, Blocked = "none", slices = Partitions(data)
    PROVE  /\ Selection(KnownBefore(data, Opening(slices.untouched))) = Selection(data)
           /\ Precedes(slices.development, slices.validation)
           /\ Precedes(slices.validation, slices.untouched)
<1>1. /\ slices.development \in SUBSET LabSlices /\ Apart(slices.development)
      /\ slices.validation \in SUBSET LabSlices /\ Apart(slices.validation)
      /\ slices.untouched \in SUBSET LabSlices
      /\ Precedes(slices.development, slices.validation)
      /\ Precedes(slices.validation, slices.untouched)
      /\ Precedes(slices.development, slices.untouched)
  BY PhasesFollow
<1>2. slices.untouched # {}
  <2>1. CASE study.programme = "SL04"
    BY <2>1, UnblockedIs DEF Complete
  <2>2. CASE study.programme # "SL04"
    BY <2>2, SomethingIsUntouched
  <2>3. QED
    BY <2>1, <2>2
<1>3. PICK n : n = Opening(slices.untouched)
  OBVIOUS
<1>4. n \in Nat /\ \E q \in slices.untouched : q[1] = n
  BY <1>1, <1>2, <1>3, OpeningIs
<1>5. \A s \in slices.development \cup slices.validation : s[2] < n
  BY <1>1, <1>4 DEF Precedes
<1>6. SelectedBefore(n)
  BY <1>1, <1>5 DEF SelectedBefore, Apart
<1>7. Selection(KnownBefore(data, n)) = Selection(data)
  BY <1>4, <1>6, SelectionKnown
<1>8. QED
  BY <1>1, <1>3, <1>7

\* A walk looks at its window alone: its variant is chosen before its validation opens.
LEMMA WalkLooksBack ==
    ASSUME data \in PossibleHistories, NEW e, WalkIs(data, e)
    PROVE  /\ e.variant = BestOf(KnownBefore(data, e.window.validation[1]), e.window.development)
           /\ \A i \in DOMAIN e.trades : Within(e.trades[i], e.window.validation)
<1>1. PICK dev, val : dev = e.window.development /\ val = e.window.validation
  OBVIOUS
<1>2. dev \in LabSlices /\ val \in LabSlices /\ dev[2] < val[1]
  BY <1>1 DEF WalkIs, InSpan
<1>3. val[1] \in Nat
  BY <1>2, LengthsAssumption DEF LabSlices
<1>4. e.variant = BestOf(data, dev) /\ e.trades = Simulate(data, val, e.variant)
  BY <1>1 DEF WalkIs
<1>5. e.variant = BestOf(KnownBefore(data, val[1]), dev)
  BY <1>2, <1>3, <1>4, BestOfKnown
<1>6. e.variant \in Range(Variants)
  BY <1>4, BestOfIs
<1>7. PICK trades : trades = Simulate(data, val, e.variant)
  OBVIOUS
<1>8. trades \in Seq(LabTrades) /\ \A k \in 1 .. Len(trades) : Within(trades[k], val)
  BY <1>2, <1>6, <1>7, SimulateIs
<1>9. DOMAIN trades = 1 .. Len(trades)
  BY <1>8
<1>10. QED
  BY <1>1, <1>4, <1>5, <1>7, <1>8, <1>9

\* The invariant implies that nothing looks ahead.
LEMMA LabLooksBack ==
    ASSUME LabIInv
    PROVE  NothingLooksAhead
<1>1. ASSUME stage \in {"selected", "tested"}
      PROVE  /\ chosen = Selection(KnownBefore(data, Opening(slices.untouched)))
             /\ Precedes(slices.development, slices.validation)
             /\ Precedes(slices.validation, slices.untouched)
  <2>1. /\ data \in PossibleHistories /\ Blocked = "none" /\ slices = Partitions(data)
        /\ chosen = Selection(data)
    BY <1>1, HistoriesAssumption DEF LabIInv
  <2>2. QED
    BY <2>1, ChoiceLooksBack
<1>2. ASSUME stage = "tested", NEW k \in DOMAIN tested
      PROVE  \E s \in slices.untouched :
                /\ Within(tested[k], s)
                /\ tested[k].reason # "END_OF_DATA" =>
                       Last(Simulate(KnownBefore(data, tested[k].exit + 1),
                                     <<s[1], tested[k].exit>>, chosen)) = tested[k]
  <2>1. /\ data \in PossibleHistories /\ Blocked = "none" /\ slices = Partitions(data)
        /\ chosen = Selection(data) /\ tested = SimulateAll(data, slices.untouched, chosen)
    BY <1>2, HistoriesAssumption DEF LabIInv
  <2>2. chosen \in Range(Variants)
    BY <2>1, SelectionIs
  <2>3. /\ tested \in Seq(LabTrades)
        /\ \A m \in 1 .. Len(tested) :
             \E s \in slices.untouched : s \in LabSlices /\ Within(tested[m], s) /\
                     \E j \in 1 .. Len(Simulate(data, s, chosen)) :
                        tested[m] = Simulate(data, s, chosen)[j]
    BY <2>1, <2>2, TestIs
  <2>4. DOMAIN tested = 1 .. Len(tested)
    BY <2>3
  <2>5. PICK s \in slices.untouched :
           s \in LabSlices /\ Within(tested[k], s) /\
              \E j \in 1 .. Len(Simulate(data, s, chosen)) :
                 tested[k] = Simulate(data, s, chosen)[j]
    BY <2>3, <2>4
  <2>6. PICK j \in 1 .. Len(Simulate(data, s, chosen)) : tested[k] = Simulate(data, s, chosen)[j]
    BY <2>5
  <2>7. PICK t : t = tested[k]
    OBVIOUS
  <2>8. t = Simulate(data, s, chosen)[j]
    BY <2>6, <2>7
  <2>9. t.reason # "END_OF_DATA" =>
          Last(Simulate(KnownBefore(data, t.exit + 1), <<s[1], t.exit>>, chosen)) = t
    BY <2>1, <2>2, <2>5, <2>8, SimulateClosed
  <2>10. QED
    BY <2>5, <2>7, <2>9
<1>3. ASSUME stage = "walked", NEW k \in DOMAIN windows
      PROVE  /\ windows[k].variant =
                    BestOf(KnownBefore(data, windows[k].window.validation[1]),
                           windows[k].window.development)
             /\ \A i \in DOMAIN windows[k].trades :
                    Within(windows[k].trades[i], windows[k].window.validation)
  <2>1. data \in PossibleHistories /\ windows = WalkOf(data, tested)
    BY <1>3, HistoriesAssumption DEF LabIInv
  <2>2. PICK e : e = windows[k]
    OBVIOUS
  <2>3. WalkIs(data, e)
    BY <2>1, <2>2, WalkOfIs
  <2>4. QED
    BY <2>1, <2>2, <2>3, WalkLooksBack
<1>4. QED
  BY <1>1, <1>2, <1>3 DEF NothingLooksAhead

\* For any history, variants and sizes: a variant is selected on what was known before the
\* test opened, and a window's before its validation; and a closed trade does not know
\* what comes after it (evaluate_combination, walk_forward_windows, _simulate_trade).
THEOREM LabLooksAtNoFuture == LabSpec => []NothingLooksAhead
<1>1. LabOff => LabIInv
  BY LabStarts
<1>2. LabIInv /\ [LabNext]_labVars => LabIInv'
  BY LabStep
<1>3. LabIInv => NothingLooksAhead
  BY LabLooksBack
<1>4. QED
  BY <1>1, <1>2, <1>3, PTL DEF LabSpec

\* For any history, variants and sizes: what is held ready, or a champion, was earned on
\* clean and priced data, with enough trades, that earn at the stressed costs
\* (classify_result, _stress, _final_classification).
THEOREM ReadyIsEarned == LabSpec => []ReadinessIsEarned
<1>1. LabOff => LabIInv
  BY LabStarts
<1>2. LabIInv /\ [LabNext]_labVars => LabIInv'
  BY LabStep
<1>3. LabIInv => ReadinessIsEarned
  BY DEF LabIInv
<1>4. QED
  BY <1>1, <1>2, <1>3, PTL DEF LabSpec
=============================================================================
