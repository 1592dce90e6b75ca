-------------------------------- MODULE Main_proofs --------------------------------
(***************************************************************************)
(* Proofs about a run of the program, for any templates, targets, command    *)
(* lines, receivers and channel: what is scanned was asked for, and all the   *)
(* reports tell the same story.                                            *)
(***************************************************************************)
EXTENDS Main, SequenceTheorems, FiniteSetTheorems, TLAPS

(***************************************************************************)
(* The inductive invariant.                                                *)
(***************************************************************************)
UrlType == {Url[t] : t \in Targets} \cup {NoUrl}
FindingType == [id : STRING, severity : Severities, task : Files \X Nat, url : UrlType]
HostType == [ids : SUBSET STRING, flagged : BOOLEAN]
DigestType == [by : {"nobody", "somebody", "us"}, version : Nat, tail : BOOLEAN]
DiskType == [version : Nat, tail : BOOLEAN, digest : DigestType]
FileType == [kind : {"none", "jsonl", "sarif", "markdown"}, findings : Seq(FindingType),
             whole : BOOLEAN]

SignTypeOK ==
    /\ options \in Options
    /\ disk \in [Files -> DiskType]
    /\ key \in {"absent", "unreadable", "ours"}
    /\ changes \in 0..MaxChanges

ScanTypeOK ==
    /\ pc \in {"targets", "uncover", "load", "report", "sarif", "markdown", "exited"}
    /\ targets \in Seq(Targets)
    /\ loaded \subseteq Files
    /\ todo \subseteq Files \X (0..Len(targets)) /\ stuck \subseteq todo
    /\ channel \in Seq(FindingType) /\ Len(channel) <= ChannelCap
    /\ raised \in Seq(FindingType)
    /\ closed \in BOOLEAN
    /\ exit \in {-1, 0, 1}

ReportTypeOK ==
    /\ detector \in [DOMAIN detector -> HostType]
    /\ current = << >> \/ \E f \in FindingType : current = << f >>
    /\ receiver \in 1..(Len(Receivers) + 1)
    /\ delivered \in [ToSet(Receivers) -> Seq(FindingType)]
    /\ {printed, jsonl, all} \subseteq Seq(FindingType) /\ unwritten \in BOOLEAN
    /\ files \in [ReportPaths -> FileType]

\* The types of all variables.
MainTypeOK == SignTypeOK /\ ScanTypeOK /\ ReportTypeOK

\* What waits in the channel is what was raised last.
QueueInv ==
    /\ Len(channel) <= Len(raised)
    /\ \A i \in 1..Len(channel) : channel[i] = raised[Len(raised) - Len(channel) + i]

\* Nothing is found before templates are loaded, and the report loop ends after the
\* engine and with nothing left.
StageInv ==
    /\ pc \in {"targets", "uncover", "load"} => loaded = {}
    /\ loaded = {} =>
          /\ pc \in {"targets", "uncover", "load", "exited"}
          /\ todo = {} /\ raised = << >> /\ current = << >> /\ ~closed
    /\ closed => todo = {}
    /\ loaded # {} /\ pc # "report" => closed /\ channel = << >> /\ current = << >>

\* What was loaded is what may be, and stays so.
SelectInv == loaded # {} => loaded = {f \in Files : LoadSingleTemplate(f) = "loaded"}

\* The templates that matched the hosts with key k, of what was taken.
Limit == Max({Threshold, 1})
MatchOf(finding, k) == Counts(finding) /\ HostKey(finding.url) = k
Matched(k) == {Taken[j].id : j \in {i \in DOMAIN Taken : MatchOf(Taken[i], k)}}

\* The detector knows the templates that matched a host until it is flagged.
DetectInv ==
    \A u \in UrlType :
        IF options.detect
        THEN /\ HostState(detector, u).flagged <=> Cardinality(Matched(HostKey(u))) >= Limit
             /\ ~HostState(detector, u).flagged =>
                   HostState(detector, u).ids = Matched(HostKey(u))
        ELSE ~HostState(detector, u).flagged

\* The findings that are not suppressed are reported, in order.
LogInv ==
    /\ Len(Reported) = Cardinality(Kept)
    /\ \A i \in Kept : Reported[Cardinality(Kept \cap (1..i))] = Taken[i]

\* The terminal keeps up with the loop, and so does the JSONL but for lines that could
\* not be written.
JsonlInv == Subsequence(jsonl, Reported) /\ (~unwritten => jsonl = Reported)
LinesInv == (Printed => printed = Reported) /\ (JsonlOpen => JsonlInv)

\* Receivers before the one that is awaited may have the finding under way, others not.
DeliverInv ==
    \A i \in DOMAIN Receivers :
        Subsequence(delivered[Receivers[i]], IF i < receiver THEN Reported ELSE all)

\* Reports and the exit code are made of all the findings, when no more come.
EndInv ==
    /\ \A p \in ReportPaths : files[p].whole =>
          loaded # {} /\ pc \in {"markdown", "exited"} /\ files[p].findings = all
    /\ loaded # {} /\ pc = "exited" =>
          (exit = 1 <=> \E i \in DOMAIN all : all[i].severity \in {"critical", "high"})

IInv ==
    /\ MainTypeOK
    /\ QueueInv
    /\ StageInv
    /\ SelectInv
    /\ DetectInv
    /\ LogInv
    /\ LinesInv
    /\ DeliverInv
    /\ EndInv

(***************************************************************************)
(* Sequences, sets and records.                                            *)
(***************************************************************************)
\* Nothing has been delivered of nothing.
LEMMA NothingWithinNothing == Subsequence(<< >>, << >>)
<1> DEFINE at == [i \in DOMAIN << >> |-> i]
<1>1. at \in [DOMAIN << >> -> DOMAIN << >>]
  OBVIOUS
<1>2. ~\E i : i \in DOMAIN << >>
  BY EmptySeq
<1> QED
  BY <1>1, <1>2 DEF Subsequence

\* A list may grow around what is in it ...
LEMMA SubsequenceOfLonger ==
    ASSUME NEW S, NEW s \in Seq(S), NEW t \in Seq(S), NEW x \in S, Subsequence(s, t)
    PROVE  Subsequence(s, t \o << x >>)
<1>1. PICK at \in [DOMAIN s -> DOMAIN t] :
         /\ \A i \in DOMAIN s : s[i] = t[at[i]]
         /\ \A i, j \in DOMAIN s : i < j => at[i] < at[j]
  BY DEF Subsequence
<1>2. /\ DOMAIN t \subseteq DOMAIN (t \o << x >>)
      /\ \A k \in DOMAIN t : (t \o << x >>)[k] = t[k]
  OBVIOUS
<1>3. at \in [DOMAIN s -> DOMAIN (t \o << x >>)]
  BY <1>2
<1>4. \A i \in DOMAIN s : s[i] = (t \o << x >>)[at[i]]
  BY <1>1, <1>2
<1> QED
  BY <1>1, <1>3, <1>4 DEF Subsequence

\* ... and both by the same element.
LEMMA SubsequenceOfBoth ==
    ASSUME NEW S, NEW s \in Seq(S), NEW t \in Seq(S), NEW x \in S, Subsequence(s, t)
    PROVE  Subsequence(Append(s, x), t \o << x >>)
<1>1. PICK at \in [DOMAIN s -> DOMAIN t] :
         /\ \A i \in DOMAIN s : s[i] = t[at[i]]
         /\ \A i, j \in DOMAIN s : i < j => at[i] < at[j]
  BY DEF Subsequence
<1> DEFINE a == Append(s, x)
           b == t \o << x >>
           new == [i \in 1..Len(s) + 1 |-> IF i <= Len(s) THEN at[i] ELSE Len(t) + 1]
<1>2. /\ DOMAIN a = 1..Len(s) + 1 /\ DOMAIN b = 1..Len(t) + 1
      /\ DOMAIN s = 1..Len(s) /\ DOMAIN t = 1..Len(t) /\ Len(s) \in Nat /\ Len(t) \in Nat
      /\ \A i \in 1..Len(s) : a[i] = s[i]
      /\ \A i \in 1..Len(t) : b[i] = t[i]
      /\ a[Len(s) + 1] = x /\ b[Len(t) + 1] = x
  OBVIOUS
<1> HIDE DEF a, b
<1>3. \A i \in 1..Len(s) : at[i] \in 1..Len(t)
  BY <1>2
<1>4. new \in [DOMAIN a -> DOMAIN b]
  BY <1>2, <1>3
<1>5. \A i \in DOMAIN a : a[i] = b[new[i]]
  BY <1>1, <1>2, <1>3
<1>6. \A i, j \in DOMAIN a : i < j => new[i] < new[j]
  BY <1>1, <1>2, <1>3
<1>7. Subsequence(a, b)
  BY <1>4, <1>5, <1>6 DEF Subsequence
<1> QED
  BY <1>7 DEF a, b

\* The bounds are numbers.
LEMMA Numbers == Threshold \in Nat /\ ChannelCap \in Nat \ {0} /\ MaxChanges \in Nat
BY MainAssumption

\* The threshold counts as one at least.
LEMMA LimitIsPositive == Limit \in Nat /\ Limit >= 1
<1>1. \E x \in {Threshold, 1} : \A y \in {Threshold, 1} : x >= y
  <2>1. CASE Threshold >= 1
    BY <2>1, Numbers
  <2>2. CASE ~(Threshold >= 1)
    <3>1. 1 >= Threshold /\ 1 >= 1
      BY <2>2, Numbers
    <3> QED
      BY <3>1
  <2> QED
    BY <2>1, <2>2
<1>2. Limit \in {Threshold, 1} /\ \A y \in {Threshold, 1} : Limit >= y
  BY <1>1 DEF Limit, Max
<1> QED
  BY <1>2, Numbers

\* What a command line gives.
LEMMA OptionFacts ==
    ASSUME options \in Options
    PROVE  /\ {options.url, options.list, options.uncover} \subseteq Seq(Targets)
           /\ options.exporters \in Seq(STRING \ {"tracker"}) /\ IsInjective(options.exporters)
           /\ {options.output, options.markdown} \subseteq {""} \cup ReportPaths
BY MainAssumption

\* Receivers are the exporters, each once, and then the tracker.
LEMMA ReceiverFacts ==
    ASSUME options \in Options
    PROVE  /\ Receivers \in Seq(STRING \cup {"tracker"}) /\ Len(Receivers) \in Nat
           /\ Len(options.exporters) \in Nat /\ Len(options.exporters) <= Len(Receivers)
           /\ \A i, j \in 1..Len(Receivers) : Receivers[i] = Receivers[j] => i = j
           /\ \A i \in 1..Len(options.exporters) : Receivers[i] = options.exporters[i]
           /\ \A i \in 1..Len(Receivers) : i > Len(options.exporters) => Receivers[i] = "tracker"
           /\ ToSet(Receivers) = {Receivers[i] : i \in 1..Len(Receivers)}
<1>1. options.exporters \in Seq(STRING \ {"tracker"}) /\ IsInjective(options.exporters)
  BY OptionFacts
<1> DEFINE e == options.exporters
           Names == STRING \cup {"tracker"}
<1>2. /\ e \in Seq(Names) /\ Len(e) \in Nat /\ DOMAIN e = 1..Len(e)
      /\ \A i \in 1..Len(e) : e[i] # "tracker"
      /\ \A i, j \in 1..Len(e) : e[i] = e[j] => i = j
  BY <1>1 DEF IsInjective
<1> HIDE DEF e
<1>3. CASE options.tracker = "configured"
  <2>1. Receivers = e \o << "tracker" >>
    BY <1>3 DEF Receivers, TrackerTarget, e
  <2>2. Receivers \in Seq(Names) /\ Len(Receivers) = Len(e) + 1
    <3>1. << "tracker" >> \in Seq(Names) /\ Len(<< "tracker" >>) = 1
      OBVIOUS
    <3>2. /\ e \o << "tracker" >> \in Seq(Names)
          /\ Len(e \o << "tracker" >>) = Len(e) + Len(<< "tracker" >>)
      BY <1>2, <3>1, ConcatProperties, Zenon
    <3> QED
      BY <2>1, <3>1, <3>2
  <2>3. /\ \A i \in 1..Len(e) : Receivers[i] = e[i]
        /\ Receivers[Len(e) + 1] = "tracker"
        /\ DOMAIN Receivers = 1..Len(Receivers)
    BY <1>2, <2>1, <2>2
  <2> QED
    BY <1>2, <2>2, <2>3 DEF ToSet, e
<1>4. CASE options.tracker # "configured"
  <2>1. Receivers = e
    BY <1>2, <1>4 DEF Receivers, TrackerTarget, e
  <2> QED
    BY <1>2, <2>1 DEF ToSet, e
<1> QED
  BY <1>3, <1>4

\* A missing digest and a forged one are digests.
LEMMA NoDigestIsOne == NoDigest \in DigestType /\ Garbage \in DigestType
BY DEF NoDigest, Garbage, DigestType

(***************************************************************************)
(* Types.                                                                  *)
(***************************************************************************)
\* A program that has just been started.
LEMMA InitTypes == Init => MainTypeOK
<1> SUFFICES ASSUME Init PROVE MainTypeOK
  OBVIOUS
<1>1. disk \in [Files -> DiskType]
  <2>1. PICK digest \in [Files -> {NoDigest, Garbage}] :
           disk = [f \in Files |-> [version |-> 1, tail |-> FALSE, digest |-> digest[f]]]
    BY DEF Init
  <2>2. \A f \in Files : digest[f] \in DigestType
    BY NoDigestIsOne
  <2> QED
    BY <2>1, <2>2 DEF DiskType
<1>2. SignTypeOK
  BY <1>1, Numbers DEF Init, SignTypeOK
<1>3. ScanTypeOK
  <2>1. << >> \in Seq(Targets) /\ << >> \in Seq(FindingType) /\ Len(<< >>) = 0
    BY EmptySeq
  <2>2. channel \in Seq(FindingType) /\ raised \in Seq(FindingType) /\ targets \in Seq(Targets)
    BY <2>1 DEF Init
  <2>3. Len(channel) <= ChannelCap
    BY <2>1, Numbers DEF Init
  <2>4. exit \in {-1, 0, 1}
    BY DEF Init
  <2> QED
    BY <2>2, <2>3, <2>4 DEF Init, ScanTypeOK
<1>4. Receivers \in Seq(STRING \cup {"tracker"}) /\ Len(Receivers) \in Nat
  BY <1>2, ReceiverFacts DEF SignTypeOK
<1>5. files \in [ReportPaths -> FileType]
  <2>1. NoFile \in FileType /\ [NoFile EXCEPT !.kind = "jsonl"] \in FileType
    <3>1. NoFile \in FileType
      BY EmptySeq DEF NoFile, FileType
    <3>2. [NoFile EXCEPT !.kind = "jsonl"] \in FileType
      BY <3>1 DEF FileType
    <3> QED
      BY <3>1, <3>2
  <2> QED
    BY <2>1 DEF Init
<1>6. detector \in [DOMAIN detector -> HostType]
  <2>1. detector = << >>
    BY DEF Init
  <2>2. ~\E k : k \in DOMAIN detector
    BY <2>1, EmptySeq
  <2>3. detector \in Seq(HostType)
    BY <2>1
  <2> QED
    BY <2>3
<1>7. /\ current = << >> /\ receiver \in 1..(Len(Receivers) + 1) /\ unwritten \in BOOLEAN
      /\ {printed, jsonl, all} \subseteq Seq(FindingType)
  <2>1. /\ current = << >> /\ receiver = 1 /\ unwritten = FALSE
        /\ printed = << >> /\ jsonl = << >> /\ all = << >>
    BY DEF Init
  <2>2. 1 \in 1..(Len(Receivers) + 1)
    BY <1>4
  <2>3. << >> \in Seq(FindingType)
    BY EmptySeq
  <2> QED
    BY <2>1, <2>2, <2>3
<1>8. delivered \in [ToSet(Receivers) -> Seq(FindingType)]
  BY EmptySeq DEF Init
<1>9. ReportTypeOK
  BY <1>5, <1>6, <1>7, <1>8 DEF ReportTypeOK
<1> QED
  BY <1>2, <1>3, <1>9 DEF MainTypeOK

\* Signing and editing leave everything else alone.
LEMMA SigningTypes ==
    ASSUME SignTypeOK, \/ Sign \/ \E f \in Files : Edit(f)
    PROVE  SignTypeOK'
<1>1. CASE Sign
  <2>1. \A f \in Files : SignFile(disk[f]) \in DiskType
    BY DEF SignTypeOK, SignFile, DiskType, DigestType
  <2> QED
    BY <1>1, <2>1, Numbers DEF Sign, SignTypeOK
<1>2. ASSUME NEW f \in Files, Edit(f) PROVE SignTypeOK'
  <2>1. PICK tail \in BOOLEAN :
           disk' = [disk EXCEPT ![f] = [version |-> disk[f].version + 1, tail |-> tail,
                                        digest |-> disk[f].digest]]
    BY <1>2 DEF Edit, SignTypeOK
  <2>2. disk[f] \in DiskType
    BY DEF SignTypeOK
  <2>3. [version |-> disk[f].version + 1, tail |-> tail, digest |-> disk[f].digest] \in DiskType
    BY <2>2 DEF DiskType
  <2>4. disk' \in [Files -> DiskType]
    BY <2>1, <2>3 DEF SignTypeOK
  <2> QED
    BY <1>2, <2>4, Numbers DEF Edit, SignTypeOK
<1> QED
  BY <1>1, <1>2

\* Options name sequences of targets, as does nothing.
LEMMA NamedTargets ==
    ASSUME MainTypeOK
    PROVE  /\ options.url \in Seq(Targets) /\ options.list \in Seq(Targets)
           /\ options.uncover \in Seq(Targets) /\ << >> \in Seq(Targets)
<1>1. << >> \in Seq(Targets)
  BY EmptySeq
<1> QED
  BY <1>1, OptionFacts DEF MainTypeOK, SignTypeOK

\* Targets are named on the command line, in the list, or by uncover.
LEMMA ResolveTypes ==
    ASSUME MainTypeOK, StageInv, ResolveTargets \/ Uncover
    PROVE  MainTypeOK'
<1>1. targets' \in Seq(Targets)
  <2>1. CASE ResolveTargets
    <3>1. PICK list \in {options.list, << >>} : targets' = options.url \o list
      BY <2>1 DEF ResolveTargets
    <3> QED
      BY <3>1, NamedTargets, ConcatProperties
  <2>2. CASE Uncover
    <3>1. CASE UNCHANGED targets
      BY <3>1 DEF MainTypeOK, ScanTypeOK
    <3>2. ASSUME NEW found \in {options.uncover, << >>}, targets' = targets \o found
          PROVE  targets' \in Seq(Targets)
      BY <3>2, NamedTargets, ConcatProperties DEF MainTypeOK, ScanTypeOK
    <3> QED
      BY <2>2, <3>1, <3>2 DEF Uncover
  <2> QED
    BY <2>1, <2>2
<1>2. pc' \in {"uncover", "load", "exited"} /\ exit' \in {-1, 0, 1}
  BY DEF ResolveTargets, Uncover, GoOn, Exit, MainTypeOK, ScanTypeOK
<1>3. UNCHANGED <<options, signVars, loaded, engineVars, channel, reportVars, files, raised>>
  BY DEF ResolveTargets, Uncover
<1>4. todo = {}
  BY DEF StageInv, ResolveTargets, Uncover
<1>5. ScanTypeOK'
  BY <1>1, <1>2, <1>3, <1>4 DEF engineVars, MainTypeOK, ScanTypeOK
<1> QED
  BY <1>3, <1>5 DEF MainTypeOK, SignTypeOK, ReportTypeOK, signVars, reportVars, Receivers,
                    TrackerTarget

\* Tasks are made of what is loaded.
LEMMA LoadTypes ==
    ASSUME MainTypeOK, StageInv, LoadTemplates
    PROVE  MainTypeOK'
<1>1. loaded' \subseteq Files
  BY DEF LoadTemplates
<1>2. todo' \subseteq Files \X (0..Len(targets)) /\ UNCHANGED targets
  BY <1>1 DEF LoadTemplates, MakeTasks, MainTypeOK, ScanTypeOK
<1>3. pc' \in {"report", "exited"} /\ exit' \in {-1, 0, 1}
  BY DEF LoadTemplates, Exit, MainTypeOK, ScanTypeOK
<1>4. ScanTypeOK'
  <2>1. todo = {}
    BY DEF LoadTemplates, StageInv
  <2>2. stuck = {} /\ stuck' = stuck
    BY <2>1 DEF LoadTemplates, MainTypeOK, ScanTypeOK
  <2> QED
    BY <1>1, <1>2, <1>3, <2>2 DEF LoadTemplates, MainTypeOK, ScanTypeOK
<1> QED
  BY <1>4 DEF LoadTemplates, MainTypeOK, SignTypeOK, ReportTypeOK, signVars, reportVars,
              Receivers, TrackerTarget

\* A finding is of a task, hence of a target or of none.
LEMMA FindingTyped ==
    ASSUME ScanTypeOK, NEW task \in todo, NEW url \in MatchedUrls(task)
    PROVE  Finding(task, url) \in FindingType
<1>1. /\ task \in Files \X (0..Len(targets)) /\ targets \in Seq(Targets)
      /\ task[1] \in Files /\ task[2] \in 0..Len(targets) /\ Len(targets) \in Nat
  BY DEF ScanTypeOK
<1>2. Template[task[1]].id \in STRING /\ Template[task[1]].severity \in Severities
  BY <1>1, MainAssumption DEF TemplateType
<1>3. task \in Files \X Nat
  BY <1>1
<1>4. url \in UrlType
  <2>1. CASE task[2] = 0
    BY <2>1 DEF MatchedUrls, UrlType
  <2>2. CASE task[2] # 0
    <3>1. targets[task[2]] \in Targets
      BY <1>1, <2>2
    <3> QED
      BY <2>2, <3>1 DEF MatchedUrls, UrlType
  <2> QED
    BY <2>1, <2>2
<1> QED
  BY <1>2, <1>3, <1>4 DEF Finding, FindingType

\* The engine raises a finding, while there is room in the channel.
LEMMA FindTypes ==
    ASSUME MainTypeOK, NEW task \in todo, Find(task)
    PROVE  MainTypeOK'
<1>0. PICK url \in MatchedUrls(task) :
         /\ channel' = Append(channel, Finding(task, url))
         /\ raised' = Append(raised, Finding(task, url))
  BY DEF Find
<1>1. Finding(task, url) \in FindingType
  BY FindingTyped DEF MainTypeOK
<1>2. /\ channel' \in Seq(FindingType) /\ Len(channel') <= ChannelCap
      /\ raised' \in Seq(FindingType)
  BY <1>0, <1>1, Numbers, AppendProperties DEF Find, MainTypeOK, ScanTypeOK
<1>3. ScanTypeOK'
  BY <1>2 DEF Find, MainTypeOK, ScanTypeOK
<1> QED
  BY <1>3 DEF Find, MainTypeOK, SignTypeOK, ReportTypeOK, signVars, reportVars,
              Receivers, TrackerTarget

\* The other steps of the engine touch only todo, stuck and closed.
Tend == (\E task \in todo : Miss(task) \/ Hang(task)) \/ Stop \/ Close
LEMMA EngineTypes ==
    ASSUME MainTypeOK, Tend
    PROVE  MainTypeOK'
<1>1. /\ todo' \subseteq todo /\ stuck' \subseteq todo' /\ closed' \in BOOLEAN
      /\ UNCHANGED <<options, signVars, pc, targets, loaded, channel, reportVars,
                     files, exit, raised>>
  <2>1. CASE \E task \in todo : Miss(task)
    BY <2>1 DEF Miss, MainTypeOK, ScanTypeOK
  <2>2. CASE \E task \in todo : Hang(task)
    BY <2>2 DEF Hang, MainTypeOK, ScanTypeOK
  <2>3. CASE Stop \/ Close
    BY <2>3 DEF Stop, Close, MainTypeOK, ScanTypeOK
  <2> QED
    BY <2>1, <2>2, <2>3 DEF Tend
<1>2. ScanTypeOK'
  BY <1>1 DEF MainTypeOK, ScanTypeOK
<1> QED
  BY <1>1, <1>2 DEF MainTypeOK, SignTypeOK, ReportTypeOK, signVars, reportVars,
                    Receivers, TrackerTarget

\* What the detector knows of a host after a match.
Recorded(old, id) ==
    IF old.flagged THEN old
    ELSE IF Cardinality(old.ids \cup {id}) >= Limit THEN [ids |-> {}, flagged |-> TRUE]
    ELSE [old EXCEPT !.ids = old.ids \cup {id}]

\* What is recorded of a host keeps its type ...
LEMMA RecordedTyped ==
    ASSUME NEW old \in HostType, NEW id \in STRING
    PROVE  Recorded(old, id) \in HostType
BY DEF Recorded, HostType

\* ... and so does what is known of any host.
LEMMA StateTyped ==
    ASSUME NEW hosts, hosts \in [DOMAIN hosts -> HostType], NEW u
    PROVE  HostState(hosts, u) \in HostType
<1>1. FreshHost \in HostType
  BY DEF FreshHost, HostType
<1> QED
  BY <1>1 DEF HostState

\* record_match changes the host of the finding only.
LEMMA RecordFacts ==
    ASSUME NEW hosts, hosts \in [DOMAIN hosts -> HostType], NEW finding \in FindingType
    PROVE  /\ RecordMatch(hosts, finding) \in [DOMAIN RecordMatch(hosts, finding) -> HostType]
           /\ \A u : HostState(RecordMatch(hosts, finding), u) =
                 IF MatchOf(finding, HostKey(u))
                 THEN Recorded(HostState(hosts, finding.url), finding.id)
                 ELSE HostState(hosts, u)
<1>0. CASE ~Counts(finding)
  BY <1>0 DEF RecordMatch, MatchOf
<1> DEFINE key0 == HostKey(finding.url)
           new == Recorded(HostState(hosts, finding.url), finding.id)
           after == [k \in DOMAIN hosts \cup {key0} |-> IF k = key0 THEN new ELSE hosts[k]]
<1>1. Counts(finding) => RecordMatch(hosts, finding) = after
  BY DEF RecordMatch, Recorded, Limit
<1>2. finding.id \in STRING
  BY DEF FindingType
<1>3. HostState(hosts, finding.url) \in HostType
  BY StateTyped
<1>4. new \in HostType
  BY <1>2, <1>3, RecordedTyped
<1> HIDE DEF new
<1>5. DOMAIN after = DOMAIN hosts \cup {key0}
  OBVIOUS
<1>6. after \in [DOMAIN after -> HostType]
  BY <1>4, <1>5
<1>7. ASSUME NEW u
      PROVE  HostState(after, u) = IF HostKey(u) = key0 THEN new ELSE HostState(hosts, u)
  <2>1. CASE HostKey(u) = key0
    BY <2>1 DEF HostState
  <2>2. CASE HostKey(u) # key0
    <3>1. HostKey(u) \in DOMAIN after <=> HostKey(u) \in DOMAIN hosts
      BY <2>2, <1>5
    <3>2. HostKey(u) \in DOMAIN hosts => after[HostKey(u)] = hosts[HostKey(u)]
      BY <2>2
    <3> HIDE DEF after, key0
    <3> QED
      BY <2>2, <3>1, <3>2 DEF HostState
  <2> QED
    BY <2>1, <2>2
<1> QED
  BY <1>0, <1>1, <1>6, <1>7 DEF new, MatchOf

\* Whether a finding taken from the channel is suppressed.
Suppressed(finding) == options.suppress /\ HostState(detector', finding.url).flagged

\* What the report loop does with the finding it takes, by whether it is suppressed.
LEMMA ReceiveFacts ==
    ASSUME MainTypeOK, Receive
    PROVE  /\ Head(channel) \in FindingType /\ channel' = Tail(channel) /\ channel # << >>
           /\ pc = "report" /\ current = << >>
           /\ detector' = IF options.detect THEN RecordMatch(detector, Head(channel))
                                            ELSE detector
           /\ IF WritesLine(Suppressed(Head(channel))) THEN WriteFinding(Head(channel))
              ELSE UNCHANGED <<jsonl, unwritten>>
           /\ Suppressed(Head(channel)) => UNCHANGED <<current, receiver, printed>>
           /\ ~Suppressed(Head(channel)) =>
                 /\ current' = << Head(channel) >> /\ receiver' = 1
                 /\ printed' = IF Printed THEN Append(printed, Head(channel)) ELSE printed
<1>1. channel \in Seq(FindingType) /\ channel # << >>
  BY DEF Receive, MainTypeOK, ScanTypeOK
<1>2. Head(channel) \in FindingType
  BY <1>1, HeadTailProperties
<1> QED
  BY <1>1, <1>2 DEF Receive, Suppressed

\* A finding is taken from the channel.
LEMMA ReceiveTypes ==
    ASSUME MainTypeOK, Receive
    PROVE  MainTypeOK'
<1> DEFINE f == Head(channel)
<1>0. /\ f \in FindingType /\ channel' = Tail(channel) /\ channel # << >>
      /\ detector' = IF options.detect THEN RecordMatch(detector, f) ELSE detector
      /\ jsonl' \in {jsonl, Append(jsonl, f)} /\ unwritten' \in {unwritten, TRUE}
      /\ printed' \in {printed, Append(printed, f)}
  BY ReceiveFacts DEF WriteFinding
<1>1. /\ channel \in Seq(FindingType) /\ Len(channel) <= ChannelCap
      /\ jsonl \in Seq(FindingType) /\ printed \in Seq(FindingType)
      /\ detector \in [DOMAIN detector -> HostType]
  BY DEF MainTypeOK, ScanTypeOK, ReportTypeOK
<1>2. channel' \in Seq(FindingType) /\ Len(channel') <= ChannelCap
  BY <1>0, <1>1, Numbers
<1>3. detector' \in [DOMAIN detector' -> HostType]
  BY <1>0, <1>1, RecordFacts, Zenon
<1> HIDE DEF f
<1>4. jsonl' \in Seq(FindingType)
  <2>1. Append(jsonl, f) \in Seq(FindingType)
    BY <1>0, <1>1, AppendProperties
  <2> QED
    BY <1>0, <1>1, <2>1
<1>5. printed' \in Seq(FindingType)
  <2>1. Append(printed, f) \in Seq(FindingType)
    BY <1>0, <1>1, AppendProperties
  <2> QED
    BY <1>0, <1>1, <2>1
<1>6. current' = << >> \/ \E g \in FindingType : current' = << g >>
  BY <1>0, ReceiveFacts DEF MainTypeOK, ReportTypeOK
<1>7. receiver' \in 1..(Len(Receivers) + 1)
  BY ReceiveFacts, ReceiverFacts DEF MainTypeOK, ReportTypeOK, SignTypeOK
<1>8. UNCHANGED <<options, signVars, pc, targets, loaded, todo, stuck, closed, delivered, all,
                  files, exit, raised>>
  BY DEF Receive, engineVars
<1>9. ScanTypeOK'
  BY <1>2, <1>8 DEF MainTypeOK, ScanTypeOK
<1>10. ReportTypeOK'
  BY <1>0, <1>3, <1>4, <1>5, <1>6, <1>7, <1>8 DEF MainTypeOK, ReportTypeOK, Receivers,
     TrackerTarget
<1> QED
  BY <1>8, <1>9, <1>10 DEF MainTypeOK, SignTypeOK, signVars

\* Export and CreateIssue are each one delivery, to the receiver that is awaited.
LEMMA DeliverFacts ==
    ASSUME MainTypeOK, StageInv, Export \/ CreateIssue
    PROVE  /\ current # << >> /\ loaded # {}
           /\ receiver \in 1..Len(Receivers) /\ receiver' = receiver + 1
           /\ \/ delivered' = delivered
              \/ delivered' = [delivered EXCEPT ![Receivers[receiver]] = Append(@, current[1])]
           /\ UNCHANGED <<options, signVars, pc, targets, loaded, engineVars, channel, detector,
                          current, printed, jsonl, unwritten, all, files, exit, raised>>
<1>0. options \in Options /\ receiver \in 1..(Len(Receivers) + 1)
  BY DEF MainTypeOK, SignTypeOK, ReportTypeOK
<1>1. /\ Len(Receivers) \in Nat /\ Len(options.exporters) \in Nat
      /\ Len(options.exporters) <= Len(Receivers)
      /\ \A i \in 1..Len(options.exporters) : Receivers[i] = options.exporters[i]
      /\ \A i \in 1..Len(Receivers) : i > Len(options.exporters) => Receivers[i] = "tracker"
  BY <1>0, ReceiverFacts
<1>2. CASE Export
  <2>1. receiver \in 1..Len(Receivers) /\ Receivers[receiver] = options.exporters[receiver]
    BY <1>0, <1>1, <1>2 DEF Export
  <2> QED
    BY <1>2, <2>1 DEF Export, Deliver, StageInv
<1>3. CASE CreateIssue
  <2>1. receiver \in 1..Len(Receivers) /\ Receivers[receiver] = "tracker"
    BY <1>0, <1>1, <1>3 DEF CreateIssue
  <2> QED
    BY <1>3, <2>1 DEF CreateIssue, Deliver, StageInv
<1> QED
  BY <1>2, <1>3

\* At most one finding is under way.
LEMMA CurrentTyped ==
    ASSUME MainTypeOK
    PROVE  /\ current \in Seq(FindingType) /\ Len(current) \in {0, 1}
           /\ current # << >> => current[1] \in FindingType /\ current = << current[1] >>
<1>1. CASE current = << >>
  BY <1>1, EmptySeq
<1>2. ASSUME NEW f \in FindingType, current = << f >>
      PROVE  /\ current \in Seq(FindingType) /\ Len(current) = 1
             /\ current[1] \in FindingType /\ current = << current[1] >>
  BY <1>2
<1> QED
  BY <1>1, <1>2 DEF MainTypeOK, ReportTypeOK

\* A receiver stores the finding under way, or not.
LEMMA DeliverTypes ==
    ASSUME MainTypeOK, StageInv, Export \/ CreateIssue
    PROVE  MainTypeOK'
<1> DEFINE r == Receivers[receiver]
<1>1. /\ current # << >>
      /\ receiver \in 1..Len(Receivers) /\ receiver' = receiver + 1
      /\ \/ delivered' = delivered
         \/ delivered' = [delivered EXCEPT ![r] = Append(@, current[1])]
      /\ UNCHANGED <<options, signVars, pc, targets, loaded, engineVars, channel, detector,
                     current, printed, jsonl, unwritten, all, files, exit, raised>>
  BY DeliverFacts
<1>2. Len(Receivers) \in Nat /\ r \in ToSet(Receivers)
  BY <1>1, ReceiverFacts DEF MainTypeOK, SignTypeOK
<1>3. current[1] \in FindingType
  BY <1>1, CurrentTyped
<1>4. delivered \in [ToSet(Receivers) -> Seq(FindingType)]
  BY DEF MainTypeOK, ReportTypeOK
<1> HIDE DEF r
<1>5. delivered' \in [ToSet(Receivers) -> Seq(FindingType)]
  <2>1. Append(delivered[r], current[1]) \in Seq(FindingType)
    BY <1>2, <1>3, <1>4, AppendProperties
  <2> QED
    BY <1>1, <1>2, <1>4, <2>1
<1>6. Receivers' = Receivers
  BY <1>1 DEF Receivers, TrackerTarget
<1>7. ReportTypeOK'
  BY <1>1, <1>2, <1>5, <1>6 DEF MainTypeOK, ReportTypeOK
<1> QED
  BY <1>1, <1>7 DEF MainTypeOK, SignTypeOK, ScanTypeOK, signVars, engineVars

\* The finding under way joins the others.
LEMMA CountTypes ==
    ASSUME MainTypeOK, Count
    PROVE  MainTypeOK'
<1>1. current \in Seq(FindingType) /\ all \in Seq(FindingType)
  BY CurrentTyped DEF MainTypeOK, ReportTypeOK
<1>2. all' \in Seq(FindingType)
  BY <1>1, ConcatProperties DEF Count
<1> QED
  BY <1>2 DEF Count, MainTypeOK, SignTypeOK, ScanTypeOK, ReportTypeOK, signVars, engineVars,
              Receivers, TrackerTarget

\* A report file holds all findings, or none and is not whole.
LEMMA WriteFacts ==
    ASSUME MainTypeOK, NEW path \in ReportPaths, NEW kind \in {"sarif", "markdown"},
           WriteReport(path, kind)
    PROVE  /\ files' \in [ReportPaths -> FileType]
           /\ files'[path].kind = kind /\ (files'[path].whole => files'[path].findings = all)
           /\ \A p \in ReportPaths : p # path => files'[p] = files[p]
<1>1. files \in [ReportPaths -> FileType] /\ all \in Seq(FindingType)
  BY DEF MainTypeOK, ReportTypeOK
<1>2. PICK ok \in BOOLEAN :
         files' = [files EXCEPT ![path] = [kind |-> kind,
                                           findings |-> IF ok THEN all ELSE << >>, whole |-> ok]]
  BY DEF WriteReport
<1> DEFINE new == [kind |-> kind, findings |-> IF ok THEN all ELSE << >>, whole |-> ok]
<1>3. new \in FileType
  <2>1. (IF ok THEN all ELSE << >>) \in Seq(FindingType)
    BY <1>1, EmptySeq
  <2> QED
    BY <2>1 DEF FileType
<1>4. new.kind = kind /\ (new.whole => new.findings = all)
  OBVIOUS
<1>5. files' = [files EXCEPT ![path] = new]
  BY <1>2
<1> HIDE DEF new
<1>6. files'[path] = new /\ \A p \in ReportPaths : p # path => files'[p] = files[p]
  BY <1>1, <1>5
<1> QED
  BY <1>1, <1>3, <1>4, <1>5, <1>6

\* What the steps after the loop do to the report files.
Ending == LoopEnds \/ Sarif \/ Markdown
LEMMA EndingFacts ==
    ASSUME MainTypeOK, Ending
    PROVE  /\ files' \in [ReportPaths -> FileType]
           /\ \A p \in ReportPaths :
                 \/ files'[p] = files[p]
                 \/ /\ files'[p].kind # "jsonl" /\ pc # "report"
                    /\ files'[p].whole => files'[p].findings = all
           /\ \/ pc = "report" /\ current = << >> /\ channel = << >> /\ closed /\ pc' = "sarif"
                 /\ UNCHANGED exit
              \/ pc = "sarif" /\ pc' = "markdown" /\ UNCHANGED exit
              \/ /\ pc = "markdown" /\ pc' = "exited"
                 /\ exit' = IF \E i \in DOMAIN all : all[i].severity \in {"critical", "high"}
                            THEN 1 ELSE 0
           /\ UNCHANGED <<options, signVars, targets, loaded, engineVars, channel, reportVars,
                          raised>>
<1>0. /\ files \in [ReportPaths -> FileType]
      /\ {options.output, options.markdown} \subseteq {""} \cup ReportPaths
  BY OptionFacts DEF MainTypeOK, SignTypeOK, ReportTypeOK
<1>1. CASE LoopEnds
  BY <1>0, <1>1 DEF LoopEnds
<1>2. CASE Sarif
  <2>1. CASE options.sarif
    <3> DEFINE path == IF options.output = "" THEN "results.sarif.json" ELSE options.output
    <3>1. path \in ReportPaths
      BY <1>0 DEF ReportPaths
    <3>2. WriteReport(path, "sarif") /\ pc = "sarif"
      BY <1>2, <2>1 DEF Sarif
    <3> HIDE DEF path
    <3>3. /\ files' \in [ReportPaths -> FileType]
          /\ files'[path].kind = "sarif" /\ (files'[path].whole => files'[path].findings = all)
          /\ \A p \in ReportPaths : p # path => files'[p] = files[p]
      BY <3>1, <3>2, WriteFacts
    <3>4. pc' = "markdown" /\ UNCHANGED <<options, signVars, targets, loaded, engineVars, channel,
                                          reportVars, exit, raised>>
      BY <1>2 DEF Sarif
    <3> QED
      BY <3>2, <3>3, <3>4
  <2>2. CASE ~options.sarif
    BY <1>0, <1>2, <2>2 DEF Sarif
  <2> QED
    BY <2>1, <2>2
<1>3. CASE Markdown
  <2>0. /\ pc = "markdown" /\ pc' = "exited"
        /\ exit' = IF \E i \in DOMAIN all : all[i].severity \in {"critical", "high"}
                   THEN 1 ELSE 0
        /\ UNCHANGED <<options, signVars, targets, loaded, engineVars, channel, reportVars,
                       raised>>
    BY <1>3 DEF Markdown, Exit
  <2>1. CASE options.markdown # ""
    <3>1. options.markdown \in ReportPaths /\ WriteReport(options.markdown, "markdown")
      BY <1>0, <1>3, <2>1 DEF Markdown
    <3>2. /\ files' \in [ReportPaths -> FileType]
          /\ files'[options.markdown].kind = "markdown"
          /\ files'[options.markdown].whole => files'[options.markdown].findings = all
          /\ \A p \in ReportPaths : p # options.markdown => files'[p] = files[p]
      BY <3>1, WriteFacts
    <3> QED
      BY <2>0, <3>2
  <2>2. CASE options.markdown = ""
    BY <1>0, <1>3, <2>0, <2>2 DEF Markdown
  <2> QED
    BY <2>1, <2>2
<1> QED
  BY <1>1, <1>2, <1>3 DEF Ending

\* The reports are written.
LEMMA EndingTypes ==
    ASSUME MainTypeOK, Ending
    PROVE  MainTypeOK'
<1>1. /\ files' \in [ReportPaths -> FileType]
      /\ pc' \in {"sarif", "markdown", "exited"} /\ exit' \in {-1, 0, 1}
      /\ UNCHANGED <<options, signVars, targets, loaded, engineVars, channel, reportVars,
                     raised>>
  BY EndingFacts DEF MainTypeOK, ScanTypeOK
<1> QED
  BY <1>1 DEF MainTypeOK, SignTypeOK, ScanTypeOK, ReportTypeOK, signVars, engineVars,
              reportVars, Receivers, TrackerTarget

\* Every step keeps the types.
LEMMA NextTypes ==
    ASSUME MainTypeOK, StageInv, [Next]_vars
    PROVE  MainTypeOK'
<1>1. CASE Sign \/ \E f \in Files : Edit(f)
  <2>1. SignTypeOK'
    BY <1>1, SigningTypes DEF MainTypeOK
  <2>2. UNCHANGED <<options, pc, targets, loaded, engineVars, channel, reportVars, files, exit,
                    raised>>
    BY <1>1 DEF Sign, Edit
  <2> QED
    BY <2>1, <2>2 DEF MainTypeOK, ScanTypeOK, ReportTypeOK, engineVars, reportVars, Receivers,
                      TrackerTarget
<1>2. CASE Load \/ Uncover
  BY <1>2, ResolveTypes, LoadTypes DEF Load
<1>3. CASE Tend \/ \E task \in todo : Find(task)
  BY <1>3, FindTypes, EngineTypes
<1>4. CASE Receive
  BY <1>4, ReceiveTypes
<1>5. CASE Export \/ CreateIssue
  BY <1>5, DeliverTypes
<1>6. CASE Count
  BY <1>6, CountTypes
<1>7. CASE Ending
  BY <1>7, EndingTypes
<1>8. CASE Exited \/ UNCHANGED vars
  <2>1. UNCHANGED vars
    BY <1>8 DEF Exited
  <2>2. SignTypeOK'
    BY <2>1 DEF vars, signVars, MainTypeOK, SignTypeOK
  <2>3. ScanTypeOK'
    BY <2>1 DEF vars, engineVars, MainTypeOK, ScanTypeOK
  <2>4. ReportTypeOK'
    BY <2>1 DEF vars, reportVars, MainTypeOK, ReportTypeOK, Receivers, TrackerTarget
  <2> QED
    BY <2>2, <2>3, <2>4 DEF MainTypeOK
<1> QED
  BY <1>1, <1>2, <1>3, <1>4, <1>5, <1>6, <1>7, <1>8 DEF Next, Engine, Tend, Report, Ending

(***************************************************************************)
(* The stages of a run, and what waits in the channel.                      *)
(***************************************************************************)
LEMMA NextStages ==
    ASSUME MainTypeOK, QueueInv, StageInv, [Next]_vars
    PROVE  StageInv'
<1>0. raised \in Seq(FindingType) /\ channel \in Seq(FindingType)
  BY DEF MainTypeOK, ScanTypeOK
<1>1. CASE Sign \/ \E f \in Files : Edit(f)
  BY <1>1 DEF Sign, Edit, StageInv, engineVars, reportVars
<1>2. CASE ResolveTargets \/ Uncover
  <2>1. pc' \in {"uncover", "load", "exited"} /\ loaded = {}
    BY <1>2 DEF ResolveTargets, Uncover, GoOn, Exit, StageInv
  <2>2. UNCHANGED <<loaded, todo, closed, channel, current, raised>>
    BY <1>2 DEF ResolveTargets, Uncover, engineVars, reportVars
  <2> QED
    BY <2>1, <2>2 DEF StageInv
<1>3. CASE LoadTemplates
  <2>1. pc = "load" /\ loaded = {}
    BY <1>3 DEF LoadTemplates, StageInv
  <2>2. CASE loaded' = {}
    BY <1>3, <2>1, <2>2 DEF LoadTemplates, Exit, StageInv, reportVars
  <2>3. CASE loaded' # {}
    BY <1>3, <2>1, <2>3 DEF LoadTemplates, StageInv, reportVars
  <2> QED
    BY <2>2, <2>3
<1>4. ASSUME NEW task \in todo, Find(task)
      PROVE  StageInv'
  <2>1. loaded # {} /\ ~closed /\ pc = "report"
    BY DEF StageInv
  <2> QED
    BY <1>4, <2>1 DEF Find, StageInv, reportVars
<1>5. CASE Tend
  BY <1>5 DEF Tend, Miss, Hang, Stop, Close, StageInv, reportVars
<1>6. CASE Receive
  <2>1. loaded # {} /\ pc = "report"
    BY <1>6 DEF Receive, StageInv
  <2> QED
    BY <1>6, <2>1 DEF Receive, StageInv, engineVars
<1>7. CASE Export \/ CreateIssue
  BY <1>7, DeliverFacts DEF StageInv, engineVars
<1>8. CASE Count
  BY <1>8 DEF Count, StageInv, engineVars
<1>9. CASE Ending
  <2>1. loaded # {} => closed /\ channel = << >> /\ current = << >>
    BY <1>9, EndingFacts DEF StageInv
  <2>2. pc \in {"report", "sarif", "markdown"} /\ pc' \in {"sarif", "markdown", "exited"}
        /\ UNCHANGED <<loaded, todo, channel, closed, current, raised>>
    BY <1>9, EndingFacts DEF engineVars, reportVars
  <2>3. loaded # {}
    BY <2>2 DEF StageInv
  <2>4. closed => todo = {}
    BY DEF StageInv
  <2> QED
    BY <2>1, <2>2, <2>3, <2>4 DEF StageInv
<1>10. CASE Exited \/ UNCHANGED vars
  BY <1>10 DEF Exited, vars, engineVars, reportVars, StageInv
<1> QED
  BY <1>1, <1>2, <1>3, <1>4, <1>5, <1>6, <1>7, <1>8, <1>9, <1>10
     DEF Next, Load, Engine, Tend, Report, Ending

\* Only Find and Receive touch the findings on their way.
Elsewhere == UNCHANGED <<channel, raised>>
LEMMA Quiet ==
    ASSUME MainTypeOK, StageInv, [Next]_vars,
           ~Receive, ~\E task \in todo : Find(task)
    PROVE  Elsewhere
<1>1. CASE Sign \/ \E f \in Files : Edit(f)
  BY <1>1 DEF Sign, Edit, Elsewhere
<1>2. CASE Load \/ Uncover
  BY <1>2 DEF Load, ResolveTargets, Uncover, LoadTemplates, Elsewhere
<1>3. CASE Tend
  BY <1>3 DEF Tend, Miss, Hang, Stop, Close, Elsewhere
<1>4. CASE Export \/ CreateIssue
  BY <1>4, DeliverFacts DEF Elsewhere
<1>5. CASE Count
  BY <1>5 DEF Count, Elsewhere
<1>6. CASE Ending
  BY <1>6, EndingFacts DEF Elsewhere
<1>7. CASE Exited \/ UNCHANGED vars
  BY <1>7 DEF Exited, vars, Elsewhere
<1> QED
  BY <1>1, <1>2, <1>3, <1>4, <1>5, <1>6, <1>7 DEF Next, Load, Engine, Tend, Report, Ending

\* What Taken is, as numbers.
LEMMA PrefixFacts ==
    ASSUME NEW r \in Seq(FindingType), NEW c \in Seq(FindingType), Len(c) <= Len(r)
    PROVE  /\ SubSeq(r, 1, Len(r) - Len(c)) \in Seq(FindingType)
           /\ Len(SubSeq(r, 1, Len(r) - Len(c))) = Len(r) - Len(c)
           /\ \A i \in 1..(Len(r) - Len(c)) : SubSeq(r, 1, Len(r) - Len(c))[i] = r[i]
<1> DEFINE n == Len(r) - Len(c)
<1>1. n \in 0..Len(r)
  OBVIOUS
<1> HIDE DEF n
<1>2. /\ SubSeq(r, 1, n) \in Seq(FindingType) /\ Len(SubSeq(r, 1, n)) = n
      /\ \A i \in 1..n : SubSeq(r, 1, n)[i] = r[i]
  BY <1>1
<1> QED
  BY <1>2 DEF n

\* Taken is the beginning of what was raised.
LEMMA TakenFacts ==
    ASSUME MainTypeOK, QueueInv
    PROVE  /\ Taken \in Seq(FindingType) /\ Len(Taken) = Len(raised) - Len(channel)
           /\ \A i \in 1..Len(Taken) : Taken[i] = raised[i]
           /\ DOMAIN Taken = 1..Len(Taken) /\ Len(Taken) \in Nat
<1>1. /\ raised \in Seq(FindingType) /\ channel \in Seq(FindingType)
      /\ Len(channel) <= Len(raised)
  BY DEF MainTypeOK, ScanTypeOK, QueueInv
<1>2. /\ Taken \in Seq(FindingType) /\ Len(Taken) = Len(raised) - Len(channel)
      /\ \A i \in 1..(Len(raised) - Len(channel)) : Taken[i] = raised[i]
  BY <1>1, PrefixFacts DEF Taken
<1> QED
  BY <1>2

\* A finding that is raised goes to the end of the channel.
LEMMA FindQueue ==
    ASSUME MainTypeOK, QueueInv, NEW task \in todo, Find(task)
    PROVE  QueueInv' /\ Taken' = Taken
<1>0. PICK url \in MatchedUrls(task) :
         /\ channel' = Append(channel, Finding(task, url))
         /\ raised' = Append(raised, Finding(task, url))
  BY DEF Find
<1> DEFINE f == Finding(task, url)
<1>1. /\ f \in FindingType /\ channel \in Seq(FindingType) /\ raised \in Seq(FindingType)
      /\ channel' = Append(channel, f) /\ raised' = Append(raised, f)
  BY <1>0, FindingTyped DEF MainTypeOK, ScanTypeOK
<1> HIDE DEF f
<1>2. /\ Len(channel') = Len(channel) + 1 /\ Len(raised') = Len(raised) + 1
      /\ Len(channel) \in Nat /\ Len(raised) \in Nat
      /\ \A i \in 1..Len(channel) : channel'[i] = channel[i]
      /\ \A i \in 1..Len(raised) : raised'[i] = raised[i]
      /\ channel'[Len(channel) + 1] = f /\ raised'[Len(raised) + 1] = f
  BY <1>1
<1>3. QueueInv'
  <2>1. Len(channel') <= Len(raised')
    BY <1>2 DEF QueueInv
  <2>2. ASSUME NEW i \in 1..Len(channel')
        PROVE  channel'[i] = raised'[Len(raised') - Len(channel') + i]
    <3>1. CASE i <= Len(channel)
      <4>1. /\ Len(raised) - Len(channel) + i \in 1..Len(raised) /\ i \in 1..Len(channel)
            /\ Len(raised') - Len(channel') + i = Len(raised) - Len(channel) + i
        BY <1>2, <2>2, <3>1 DEF QueueInv
      <4>2. channel[i] = raised[Len(raised) - Len(channel) + i]
        BY <4>1 DEF QueueInv
      <4> QED
        BY <1>2, <4>1, <4>2
    <3>2. CASE i = Len(channel) + 1
      BY <1>2, <3>2
    <3> QED
      BY <1>2, <2>2, <3>1, <3>2
  <2> QED
    BY <2>1, <2>2 DEF QueueInv
<1>4. channel' \in Seq(FindingType) /\ raised' \in Seq(FindingType)
  BY <1>1, AppendProperties
<1>5. /\ Len(Taken') = Len(Taken) /\ Taken \in Seq(FindingType) /\ Taken' \in Seq(FindingType)
      /\ \A i \in 1..Len(Taken) : Taken'[i] = Taken[i]
  <2>1. /\ Taken' \in Seq(FindingType) /\ Len(Taken') = Len(raised') - Len(channel')
        /\ \A i \in 1..(Len(raised') - Len(channel')) : Taken'[i] = raised'[i]
    BY <1>3, <1>4, PrefixFacts DEF Taken, QueueInv
  <2>2. /\ Taken \in Seq(FindingType) /\ Len(Taken) = Len(raised) - Len(channel)
        /\ \A i \in 1..Len(Taken) : Taken[i] = raised[i]
    BY TakenFacts
  <2>3. Len(Taken') = Len(Taken) /\ Len(Taken) <= Len(raised) /\ Len(Taken) \in Nat
    BY <1>2, <2>1, <2>2 DEF QueueInv
  <2>4. ASSUME NEW i \in 1..Len(Taken)
        PROVE  Taken'[i] = Taken[i]
    <3>1. i \in 1..Len(raised) /\ i \in 1..(Len(raised') - Len(channel'))
      BY <2>1, <2>3
    <3>2. Taken'[i] = raised'[i] /\ Taken[i] = raised[i]
      BY <2>1, <2>2, <3>1
    <3> QED
      BY <1>2, <3>1, <3>2
  <2> QED
    BY <2>1, <2>2, <2>3, <2>4
<1> QED
  BY <1>3, <1>5, SeqEqual

\* Receive takes what was raised first of the rest.
LEMMA ReceiveQueue ==
    ASSUME MainTypeOK, QueueInv, Receive
    PROVE  QueueInv' /\ Taken' = Append(Taken, Head(channel))
<1> DEFINE f == Head(channel)
<1>1. /\ f \in FindingType /\ channel' = Tail(channel) /\ channel # << >> /\ raised' = raised
      /\ channel \in Seq(FindingType) /\ raised \in Seq(FindingType) /\ f = channel[1]
  BY ReceiveFacts DEF Receive, MainTypeOK, ScanTypeOK
<1> HIDE DEF f
<1>2. /\ Len(channel) \in Nat \ {0} /\ Len(channel') = Len(channel) - 1
      /\ \A i \in 1..Len(channel') : channel'[i] = channel[i + 1]
  BY <1>1
<1>3. Len(raised) \in Nat /\ Len(channel) <= Len(raised)
      /\ \A i \in 1..Len(channel) : channel[i] = raised[Len(raised) - Len(channel) + i]
  BY <1>1 DEF QueueInv
<1>4. QueueInv'
  BY <1>1, <1>2, <1>3 DEF QueueInv
<1>5. channel' \in Seq(FindingType) /\ raised' \in Seq(FindingType)
  BY <1>1, HeadTailProperties
<1>6. /\ Taken' \in Seq(FindingType) /\ Len(Taken') = Len(raised') - Len(channel')
      /\ \A i \in 1..(Len(raised') - Len(channel')) : Taken'[i] = raised'[i]
  BY <1>4, <1>5, PrefixFacts DEF Taken, QueueInv
<1>7. /\ Taken \in Seq(FindingType) /\ Len(Taken) = Len(raised) - Len(channel)
      /\ \A i \in 1..Len(Taken) : Taken[i] = raised[i]
  BY TakenFacts
<1>8. Len(Taken') = Len(Taken) + 1 /\ Taken'[Len(Taken) + 1] = f
      /\ \A i \in 1..Len(Taken) : Taken'[i] = Taken[i]
  <2>1. Len(Taken) \in Nat /\ Len(Taken') = Len(Taken) + 1
    BY <1>1, <1>2, <1>3, <1>6, <1>7
  <2>2. Taken'[Len(Taken) + 1] = raised[Len(Taken) + 1]
    <3>1. Len(Taken) + 1 \in 1..(Len(raised') - Len(channel'))
      BY <1>1, <1>2, <1>3, <1>7
    <3> QED
      BY <1>1, <1>6, <3>1
  <2>3. raised[Len(Taken) + 1] = f
    BY <1>1, <1>2, <1>3, <1>7
  <2>4. ASSUME NEW i \in 1..Len(Taken)
        PROVE  Taken'[i] = Taken[i]
    <3>1. i \in 1..(Len(raised') - Len(channel'))
      BY <1>6, <2>1
    <3> QED
      BY <1>1, <1>6, <1>7, <3>1
  <2> QED
    BY <2>1, <2>2, <2>3, <2>4
<1>9. /\ Append(Taken, f) \in Seq(FindingType) /\ Len(Append(Taken, f)) = Len(Taken) + 1
      /\ Append(Taken, f)[Len(Taken) + 1] = f
      /\ \A i \in 1..Len(Taken) : Append(Taken, f)[i] = Taken[i]
  <2>1. f \in FindingType /\ Taken \in Seq(FindingType)
    BY <1>1, <1>7
  <2> DEFINE t == Taken
  <2>2. t \in Seq(FindingType)
    BY <2>1
  <2> HIDE DEF t
  <2>3. /\ Append(t, f) \in Seq(FindingType) /\ Len(Append(t, f)) = Len(t) + 1
        /\ Append(t, f)[Len(t) + 1] = f
        /\ \A i \in 1..Len(t) : Append(t, f)[i] = t[i]
    BY <2>1, <2>2
  <2> QED
    BY <2>3 DEF t
<1>10. \A i \in 1..Len(Taken') : Taken'[i] = Append(Taken, f)[i]
  BY <1>6, <1>7, <1>8, <1>9
<1> QED
  BY <1>4, <1>6, <1>8, <1>9, <1>10, SeqEqual DEF f

(***************************************************************************)
(* What is loaded.                                                         *)
(***************************************************************************)
\* Whether a template is loaded depends on the command line and the signatures.
LEMMA SelectionKept ==
    ASSUME UNCHANGED <<options, disk, key>>, NEW f
    PROVE  LoadSingleTemplate(f)' = LoadSingleTemplate(f)
<1>1. SignatureAllows(f)' = SignatureAllows(f)
  BY DEF SignatureAllows, SignaturePolicy, Verified
<1>2. PassesFilter(Template[f])' = PassesFilter(Template[f])
  BY DEF PassesFilter
<1> QED
  BY <1>1, <1>2 DEF LoadSingleTemplate

\* Nothing changes a signature or the command line once templates are loaded.
LEMMA NextSelects ==
    ASSUME MainTypeOK, StageInv, SelectInv, [Next]_vars
    PROVE  SelectInv'
<1>1. CASE Sign \/ \E f \in Files : Edit(f)
  BY <1>1 DEF Sign, Edit, StageInv, SelectInv
<1>2. CASE LoadTemplates
  <2>1. /\ loaded' = {f \in Files : LoadSingleTemplate(f) = "loaded"}
        /\ UNCHANGED <<options, disk, key>>
    BY <1>2 DEF LoadTemplates, signVars
  <2>2. \A f \in Files : LoadSingleTemplate(f)' = LoadSingleTemplate(f)
    BY <2>1, SelectionKept
  <2> QED
    BY <2>1, <2>2 DEF SelectInv
<1>3. ASSUME UNCHANGED <<options, disk, key, loaded>>
      PROVE  SelectInv'
  <2>1. \A f \in Files : LoadSingleTemplate(f)' = LoadSingleTemplate(f)
    BY <1>3, SelectionKept
  <2> QED
    BY <1>3, <2>1 DEF SelectInv
<1>4. CASE ResolveTargets \/ Uncover
  BY <1>3, <1>4 DEF ResolveTargets, Uncover, signVars
<1>5. CASE Tend \/ \E task \in todo : Find(task)
  BY <1>3, <1>5 DEF Tend, Find, Miss, Hang, Close, Stop, signVars
<1>6. CASE Receive \/ Count
  BY <1>3, <1>6 DEF Receive, Count, signVars
<1>7. CASE Export \/ CreateIssue
  BY <1>3, <1>7, DeliverFacts DEF signVars
<1>8. CASE Ending
  BY <1>3, <1>8, EndingFacts DEF signVars
<1>9. CASE Exited \/ UNCHANGED vars
  BY <1>3, <1>9 DEF Exited, vars, signVars
<1> QED
  BY <1>1, <1>2, <1>4, <1>5, <1>6, <1>7, <1>8, <1>9
     DEF Next, Load, Engine, Tend, Report, Ending

(***************************************************************************)
(* The honeypot detector.                                                  *)
(***************************************************************************)
MatchedIn(t, k) == {t[j].id : j \in {i \in 1..Len(t) : MatchOf(t[i], k)}}

\* A host has been matched by finitely many templates.
LEMMA MatchedFinite ==
    ASSUME NEW t \in Seq(FindingType), NEW k, NEW m \in 0..Len(t)
    PROVE  IsFiniteSet({t[j].id : j \in {i \in 1..m : MatchOf(t[i], k)}})
<1> DEFINE places == {i \in 1..m : MatchOf(t[i], k)}
<1>1. IsFiniteSet(places)
  <2>1. IsFiniteSet(1..m)
    BY FS_Interval
  <2> QED
    BY <2>1, FS_Subset
<1> DEFINE ids == {t[j].id : j \in places}
           idOf == [j \in places |-> t[j].id]
<1>2. idOf \in Surjection(places, ids)
  BY DEF Surjection
<1> QED
  BY <1>1, <1>2, FS_Surjection

\* One more finding matches one more template, of its host.
LEMMA MatchedGrows ==
    ASSUME NEW t \in Seq(FindingType), NEW f \in FindingType, NEW k
    PROVE  MatchedIn(Append(t, f), k) =
              MatchedIn(t, k) \cup (IF MatchOf(f, k) THEN {f.id} ELSE {})
<1> DEFINE a == Append(t, f)
           n == Len(t)
<1>1. /\ Len(a) = n + 1 /\ n \in Nat /\ a[n + 1] = f
      /\ \A i \in 1..n : a[i] = t[i]
  OBVIOUS
<1> HIDE DEF a
<1>2. ASSUME NEW x \in MatchedIn(a, k)
      PROVE  x \in MatchedIn(t, k) \cup (IF MatchOf(f, k) THEN {f.id} ELSE {})
  <2>1. PICK j \in 1..n + 1 : MatchOf(a[j], k) /\ x = a[j].id
    BY <1>1, <1>2 DEF MatchedIn
  <2>2. CASE j = n + 1
    BY <1>1, <2>1, <2>2
  <2>3. CASE j # n + 1
    <3>1. j \in 1..n /\ MatchOf(t[j], k) /\ x = t[j].id
      BY <1>1, <2>1, <2>3
    <3> QED
      BY <3>1 DEF MatchedIn
  <2> QED
    BY <2>2, <2>3
<1>3. ASSUME NEW x \in MatchedIn(t, k)
      PROVE  x \in MatchedIn(a, k)
  <2>1. PICK j \in 1..n : MatchOf(t[j], k) /\ x = t[j].id
    BY <1>3 DEF MatchedIn
  <2>2. j \in 1..Len(a) /\ MatchOf(a[j], k) /\ x = a[j].id
    BY <1>1, <2>1
  <2> QED
    BY <2>2 DEF MatchedIn
<1>4. ASSUME MatchOf(f, k)
      PROVE  f.id \in MatchedIn(a, k)
  <2>1. n + 1 \in 1..Len(a) /\ MatchOf(a[n + 1], k) /\ f.id = a[n + 1].id
    BY <1>1, <1>4
  <2> QED
    BY <2>1 DEF MatchedIn
<1> QED
  BY <1>2, <1>3, <1>4 DEF a

\* The definition by a sequence is the one of the invariant.
LEMMA MatchedIsOfTaken ==
    ASSUME MainTypeOK, QueueInv, NEW k
    PROVE  Matched(k) = MatchedIn(Taken, k)
BY TakenFacts DEF Matched, MatchedIn

\* What the detector knows of a host is what its templates amount to.
Knows(state, ids) ==
    /\ state.flagged <=> Cardinality(ids) >= Limit
    /\ ~state.flagged => state.ids = ids

\* record_match keeps the detector up to date, also where the threshold is met.
LEMMA RecordedKnows ==
    ASSUME NEW state \in HostType, NEW ids, IsFiniteSet(ids), NEW id, Knows(state, ids)
    PROVE  Knows(Recorded(state, id), ids \cup {id})
<1>1. /\ IsFiniteSet(ids \cup {id}) /\ Cardinality(ids) \in Nat
      /\ Cardinality(ids \cup {id}) \in Nat /\ Cardinality(ids) <= Cardinality(ids \cup {id})
  <2>1. IsFiniteSet(ids \cup {id})
    BY FS_AddElement
  <2> QED
    BY <2>1, FS_Subset, FS_CardinalityType
<1>2. CASE state.flagged
  <2>1. Cardinality(ids \cup {id}) >= Limit
    BY <1>1, <1>2, LimitIsPositive DEF Knows
  <2> QED
    BY <1>2, <2>1 DEF Recorded, Knows
<1>3. CASE ~state.flagged /\ Cardinality(ids \cup {id}) >= Limit
  <2>1. state.ids = ids
    BY <1>3 DEF Knows
  <2> QED
    BY <1>3, <2>1 DEF Recorded, Knows
<1>4. CASE ~state.flagged /\ ~(Cardinality(ids \cup {id}) >= Limit)
  <2>1. state.ids = ids
    BY <1>4 DEF Knows
  <2>2. Recorded(state, id) = [state EXCEPT !.ids = ids \cup {id}]
    BY <1>4, <2>1 DEF Recorded
  <2>3. Recorded(state, id).flagged = state.flagged /\ Recorded(state, id).ids = ids \cup {id}
    BY <2>2 DEF HostType
  <2> QED
    BY <1>4, <2>3 DEF Knows
<1> QED
  BY <1>2, <1>3, <1>4

\* The detector knows nothing, and nothing has been taken.
LEMMA InitDetects == Init => DetectInv
<1> SUFFICES ASSUME Init, NEW u \in UrlType
             PROVE  IF options.detect THEN Knows(HostState(detector, u), Matched(HostKey(u)))
                                      ELSE ~HostState(detector, u).flagged
  BY DEF DetectInv, Knows
<1>1. HostState(detector, u) = FreshHost
  <2>1. DOMAIN detector = {}
    BY EmptySeq DEF Init
  <2> QED
    BY <2>1 DEF HostState
<1>2. Matched(HostKey(u)) = {}
  <2>1. raised = << >> /\ channel = << >>
    BY DEF Init
  <2>2. DOMAIN Taken = {}
    BY <2>1 DEF Taken
  <2> QED
    BY <2>2 DEF Matched
<1>3. Cardinality(Matched(HostKey(u))) = 0
  BY <1>2, FS_EmptySet
<1> QED
  BY <1>1, <1>2, <1>3, LimitIsPositive DEF FreshHost, Knows

\* The detector learns the template and the host of the finding that is taken.
LEMMA ReceiveDetects ==
    ASSUME MainTypeOK, QueueInv, DetectInv, Receive
    PROVE  DetectInv'
<1> DEFINE f == Head(channel)
<1>1. /\ f \in FindingType /\ options' = options
      /\ detector' = IF options.detect THEN RecordMatch(detector, f) ELSE detector
      /\ detector \in [DOMAIN detector -> HostType]
  BY ReceiveFacts DEF Receive, MainTypeOK, ReportTypeOK
<1>2. Taken' = Append(Taken, f) /\ Taken \in Seq(FindingType) /\ Len(Taken) \in Nat
  BY ReceiveQueue, TakenFacts
<1> HIDE DEF f
<1>3. \A k : Matched(k)' = Matched(k) \cup (IF MatchOf(f, k) THEN {f.id} ELSE {})
  <2>1. \A k : Matched(k)' = MatchedIn(Append(Taken, f), k)
    BY <1>1, <1>2, AppendProperties DEF Matched, MatchedIn
  <2>2. \A k : Matched(k) = MatchedIn(Taken, k)
    BY MatchedIsOfTaken
  <2> QED
    BY <1>1, <1>2, <2>1, <2>2, MatchedGrows
<1>4. ASSUME options.detect, NEW u \in UrlType
      PROVE  Knows(HostState(detector', u), Matched(HostKey(u))')
  <2>0. f.url \in UrlType
    BY <1>1 DEF FindingType
  <2>1. CASE MatchOf(f, HostKey(u))
    <3>0. HostKey(u) = HostKey(f.url)
      BY <2>1 DEF MatchOf
    <3>1. HostState(detector', u) = Recorded(HostState(detector, f.url), f.id)
      BY <1>1, <1>4, <2>1, RecordFacts
    <3>2. Knows(HostState(detector, f.url), Matched(HostKey(f.url)))
      BY <1>4, <2>0 DEF DetectInv, Knows
    <3>3. HostState(detector, f.url) \in HostType
      BY <1>1, StateTyped
    <3>4. IsFiniteSet(Matched(HostKey(f.url)))
      <4>1. Len(Taken) \in 0..Len(Taken)
        BY <1>2
      <4>2. IsFiniteSet(MatchedIn(Taken, HostKey(f.url)))
        BY <1>2, <4>1, MatchedFinite DEF MatchedIn
      <4> QED
        BY <4>2, MatchedIsOfTaken
    <3>5. Matched(HostKey(u))' = Matched(HostKey(f.url)) \cup {f.id}
      BY <1>3, <2>1, <3>0
    <3> QED
      BY <3>1, <3>2, <3>3, <3>4, <3>5, RecordedKnows
  <2>2. CASE ~MatchOf(f, HostKey(u))
    <3>1. HostState(detector', u) = HostState(detector, u)
      BY <1>1, <1>4, <2>2, RecordFacts
    <3>2. Matched(HostKey(u))' = Matched(HostKey(u))
      BY <1>3, <2>2
    <3>3. Knows(HostState(detector, u), Matched(HostKey(u)))
      BY <1>4 DEF DetectInv, Knows
    <3> QED
      BY <3>1, <3>2, <3>3
  <2> QED
    BY <2>1, <2>2
<1>5. ASSUME ~options.detect, NEW u \in UrlType
      PROVE  ~HostState(detector', u).flagged
  BY <1>1, <1>5 DEF DetectInv
<1> QED
  BY <1>1, <1>4, <1>5 DEF DetectInv, Knows

(***************************************************************************)
(* The log: what is reported of what was taken.                             *)
(***************************************************************************)
\* Whether the i-th finding of t is suppressed, and the places of the others.
Excess(t, i) ==
    Cardinality({t[j].id : j \in {k \in 1..i : MatchOf(t[k], HostKey(t[i].url))}}) >= Limit
Unsuppressed(t) == {i \in 1..Len(t) : ~(options.detect /\ options.suppress /\ Excess(t, i))}

\* The definition by a sequence is the one of ReportsAgree.
LEMMA KeptIsOfTaken ==
    ASSUME MainTypeOK, QueueInv
    PROVE  Kept = Unsuppressed(Taken)
<1>1. DOMAIN Taken = 1..Len(Taken)
  BY TakenFacts
<1>2. \A i : Concentrated(i) <=> Excess(Taken, i)
  BY DEF Concentrated, Excess, Limit, MatchOf
<1> QED
  BY <1>1, <1>2 DEF Kept, Unsuppressed

\* What comes later does not count.
LEMMA ExcessGrows ==
    ASSUME NEW t \in Seq(FindingType), NEW f \in FindingType
    PROVE  /\ \A i \in 1..Len(t) : Excess(Append(t, f), i) <=> Excess(t, i)
           /\ Excess(Append(t, f), Len(t) + 1) <=>
                 Cardinality(MatchedIn(Append(t, f), HostKey(f.url))) >= Limit
<1> DEFINE a == Append(t, f)
           n == Len(t)
<1>1. /\ Len(a) = n + 1 /\ n \in Nat /\ a[n + 1] = f
      /\ \A i \in 1..n : a[i] = t[i]
  OBVIOUS
<1> HIDE DEF a
<1>2. ASSUME NEW i \in 1..n
      PROVE  Excess(a, i) <=> Excess(t, i)
  <2> DEFINE A == {k \in 1..i : MatchOf(a[k], HostKey(a[i].url))}
             B == {k \in 1..i : MatchOf(t[k], HostKey(t[i].url))}
  <2>1. \A k \in 1..i : a[k] = t[k]
    BY <1>1
  <2>2. A = B
    BY <1>1, <2>1
  <2>3. \A k \in B : a[k] = t[k]
    BY <2>1
  <2>4. {a[j].id : j \in A} = {t[j].id : j \in B}
    BY <2>2, <2>3
  <2> QED
    BY <2>4 DEF Excess
<1>3. Excess(a, n + 1) <=> Cardinality(MatchedIn(a, HostKey(f.url))) >= Limit
  BY <1>1 DEF Excess, MatchedIn
<1> QED
  BY <1>2, <1>3 DEF a

\* The detector flags the host of a finding exactly if it has too many templates then.
LEMMA SuppressedFacts ==
    ASSUME MainTypeOK, QueueInv, DetectInv, Receive
    PROVE  Suppressed(Head(channel)) <=>
              options.detect /\ options.suppress /\ Excess(Taken', Len(Taken) + 1)
<1>0. PICK f \in FindingType : f = Head(channel)
  BY ReceiveFacts
<1>1. /\ options' = options
      /\ detector' = IF options.detect THEN RecordMatch(detector, f) ELSE detector
  BY <1>0, ReceiveFacts DEF Receive
<1>2. Taken' = Append(Taken, f) /\ Taken \in Seq(FindingType)
  BY <1>0, ReceiveQueue, TakenFacts
<1>3. f.url \in UrlType
  BY DEF FindingType
<1>4. DetectInv'
  BY ReceiveDetects
<1>5. Matched(HostKey(f.url))' = MatchedIn(Taken', HostKey(f.url))
  <2>1. DOMAIN Taken' = 1..Len(Taken')
    BY <1>2, AppendProperties
  <2> QED
    BY <2>1 DEF Matched, MatchedIn
<1>6. Excess(Taken', Len(Taken) + 1) <=> Cardinality(MatchedIn(Taken', HostKey(f.url))) >= Limit
  BY <1>2, ExcessGrows
<1>7. CASE options.detect
  <2>1. HostState(detector, f.url)'.flagged <=> Cardinality(Matched(HostKey(f.url)))' >= Limit
    BY <1>1, <1>3, <1>4, <1>7 DEF DetectInv
  <2>2. HostState(detector, f.url)' = HostState(detector', f.url)
    BY DEF HostState
  <2> QED
    BY <1>0, <1>5, <1>6, <1>7, <2>1, <2>2 DEF Suppressed
<1>8. CASE ~options.detect
  <2>1. ~HostState(detector, f.url)'.flagged
    BY <1>1, <1>3, <1>4, <1>8 DEF DetectInv
  <2>2. HostState(detector, f.url)' = HostState(detector', f.url)
    BY DEF HostState
  <2> QED
    BY <1>0, <1>8, <2>1, <2>2 DEF Suppressed
<1> QED
  BY <1>7, <1>8

\* The finding that is taken is kept exactly if it is not suppressed.
LEMMA ReceiveKeeps ==
    ASSUME MainTypeOK, QueueInv, DetectInv, Receive
    PROVE  Kept' = Kept \cup (IF Suppressed(Head(channel)) THEN {} ELSE {Len(Taken) + 1})
<1> DEFINE f == Head(channel)
           n == Len(Taken)
<1>1. /\ f \in FindingType /\ options' = options
      /\ Taken' = Append(Taken, f) /\ Taken \in Seq(FindingType) /\ n \in Nat
  BY ReceiveFacts, ReceiveQueue, TakenFacts DEF Receive
<1>2. Kept = Unsuppressed(Taken)
  BY KeptIsOfTaken
<1> HIDE DEF f, n
<1>3. Len(Taken') = n + 1 /\ DOMAIN Taken' = 1..n + 1
  BY <1>1 DEF n
<1>4. \A i \in 1..n : Excess(Taken', i) <=> Excess(Taken, i)
  BY <1>1, ExcessGrows DEF n
<1>5. Suppressed(f) <=> options.detect /\ options.suppress /\ Excess(Taken', n + 1)
  BY SuppressedFacts DEF f, n
<1>6. Kept' = {i \in 1..n + 1 : ~(options.detect /\ options.suppress /\ Excess(Taken', i))}
  <2>1. \A i : Concentrated(i)' <=> Excess(Taken', i)
    BY DEF Concentrated, Excess, Limit, MatchOf
  <2> QED
    BY <1>1, <1>3, <2>1 DEF Kept
<1>7. Kept = {i \in 1..n : ~(options.detect /\ options.suppress /\ Excess(Taken, i))}
  BY <1>2 DEF Unsuppressed, n
<1> QED
  BY <1>1, <1>4, <1>5, <1>6, <1>7 DEF f, n

\* The rank of a place among the kept ones.
LEMMA Ranks ==
    ASSUME NEW n \in Nat, NEW kept \in SUBSET (1..n)
    PROVE  /\ IsFiniteSet(kept) /\ Cardinality(kept) \in Nat
           /\ \A i \in kept : Cardinality(kept \cap (1..i)) \in 1..Cardinality(kept)
<1>1. IsFiniteSet(1..n)
  BY FS_Interval
<1>2. IsFiniteSet(kept) /\ Cardinality(kept) \in Nat
  BY <1>1, FS_Subset, FS_CardinalityType
<1>3. ASSUME NEW i \in kept
      PROVE  Cardinality(kept \cap (1..i)) \in 1..Cardinality(kept)
  <2> DEFINE part == kept \cap (1..i)
  <2>1. part \subseteq kept /\ i \in part
    OBVIOUS
  <2> HIDE DEF part
  <2>2. IsFiniteSet(part) /\ Cardinality(part) <= Cardinality(kept) /\ Cardinality(part) \in Nat
    BY <1>2, <2>1, FS_Subset, FS_CardinalityType
  <2>3. Cardinality(part) # 0
    BY <2>1, <2>2, FS_EmptySet
  <2> QED
    BY <1>2, <2>2, <2>3 DEF part
<1> QED
  BY <1>2, <1>3

\* A log has the findings of t at the kept places, in order.
IsLog(log, t, kept) ==
    /\ Len(log) = Cardinality(kept)
    /\ \A i \in kept : log[Cardinality(kept \cap (1..i))] = t[i]

\* With the next place the log is one finding longer.
LEMMA LogGrows ==
    ASSUME NEW n \in Nat, NEW kept \in SUBSET (1..n), NEW t \in Seq(FindingType), Len(t) = n,
           NEW f \in FindingType, NEW log \in Seq(FindingType), IsLog(log, t, kept)
    PROVE  IsLog(log \o << f >>, Append(t, f), kept \cup {n + 1})
<1> DEFINE more == kept \cup {n + 1}
           after == log \o << f >>
           a == Append(t, f)
<1>0. /\ Len(log) = Cardinality(kept)
      /\ \A i \in kept : log[Cardinality(kept \cap (1..i))] = t[i]
  BY DEF IsLog
<1>1. /\ Len(after) = Len(log) + 1 /\ Len(log) \in Nat /\ after[Len(log) + 1] = f
      /\ \A i \in 1..Len(log) : after[i] = log[i]
  OBVIOUS
<1>2. a[n + 1] = f /\ \A i \in 1..n : a[i] = t[i]
  OBVIOUS
<1>3. IsFiniteSet(kept) /\ Cardinality(kept) \in Nat
      /\ \A i \in kept : Cardinality(kept \cap (1..i)) \in 1..Cardinality(kept)
  BY Ranks
<1>4. Cardinality(more) = Cardinality(kept) + 1
  <2>1. n + 1 \notin kept
    OBVIOUS
  <2> QED
    BY <1>3, <2>1, FS_AddElement
<1>5. Len(after) = Cardinality(more)
  BY <1>0, <1>1, <1>4
<1>6. ASSUME NEW i \in more
      PROVE  after[Cardinality(more \cap (1..i))] = a[i]
  <2>1. CASE i = n + 1
    <3>1. more \cap (1..i) = more
      <4>1. more \subseteq 1..i
        BY <2>1
      <4> QED
        BY <4>1
    <3>2. after[Cardinality(more)] = f /\ a[i] = f
      BY <1>0, <1>1, <1>2, <1>4, <2>1
    <3> QED
      BY <3>1, <3>2
  <2>2. CASE i # n + 1
    <3>1. i \in kept /\ i \in 1..n
      BY <2>2
    <3>2. more \cap (1..i) = kept \cap (1..i)
      BY <3>1
    <3>3. Cardinality(kept \cap (1..i)) \in 1..Len(log)
      BY <1>0, <1>3, <3>1
    <3>4. log[Cardinality(kept \cap (1..i))] = t[i] /\ a[i] = t[i]
      BY <1>0, <1>2, <3>1
    <3> HIDE DEF after, a
    <3> QED
      BY <1>1, <3>2, <3>3, <3>4
  <2> QED
    BY <2>1, <2>2
<1> QED
  BY <1>5, <1>6 DEF IsLog


(***************************************************************************)
(* Which steps touch the reports.                                           *)
(***************************************************************************)
\* The steps outside the report loop and what follows it: templates are loaded, or not,
\* before anything is reported.
Apart ==
    /\ UNCHANGED <<options, reportVars, files>>
    /\ \/ UNCHANGED <<loaded, pc, exit>>
       \/ loaded = {} /\ (loaded' = {} \/ pc' = "report")

\* Every step is one of the report loop, one of those after it, or apart.
LEMMA StepsOfReports ==
    ASSUME StageInv, [Next]_vars
    PROVE  Receive \/ (Export \/ CreateIssue) \/ Count \/ Ending \/ Apart
<1>1. CASE Sign \/ \E f \in Files : Edit(f)
  BY <1>1 DEF Sign, Edit, Apart
<1>2. CASE ResolveTargets \/ Uncover
  BY <1>2 DEF ResolveTargets, Uncover, Apart, StageInv
<1>3. CASE LoadTemplates
  BY <1>3 DEF LoadTemplates, Apart, StageInv
<1>4. CASE Tend \/ \E task \in todo : Find(task)
  BY <1>4 DEF Tend, Find, Miss, Hang, Close, Stop, Apart
<1>5. CASE Exited \/ UNCHANGED vars
  BY <1>5 DEF Exited, vars, Apart
<1> QED
  BY <1>1, <1>2, <1>3, <1>4, <1>5 DEF Next, Load, Engine, Tend, Report, Ending

\* Only Receive takes findings.
LEMMA NextQueue ==
    ASSUME MainTypeOK, QueueInv, StageInv, [Next]_vars
    PROVE  QueueInv' /\ (~Receive => Taken' = Taken)
<1>1. CASE Receive
  BY <1>1, ReceiveQueue
<1>2. CASE \E task \in todo : Find(task)
  BY <1>2, FindQueue
<1>3. CASE ~Receive /\ ~\E task \in todo : Find(task)
  <2>1. UNCHANGED <<channel, raised>>
    BY <1>3, Quiet DEF Elsewhere
  <2> QED
    BY <2>1 DEF QueueInv, Taken
<1> QED
  BY <1>1, <1>2, <1>3

\* Only Receive teaches the detector.
LEMMA NextDetects ==
    ASSUME MainTypeOK, QueueInv, StageInv, DetectInv, [Next]_vars
    PROVE  DetectInv'
<1>1. CASE Receive
  BY <1>1, ReceiveDetects
<1>2. CASE ~Receive
  <2>1. Taken' = Taken
    BY <1>2, NextQueue
  <2>2. UNCHANGED <<options, detector>>
    <3>1. CASE Export \/ CreateIssue
      BY <3>1, DeliverFacts
    <3>2. CASE Count
      BY <3>2 DEF Count
    <3>3. CASE Ending
      BY <3>3, EndingFacts DEF reportVars
    <3>4. CASE Apart
      BY <3>4 DEF Apart, reportVars
    <3> QED
      BY <1>2, <3>1, <3>2, <3>3, <3>4, StepsOfReports
  <2>3. \A k : Matched(k)' = Matched(k)
    BY <2>1 DEF Matched
  <2>4. \A u : HostState(detector, u)' = HostState(detector, u)
    BY <2>2 DEF HostState
  <2> QED
    BY <2>2, <2>3, <2>4 DEF DetectInv
<1> QED
  BY <1>1, <1>2

(***************************************************************************)
(* The log is kept.                                                        *)
(***************************************************************************)
\* Between two findings the log is what was counted.
LEMMA LogIsTyped ==
    ASSUME MainTypeOK
    PROVE  /\ all \in Seq(FindingType) /\ Reported \in Seq(FindingType)
           /\ current = << >> => Reported = all
<1>1. all \in Seq(FindingType) /\ current \in Seq(FindingType)
  BY CurrentTyped DEF MainTypeOK, ReportTypeOK
<1>2. Reported \in Seq(FindingType)
  BY <1>1, ConcatProperties DEF Reported
<1>3. current = << >> => Reported = all
  BY <1>1, ConcatEmptySeq DEF Reported
<1> QED
  BY <1>1, <1>2, <1>3

\* A finding that is not suppressed is reported next.
LEMMA ReceiveReports ==
    ASSUME MainTypeOK, Receive
    PROVE  /\ all' = all
           /\ Suppressed(Head(channel)) => Reported' = Reported
           /\ ~Suppressed(Head(channel)) => Reported' = Reported \o << Head(channel) >>
<1>1. all' = all
  BY DEF Receive
<1>2. Reported = all
  BY LogIsTyped, ReceiveFacts
<1>3. Suppressed(Head(channel)) => current' = current
  BY ReceiveFacts
<1>4. ~Suppressed(Head(channel)) => current' = << Head(channel) >>
  BY ReceiveFacts
<1> QED
  BY <1>1, <1>2, <1>3, <1>4 DEF Reported

\* Count moves the finding under way to the others.
LEMMA CountReports ==
    ASSUME MainTypeOK, Count
    PROVE  Reported' = Reported /\ all' = Reported
<1>1. Reported \in Seq(FindingType)
  BY LogIsTyped
<1>2. all' = Reported /\ current' = << >>
  BY DEF Count, Reported
<1>3. Reported' = Reported \o << >>
  BY <1>2 DEF Reported
<1> QED
  BY <1>1, <1>2, <1>3, ConcatEmptySeq

\* Nothing else changes what is reported.
LEMMA OthersReport ==
    ASSUME MainTypeOK, StageInv, [Next]_vars, ~Receive, ~Count
    PROVE  Reported' = Reported /\ UNCHANGED <<options, all, current, printed, jsonl, unwritten>>
<1>1. CASE Export \/ CreateIssue
  BY <1>1, DeliverFacts DEF Reported
<1>2. CASE Ending
  BY <1>2, EndingFacts DEF Reported, reportVars
<1>3. CASE Apart
  BY <1>3 DEF Apart, Reported, reportVars
<1> QED
  BY <1>1, <1>2, <1>3, StepsOfReports

\* The log grows by the findings that are kept, and by nothing else.
LEMMA NextLogs ==
    ASSUME MainTypeOK, QueueInv, StageInv, DetectInv, LogInv, [Next]_vars
    PROVE  LogInv'
<1>0. /\ Taken \in Seq(FindingType) /\ DOMAIN Taken = 1..Len(Taken) /\ Len(Taken) \in Nat
      /\ Kept \in SUBSET (1..Len(Taken)) /\ Reported \in Seq(FindingType)
  BY TakenFacts, LogIsTyped DEF Kept
<1>1. CASE ~Receive
  <2>1. Taken' = Taken
    BY <1>1, NextQueue
  <2>2. Reported' = Reported /\ options' = options
    BY <1>1, CountReports, OthersReport DEF Count
  <2>3. Kept' = Kept
    BY <2>1, <2>2 DEF Kept, Concentrated
  <2> QED
    BY <2>1, <2>2, <2>3 DEF LogInv
<1>2. CASE Receive
  <2>0. PICK f \in FindingType : f = Head(channel)
    BY <1>2, ReceiveFacts
  <2>1. /\ Taken' = Append(Taken, f)
        /\ Kept' = Kept \cup (IF Suppressed(f) THEN {} ELSE {Len(Taken) + 1})
    BY <1>2, <2>0, ReceiveQueue, ReceiveKeeps
  <2>2. CASE Suppressed(f)
    <3>1. Kept' = Kept /\ Reported' = Reported
      BY <1>2, <2>0, <2>1, <2>2, ReceiveReports
    <3>2. \A i \in 1..Len(Taken) : Append(Taken, f)[i] = Taken[i]
      BY <1>0, AppendProperties
    <3>3. \A i \in Kept : Taken'[i] = Taken[i]
      BY <1>0, <2>1, <3>2
    <3> QED
      BY <3>1, <3>3 DEF LogInv
  <2>3. CASE ~Suppressed(f)
    <3>1. Kept' = Kept \cup {Len(Taken) + 1} /\ Reported' = Reported \o << f >>
      BY <1>2, <2>0, <2>1, <2>3, ReceiveReports
    <3>0. PICK n \in Nat : n = Len(Taken)
      BY <1>0
    <3>2. PICK kept \in SUBSET (1..n), t \in Seq(FindingType), log \in Seq(FindingType) :
             kept = Kept /\ t = Taken /\ log = Reported
      BY <1>0, <3>0
    <3>3. Len(t) = n /\ IsLog(log, t, kept)
      BY <3>0, <3>2 DEF LogInv, IsLog
    <3>4. IsLog(log \o << f >>, Append(t, f), kept \cup {n + 1})
      BY <3>3, LogGrows
    <3>5. Kept' = kept \cup {n + 1} /\ Reported' = log \o << f >> /\ Taken' = Append(t, f)
      BY <2>1, <3>0, <3>1, <3>2
    <3> QED
      BY <3>4, <3>5 DEF LogInv, IsLog
  <2> QED
    BY <2>2, <2>3
<1> QED
  BY <1>1, <1>2

(***************************************************************************)
(* The terminal and the JSONL.                                              *)
(***************************************************************************)
\* A finding that is reported is a line more, or one that could not be written.
LEMMA WriteKeeps ==
    ASSUME jsonl \in Seq(FindingType), Reported \in Seq(FindingType), NEW f \in FindingType,
           Reported' = Reported \o << f >>, WriteFinding(f), JsonlInv
    PROVE  JsonlInv'
<1>1. CASE jsonl' = Append(jsonl, f) /\ UNCHANGED unwritten
  <2>1. Append(jsonl, f) = jsonl \o << f >>
    BY AppendIsConcat
  <2>2. Subsequence(Append(jsonl, f), Reported \o << f >>)
    BY SubsequenceOfBoth DEF JsonlInv
  <2> QED
    BY <1>1, <2>1, <2>2 DEF JsonlInv
<1>2. CASE unwritten' = TRUE /\ UNCHANGED jsonl
  <2>1. Subsequence(jsonl, Reported \o << f >>)
    BY SubsequenceOfLonger DEF JsonlInv
  <2> QED
    BY <1>2, <2>1 DEF JsonlInv
<1> QED
  BY <1>1, <1>2 DEF WriteFinding

\* A line is written for each finding that is reported, or thrown away.
LEMMA NextLines ==
    ASSUME MainTypeOK, StageInv, LinesInv, [Next]_vars
    PROVE  LinesInv'
<1>1. CASE Receive
  <2>0. PICK f \in FindingType : f = Head(channel)
    BY <1>1, ReceiveFacts
  <2>1. /\ printed \in Seq(FindingType) /\ jsonl \in Seq(FindingType)
        /\ UNCHANGED <<options, files>>
    BY <1>1 DEF Receive, MainTypeOK, ReportTypeOK
  <2>2. Printed' = Printed /\ JsonlOpen' = JsonlOpen
    BY <2>1 DEF Printed, JsonlOpen
  <2>3. Append(printed, f) = printed \o << f >>
    BY <2>1, AppendIsConcat
  <2>4. CASE Suppressed(f)
    <3>1. Reported' = Reported /\ printed' = printed /\ UNCHANGED <<jsonl, unwritten>>
      BY <1>1, <2>0, <2>4, ReceiveFacts, ReceiveReports DEF WritesLine
    <3> QED
      BY <2>2, <3>1 DEF LinesInv, JsonlInv
  <2>5. CASE ~Suppressed(f)
    <3>1. /\ Reported' = Reported \o << f >>
          /\ printed' = IF Printed THEN Append(printed, f) ELSE printed
          /\ JsonlOpen => WriteFinding(f)
      BY <1>1, <2>0, <2>5, ReceiveFacts, ReceiveReports DEF WritesLine
    <3>2. Printed => printed' = Reported'
      BY <2>3, <3>1 DEF LinesInv
    <3>3. JsonlOpen => JsonlInv'
      BY <2>1, <3>1, LogIsTyped, WriteKeeps DEF LinesInv
    <3> QED
      BY <2>2, <3>2, <3>3 DEF LinesInv
  <2> QED
    BY <2>4, <2>5
<1>2. CASE Count
  <2>1. Reported' = Reported /\ UNCHANGED <<options, printed, jsonl, unwritten, files>>
    BY <1>2, CountReports DEF Count
  <2> QED
    BY <2>1 DEF LinesInv, JsonlInv, Printed, JsonlOpen
<1>3. CASE ~Receive /\ ~Count
  <2>1. Reported' = Reported /\ UNCHANGED <<options, printed, jsonl, unwritten>>
    BY <1>3, OthersReport
  <2>2. JsonlOpen' => JsonlOpen
    <3>1. CASE Export \/ CreateIssue
      BY <3>1, DeliverFacts DEF JsonlOpen
    <3>2. CASE Ending
      <4>1. {options.output} \subseteq {""} \cup ReportPaths
        BY OptionFacts DEF MainTypeOK, SignTypeOK
      <4>2. \A p \in ReportPaths : files'[p].kind = "jsonl" => files'[p] = files[p]
        BY <3>2, EndingFacts
      <4> QED
        BY <2>1, <4>1, <4>2 DEF JsonlOpen
    <3>3. CASE Apart
      BY <3>3 DEF Apart, JsonlOpen
    <3> QED
      BY <1>3, <3>1, <3>2, <3>3, StepsOfReports
  <2>3. Printed' = Printed
    BY <2>1 DEF Printed
  <2> QED
    BY <2>1, <2>2, <2>3 DEF LinesInv, JsonlInv
<1> QED
  BY <1>1, <1>2, <1>3

(***************************************************************************)
(* The receivers.                                                          *)
(***************************************************************************)
\* While none is awaited, what receivers have is of all the findings reported.
LEMMA DeliveredOfReported ==
    ASSUME MainTypeOK, DeliverInv, NEW i \in DOMAIN Receivers
    PROVE  Subsequence(delivered[Receivers[i]], Reported)
<1>1. /\ Receivers[i] \in ToSet(Receivers)
      /\ delivered[Receivers[i]] \in Seq(FindingType)
  BY DEF ToSet, MainTypeOK, ReportTypeOK
<1>2. CASE i < receiver \/ current = << >>
  BY <1>2, LogIsTyped DEF DeliverInv
<1>3. CASE ~(i < receiver) /\ current # << >>
  <2>1. current[1] \in FindingType /\ Reported = all \o << current[1] >>
    BY <1>3, CurrentTyped DEF Reported
  <2>2. all \in Seq(FindingType) /\ Subsequence(delivered[Receivers[i]], all)
    BY <1>3, LogIsTyped DEF DeliverInv
  <2> QED
    BY <1>1, <2>1, <2>2, SubsequenceOfLonger
<1> QED
  BY <1>2, <1>3

\* A receiver may get the finding under way when its turn comes, and then only.
LEMMA NextDelivers ==
    ASSUME MainTypeOK, StageInv, DeliverInv, [Next]_vars
    PROVE  DeliverInv'
<1>0. /\ Len(Receivers) \in Nat /\ DOMAIN Receivers = 1..Len(Receivers)
      /\ \A i, j \in 1..Len(Receivers) : Receivers[i] = Receivers[j] => i = j
      /\ receiver \in 1..(Len(Receivers) + 1)
      /\ delivered \in [ToSet(Receivers) -> Seq(FindingType)]
      /\ \A i \in DOMAIN Receivers : Receivers[i] \in ToSet(Receivers)
  <2>1. options \in Options
    BY DEF MainTypeOK, SignTypeOK
  <2>2. DOMAIN Receivers = 1..Len(Receivers)
    BY <2>1, ReceiverFacts
  <2> QED
    BY <2>1, <2>2, ReceiverFacts DEF MainTypeOK, ReportTypeOK
<1>1. CASE Receive
  <2>1. UNCHANGED <<options, all, delivered>> /\ current = << >>
    BY <1>1 DEF Receive
  <2>2. Receivers' = Receivers
    BY <2>1 DEF Receivers, TrackerTarget
  <2>3. Reported = all
    BY <2>1, LogIsTyped
  <2>4. \/ receiver' = 1
        \/ receiver' = receiver /\ Reported' = Reported
    BY <1>1, ReceiveFacts, ReceiveReports
  <2>5. ASSUME NEW i \in DOMAIN Receivers
        PROVE  Subsequence(delivered[Receivers[i]], IF i < receiver' THEN Reported' ELSE all)
    <3>1. Subsequence(delivered[Receivers[i]], all)
      BY <2>3 DEF DeliverInv
    <3> QED
      BY <1>0, <2>3, <2>4, <3>1
  <2> QED
    BY <2>1, <2>2, <2>5 DEF DeliverInv
<1>2. CASE Export \/ CreateIssue
  <2>1. /\ current # << >> /\ receiver \in 1..Len(Receivers) /\ receiver' = receiver + 1
        /\ \/ delivered' = delivered
           \/ delivered' = [delivered EXCEPT ![Receivers[receiver]] = Append(@, current[1])]
        /\ UNCHANGED <<options, current, all>>
    BY <1>2, DeliverFacts
  <2>2. Receivers' = Receivers /\ Reported' = Reported
    BY <2>1 DEF Receivers, TrackerTarget, Reported
  <2>3. ASSUME NEW i \in DOMAIN Receivers
        PROVE  Subsequence(delivered'[Receivers[i]], IF i < receiver' THEN Reported ELSE all)
    <3>1. CASE i # receiver
      <4>1. delivered'[Receivers[i]] = delivered[Receivers[i]]
        BY <1>0, <2>1, <3>1
      <4>2. i < receiver' <=> i < receiver
        BY <1>0, <2>1, <3>1
      <4> QED
        BY <4>1, <4>2 DEF DeliverInv
    <3>2. CASE i = receiver
      <4>1. PICK x \in FindingType : x = current[1] /\ Reported = all \o << x >>
        BY <2>1, CurrentTyped DEF Reported
      <4>2. PICK d \in Seq(FindingType) : d = delivered[Receivers[i]]
        BY <1>0
      <4>3. Subsequence(d, all) /\ all \in Seq(FindingType)
        BY <1>0, <3>2, <4>2, LogIsTyped DEF DeliverInv
      <4>4. Subsequence(d, all \o << x >>) /\ Subsequence(Append(d, x), all \o << x >>)
        BY <4>3, SubsequenceOfLonger, SubsequenceOfBoth
      <4>5. delivered'[Receivers[i]] \in {d, Append(d, x)}
        BY <1>0, <2>1, <3>2, <4>1, <4>2
      <4>6. i < receiver'
        BY <1>0, <2>1, <3>2
      <4> QED
        BY <4>1, <4>4, <4>5, <4>6
    <3> QED
      BY <3>1, <3>2
  <2> QED
    BY <2>1, <2>2, <2>3 DEF DeliverInv
<1>3. CASE Count
  <2>1. UNCHANGED <<options, receiver, delivered>> /\ receiver > Len(Receivers)
    BY <1>3 DEF Count
  <2>2. Receivers' = Receivers /\ all' = Reported /\ Reported' = Reported
    BY <1>3, <2>1, CountReports DEF Receivers, TrackerTarget
  <2>3. \A i \in DOMAIN Receivers : i < receiver
    BY <1>0, <2>1
  <2> QED
    BY <2>1, <2>2, <2>3 DEF DeliverInv
<1>4. CASE Ending \/ Apart
  <2>1. UNCHANGED <<options, receiver, delivered, all, current>>
    BY <1>4, EndingFacts DEF Apart, reportVars
  <2> QED
    BY <2>1 DEF DeliverInv, Receivers, TrackerTarget, Reported
<1> QED
  BY <1>1, <1>2, <1>3, <1>4, StepsOfReports

(***************************************************************************)
(* The reports at the end.                                                 *)
(***************************************************************************)
LEMMA NextEnds ==
    ASSUME MainTypeOK, StageInv, EndInv, [Next]_vars
    PROVE  EndInv'
<1>1. CASE Receive
  <2>1. pc = "report" /\ UNCHANGED <<pc, loaded, all, files, exit>>
    BY <1>1 DEF Receive
  <2> QED
    BY <2>1 DEF EndInv
<1>2. CASE Export \/ CreateIssue
  <2>1. UNCHANGED <<pc, loaded, all, files, exit>>
    BY <1>2, DeliverFacts
  <2> QED
    BY <2>1 DEF EndInv
<1>3. CASE Count
  <2>1. pc = "report" /\ UNCHANGED <<pc, loaded, files, exit>>
    BY <1>3 DEF Count, StageInv
  <2> QED
    BY <2>1 DEF EndInv
<1>4. CASE Ending
  <2>1. UNCHANGED <<loaded, all>> /\ pc \in {"report", "sarif", "markdown"}
    BY <1>4, EndingFacts DEF reportVars
  <2>2. loaded # {}
    BY <2>1 DEF StageInv
  <2>3. ASSUME NEW p \in ReportPaths, files'[p].whole
        PROVE  pc' \in {"markdown", "exited"} /\ files'[p].findings = all
    <3>1. CASE files'[p] = files[p]
      <4>1. pc = "markdown" /\ files[p].findings = all
        BY <2>1, <2>3, <3>1 DEF EndInv
      <4> QED
        BY <1>4, <3>1, <4>1, EndingFacts
    <3>2. CASE pc # "report" /\ files'[p].findings = all
      BY <1>4, <3>2, EndingFacts
    <3> QED
      BY <1>4, <2>3, <3>1, <3>2, EndingFacts
  <2>4. pc' = "exited" =>
           (exit' = 1 <=> \E i \in DOMAIN all : all[i].severity \in {"critical", "high"})
    BY <1>4, EndingFacts
  <2> QED
    BY <2>1, <2>2, <2>3, <2>4 DEF EndInv
<1>5. CASE Apart
  <2>1. UNCHANGED <<all, files>>
    BY <1>5 DEF Apart, reportVars
  <2>2. CASE UNCHANGED <<loaded, pc, exit>>
    BY <2>1, <2>2 DEF EndInv
  <2>3. CASE loaded = {} /\ (loaded' = {} \/ pc' = "report")
    BY <2>1, <2>3 DEF EndInv
  <2> QED
    BY <1>5, <2>2, <2>3 DEF Apart
<1> QED
  BY <1>1, <1>2, <1>3, <1>4, <1>5, StepsOfReports

(***************************************************************************)
(* The theorems.                                                           *)
(***************************************************************************)
\* Nothing has been raised, taken or reported.
LEMMA InitIInv == Init => IInv
<1> SUFFICES ASSUME Init
             PROVE  IInv
  OBVIOUS
<1>1. MainTypeOK /\ DetectInv
  BY InitTypes, InitDetects
<1>2. /\ raised = << >> /\ channel = << >> /\ all = << >> /\ current = << >>
      /\ printed = << >> /\ jsonl = << >> /\ receiver = 1
  BY DEF Init
<1>3. QueueInv
  BY <1>2 DEF QueueInv
<1>4. StageInv /\ SelectInv
  BY DEF Init, StageInv, SelectInv
<1>5. Reported = << >>
  BY <1>2 DEF Reported
<1>6. LogInv
  <2>1. Kept = {}
    BY <1>2 DEF Kept, Taken
  <2>2. Cardinality({}) = 0
    BY FS_EmptySet
  <2> QED
    BY <1>5, <2>1, <2>2 DEF LogInv
<1>7. LinesInv
  BY <1>2, <1>5, NothingWithinNothing DEF LinesInv, JsonlInv
<1>8. DeliverInv
  <2>1. \A i \in DOMAIN Receivers : delivered[Receivers[i]] = << >>
    BY DEF Init, ToSet
  <2> QED
    BY <1>2, <1>5, <2>1, NothingWithinNothing DEF DeliverInv
<1>9. EndInv
  <2>1. \A p \in ReportPaths : ~files[p].whole
    BY DEF Init, NoFile
  <2> QED
    BY <2>1 DEF Init, EndInv
<1> QED
  BY <1>1, <1>3, <1>4, <1>6, <1>7, <1>8, <1>9 DEF IInv

\* Every step keeps the invariant, by the lemmas above.
LEMMA NextIInv == IInv /\ [Next]_vars => IInv'
<1> SUFFICES ASSUME IInv, [Next]_vars
             PROVE  IInv'
  OBVIOUS
<1>0. /\ MainTypeOK /\ QueueInv /\ StageInv /\ SelectInv /\ DetectInv
      /\ LogInv /\ LinesInv /\ DeliverInv /\ EndInv
  BY DEF IInv
<1>1. MainTypeOK'
  BY <1>0, NextTypes
<1>2. QueueInv'
  BY <1>0, NextQueue
<1>3. StageInv'
  BY <1>0, NextStages
<1>4. SelectInv'
  BY <1>0, NextSelects
<1>5. DetectInv'
  BY <1>0, NextDetects
<1>6. LogInv'
  BY <1>0, NextLogs
<1>7. LinesInv'
  BY <1>0, NextLines
<1>8. DeliverInv'
  BY <1>0, NextDelivers
<1>9. EndInv'
  BY <1>0, NextEnds
<1> QED
  BY <1>1, <1>2, <1>3, <1>4, <1>5, <1>6, <1>7, <1>8, <1>9 DEF IInv

\* For any templates, command lines, receivers and channel the inductive invariant
\* holds: the channel, the stages, what is loaded, the detector, the log and the reports
\* of main.rs stay in step.
THEOREM MainInvariance == Spec => []IInv
BY InitIInv, NextIInv, PTL DEF Spec

\* The variables of a run keep their types, in every one of its steps.
THEOREM MainTypeCorrect == Spec => []MainTypeOK
<1>1. IInv => MainTypeOK
  BY DEF IInv
<1> QED
  BY <1>1, MainInvariance, PTL

\* What was loaded passed the signature policy and every gate, and a file that was not
\* loaded failed one of them.
LEMMA LoadedPassed ==
    ASSUME NEW f \in Files, LoadSingleTemplate(f) = "loaded"
    PROVE  /\ SignatureAllows(f) /\ Template[f].parses /\ PassesFilter(Template[f])
           /\ Template[f].flow # "script"
           /\ Template[f].selfContained => options.selfContained
BY DEF LoadSingleTemplate

\* And what is not loaded has failed one of the checks.
LEMMA OthersFailed ==
    ASSUME NEW f \in Files, LoadSingleTemplate(f) # "loaded"
    PROVE  \/ ~SignatureAllows(f)
           \/ ~Template[f].parses
           \/ Template[f].flow = "script"
           \/ ~Template[f].blocks /\ Template[f].flow = "none"
           \/ Template[f].selfContained /\ ~options.selfContained
           \/ ~PassesFilter(Template[f])
BY DEF LoadSingleTemplate

\* The checks of load_single_template, of the files that were loaded and of the others.
LEMMA IInvSelects == IInv => SelectionHolds
<1> SUFFICES ASSUME IInv, pc = "report"
             PROVE  SelectionHolds
  BY DEF SelectionHolds
<1>1. loaded = {f \in Files : LoadSingleTemplate(f) = "loaded"}
  BY DEF IInv, StageInv, SelectInv
<1>2. ASSUME NEW f \in loaded
      PROVE  /\ options.verify /\ key = "ours" =>
                   disk[f].digest.by = "us" /\ disk[f].digest.version = disk[f].version
             /\ Template[f].flow # "script"
             /\ Template[f].selfContained => options.selfContained
             /\ options.ids # {} => Template[f].id \in options.ids
  <2>1. f \in Files /\ LoadSingleTemplate(f) = "loaded"
    BY <1>1
  <2>2. /\ SignatureAllows(f) /\ PassesFilter(Template[f])
        /\ Template[f].flow # "script"
        /\ Template[f].selfContained => options.selfContained
    BY <2>1, LoadedPassed
  <2>3. options.ids # {} => Template[f].id \in options.ids
    BY <2>2 DEF PassesFilter
  <2>4. ASSUME options.verify, key = "ours"
        PROVE  disk[f].digest.by = "us" /\ disk[f].digest.version = disk[f].version
    <3>1. Verified(f)
      BY <2>2, <2>4 DEF SignatureAllows, SignaturePolicy
    <3> QED
      BY <3>1 DEF Verified
  <2> QED
    BY <2>2, <2>3, <2>4
<1>3. ASSUME NEW f \in Files \ loaded,
             disk[f].digest = [by |-> "us", version |-> disk[f].version, tail |-> FALSE],
             ~disk[f].tail
      PROVE  \/ ~Template[f].parses
             \/ Template[f].flow = "script"
             \/ (~Template[f].blocks /\ Template[f].flow = "none")
             \/ (Template[f].selfContained /\ ~options.selfContained)
             \/ ~PassesFilter(Template[f])
  <2>1. disk[f].tail = FALSE
    BY <1>3 DEF IInv, MainTypeOK, SignTypeOK, DiskType
  <2>2. Verified(f)
    BY <1>3, <2>1 DEF Verified
  <2>3. disk[f].digest # NoDigest
    <3>1. disk[f].digest.by = "us"
      BY <1>3
    <3> QED
      BY <3>1 DEF NoDigest
  <2>4. SignatureAllows(f)
    BY <2>2, <2>3 DEF SignatureAllows
  <2>5. LoadSingleTemplate(f) # "loaded"
    BY <1>1, <1>3
  <2> QED
    BY <1>3, <2>4, <2>5, OthersFailed
<1> QED
  BY <1>2, <1>3 DEF SelectionHolds

\* What is scanned was asked for, whatever the templates and the edits and signings
\* before: load_single_template, with the signature policy of signer.rs.
THEOREM SelectionHoldsThroughout == Spec => []SelectionHolds
BY MainInvariance, IInvSelects, PTL

\* Log, lines, receivers, files and exit code, put together.
LEMMA IInvAgrees == IInv => ReportsAgree
<1> SUFFICES ASSUME IInv
             PROVE  ReportsAgree
  OBVIOUS
<1>0. /\ MainTypeOK /\ StageInv /\ LogInv /\ LinesInv /\ DeliverInv /\ EndInv
  BY DEF IInv
<1>1. /\ Len(Reported) = Cardinality(Kept)
      /\ \A i \in Kept : Reported[Cardinality(Kept \cap (1..i))] = Taken[i]
  BY <1>0 DEF LogInv
<1>2. /\ Printed => printed = Reported
      /\ JsonlOpen => Subsequence(jsonl, Reported) /\ (~unwritten => jsonl = Reported)
  BY <1>0 DEF LinesInv, JsonlInv
<1>3. ASSUME NEW r \in DOMAIN delivered
      PROVE  Subsequence(delivered[r], Reported)
  <2>1. r \in ToSet(Receivers)
    BY <1>0 DEF MainTypeOK, ReportTypeOK
  <2>2. PICK i \in DOMAIN Receivers : r = Receivers[i]
    BY <2>1 DEF ToSet
  <2> QED
    BY <1>0, <2>2, DeliveredOfReported
<1>4. Reported \in Seq(FindingType) /\ (current = << >> => Reported = all)
  BY <1>0, LogIsTyped
<1>5. ASSUME NEW p \in ReportPaths, files[p].whole
      PROVE  files[p].findings = Reported
  <2>1. loaded # {} /\ pc # "report" /\ files[p].findings = all
    BY <1>0, <1>5 DEF EndInv
  <2>2. current = << >>
    BY <1>0, <2>1 DEF StageInv
  <2> QED
    BY <1>4, <2>1, <2>2
<1>6. ASSUME pc = "exited", loaded # {}
      PROVE  /\ channel = << >>
             /\ exit = 1 <=> \E f \in ToSet(Reported) : f.severity \in {"critical", "high"}
  <2>1. channel = << >> /\ current = << >>
    BY <1>0, <1>6 DEF StageInv
  <2>2. exit = 1 <=> \E i \in DOMAIN all : all[i].severity \in {"critical", "high"}
    BY <1>0, <1>6 DEF EndInv
  <2>3. (\E f \in ToSet(all) : f.severity \in {"critical", "high"})
           <=> \E i \in DOMAIN all : all[i].severity \in {"critical", "high"}
    BY DEF ToSet
  <2>4. Reported = all
    BY <1>4, <2>1
  <2> QED
    BY <2>1, <2>2, <2>3, <2>4
<1> QED
  BY <1>1, <1>2, <1>3, <1>5, <1>6 DEF ReportsAgree

\* The reports of a run tell the same story, whatever the findings, their order, the
\* threshold of the honeypot detector, the receivers and what they answer.
THEOREM ReportsAgreeThroughout == Spec => []ReportsAgree
BY MainInvariance, IInvAgrees, PTL
================================================================================
