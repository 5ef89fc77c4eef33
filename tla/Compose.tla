-------------------------------- MODULE Compose --------------------------------
(***************************************************************************)
(* Compose files: discovering and reading them while somebody edits them,  *)
(* parsing and validating them, correlating them with Docker's mounts,     *)
(* deriving the graph, planning an edit of one mount, and binding them to  *)
(* the running project (compose.rs, compose_api.rs, and                    *)
(* bounded_compose_runtime_binding of cache_refresh.rs).                   *)
(*                                                                         *)
(* A text is a sequence of tokens, with "/", ":" and the like tokens of    *)
(* their own, so that splitting, prefixes and substrings are those of the  *)
(* code.  A path is the sequence of its components, each of them a text.   *)
(* A document is what its YAML says: Lines gives back the text of the lines*)
(* an edit looks at.  Services are kept in the order they first appear.    *)
(***************************************************************************)
EXTENDS Naturals, FiniteSets, SequencesExt

CONSTANTS
  Files,        \* paths of the project directory
  BaseFiles,    \* the four well-known names, in order of preference
  Overrides,    \* the override files looked for beside each base file
  Contents,     \* Contents[f]: versions f may be written in
  Holds,        \* Holds[v]: what a version is
  Snapshots,    \* Docker observations a scan may be correlated with
  ScanRequests, \* file lists a scan may be asked for
  PlanRequests, \* edits that may be asked for
  BaseDir,      \* path of the project directory
  Home,         \* $HOME as a text
  Symlinks, Present,    \* bind sources that are links, or exist
  Letters, Dotted,      \* tokens that are one letter, or begin with a dot
  Secrets,      \* tokens that make a text sensitive
  MaxEdits      \* bound: writes to the files while the daemon reads them

ASSUME ComposeAssumption ==
  /\ MaxEdits \in Nat
  /\ BaseFiles \in Seq(Files) /\ Overrides \in [Files -> Seq(Files)]

\* A version is what is in the file: two regular files that read the same are in one version.
ASSUME VersionsAreContents ==
  \A f \in Files : \A v, w \in Contents[f] :
    (Holds[v].form = "file" /\ Holds[w].form = "file" /\ Holds[v].document = Holds[w].document)
      => v = w

NoText == <<"(none)">>

\* Texts and YAML lists are sequences, and a YAML mapping has no key twice.
ASSUME DocumentsAssumption ==
  \A f \in Files : \A v \in Contents[f] :
    Holds[v].form \in {"file", "link"} =>
      LET services == Holds[v].document.services
      IN  /\ services \in Seq(ToSet(services))
          /\ \A i \in DOMAIN services :
               LET items == services[i].volumes.items
               IN  /\ items \in Seq(ToSet(items))
                   /\ \A n \in DOMAIN items :
                        /\ items[n].form = "short" => items[n].text \in Seq(ToSet(items[n].text))
                        /\ items[n].form = "long" => items[n].source \in Seq(ToSet(items[n].source))
          /\ \A i, j \in DOMAIN services :
               services[i].name = services[j].name => i = j \/ services[i].name = NoText

\* A dot, a slash and a tilde, which begin a path of this host, are no letters; NoText is no path.
ASSUME TokensAssumption == Letters \cap (Dotted \cup {"/", "~"}) = {} /\ "(none)" \notin Dotted

\* The project directory is canonical and $HOME, if set, is absolute.
ASSUME PlacesAssumption ==
  /\ BaseDir \in Seq(ToSet(BaseDir)) /\ BaseDir # <<>> /\ BaseDir[1] = <<"/">>
  /\ Home \in Seq(ToSet(Home))
  /\ Home = <<>> \/ Home[1] = "/"

\* So are the files asked for, the containers of a snapshot and their mounts.
ASSUME RequestsAssumption ==
  /\ \A files \in ScanRequests : files \in Seq(ToSet(files))
  /\ \A s \in Snapshots :
       /\ s.containers \in Seq(ToSet(s.containers))
       /\ \A c \in ToSet(s.containers) : c.mounts \in Seq(ToSet(c.mounts))

VARIABLES
  fs,      \* the version each file is in
  reader,  \* the request or the binding that is being served
  since,   \* the files at every moment since it began
  answer   \* its result

vars == <<fs, reader, since, answer>>

Root   == <<"/">>
NoPath == <<NoText>>

Redacted == <<"[redacted]">>

-----------------------------------------------------------------------------
(* Texts and paths *)

HasToken(t, k) == \E i \in DOMAIN t : t[i] = k

HasPart(t, part) == \E i \in 1..Len(t) + 1 : IsPrefix(part, SubSeq(t, i, Len(t)))

\* The last piece of a text takes the next token, or ends before it; where runs of separators
\* count as one, an empty piece does not end.
Read(pieces, token, ends, runs) ==
  IF ~ends THEN [pieces EXCEPT ![Len(pieces)] = Append(@, token)]
  ELSE IF runs /\ Last(pieces) = <<>> THEN pieces ELSE Append(pieces, <<>>)

\* The pieces of t between the positions in cuts.
Pieces(t, cuts, runs) ==
  LET read[n \in 0..Len(t)] ==
        IF n = 0 THEN <<<<>>>> ELSE Read(read[n - 1], t[n], n \in cuts, runs)
  IN  read[Len(t)]

\* split_short_volume: a colon after a drive letter does not separate.
SplitShortVolume(raw) ==
  Pieces(raw, {i \in DOMAIN raw : raw[i] = ":" /\ ~(i = 2 /\ raw[1] \in Letters)}, FALSE)

IsWindowsAbsolute(t) ==
  Len(t) >= 3 /\ t[1] \in Letters /\ t[2] = ":" /\ t[3] \in {"/", "\\"}

LooksLikeContainerPath(t) == (t # <<>> /\ t[1] = "/") \/ IsWindowsAbsolute(t)

LooksLikeHostPath(t) ==
  (t # <<>> /\ t[1] \in Dotted \cup {"/", "~", "\\"}) \/ IsWindowsAbsolute(t)

\* The names between the slashes of a text.
Filled(pieces) == IF Last(pieces) = <<>> THEN Front(pieces) ELSE pieces

Names(t) == Filled(Pieces(t, {i \in DOMAIN t : t[i] = "/"}, TRUE))

Components(t) == (IF IsPrefix(Root, t) THEN <<Root>> ELSE <<>>) \o Names(t)

HasParentTraversal(t) == HasToken(Components(t), <<"..">>)

\* Going up from the root, or from nothing, goes nowhere.
Enter(path, part) ==
  IF part = <<".">> THEN path
  ELSE IF part # <<"..">> THEN Append(path, part)
  ELSE IF path \in {<<>>, <<Root>>} THEN path ELSE Front(path)

NormalizeLexical(path) ==
  LET at[n \in 0..Len(path)] == IF n = 0 THEN <<>> ELSE Enter(at[n - 1], path[n])
  IN  at[Len(path)]

\* The default of NAME:-default or NAME-default, with the text around it.
WithDefault(before, expr, both, dash, after) ==
  before \o SubSeq(expr, IF both # {} THEN Min(both) + 2 ELSE dash + 1, Len(expr)) \o after

Interpolated(t, start, end, expr) ==
  IF 0 \in {start, end} \/ ~HasToken(expr, "-") THEN t
  ELSE WithDefault(SubSeq(t, 1, start - 1), expr,
                   {i \in 1..Len(expr) - 1 : expr[i] = ":" /\ expr[i + 1] = "-"},
                   SelectInSeq(expr, LAMBDA k : k = "-"), SubSeq(t, end + 1, Len(t)))

Braced(t, start, end) == Interpolated(t, start, end, SubSeq(t, start + 1, end - 1))

FromBrace(t, start) == Braced(t, start, SelectInSubSeq(t, start + 1, Len(t), LAMBDA k : k = "}"))

\* Only the first ${...} is replaced.
InterpolateDefault(t) == FromBrace(t, SelectInSeq(t, LAMBDA k : k = "${"))

InHome(t) == Home # <<>> /\ (t = <<"~">> \/ IsPrefix(<<"~", "/">>, t))

ExpandTilde(t) == IF InHome(t) THEN Home \o Tail(t) ELSE t

\* A relative source is one of the project directory.
Resolve(t) == NormalizeLexical((IF IsPrefix(Root, t) \/ IsWindowsAbsolute(t) THEN <<>> ELSE BaseDir)
                                 \o Components(t))

\* Mutant: the default of a variable is not taken.
ResolveSourceUninterpolated(kind, source) ==
  IF kind # "bind" \/ source = NoText THEN NoPath ELSE Resolve(ExpandTilde(source))

ResolveSource(kind, source) ==
  IF kind # "bind" \/ source = NoText THEN NoPath
  ELSE Resolve(ExpandTilde(InterpolateDefault(source)))

-----------------------------------------------------------------------------
(* Mounts *)

Under(path, names) == IsPrefix(<<Root>> \o [i \in DOMAIN names |-> <<names[i]>>], path)

IsDaemonState(path) ==
  \/ path \in {<<Root, <<"var">>, <<"run">>, <<"docker.sock">>>>,
               <<Root, <<"run">>, <<"docker.sock">>>>}
  \/ Under(path, <<"var", "lib", "docker">>)

HoldsCredentials(path) ==
  \E i \in DOMAIN path : path[i] \in {<<".ssh">>, <<".aws">>, <<".gnupg">>, <<".kube">>,
                                      <<".docker">>, <<".netrc">>, <<"gcloud">>}

IsSystemPath(path) ==
  \/ \E d \in {"etc", "proc", "sys", "dev", "boot", "usr", "bin", "sbin", "lib", "lib64",
               "root"} : Under(path, <<d>>)
  \/ Under(path, <<"var", "log">>)

\* unsafe_bind_source_diagnostic
UnsafeSeverity(path) == IF IsDaemonState(path) \/ HoldsCredentials(path) THEN "blocked"
                        ELSE IF IsSystemPath(path) THEN "warning" ELSE "none"

\* classify_short_source
ShortKind(source) == CASE source = NoText -> "anonymous"
                       [] LooksLikeHostPath(source) -> "bind"
                       [] OTHER -> "named"

LongKind(type, source) == CASE type = "bind" -> "bind"
                            [] type = "volume" -> IF source = NoText THEN "anonymous" ELSE "named"
                            [] OTHER -> "unsupported"

Diagnostic(id, severity, at) == [id |-> id, severity |-> severity, at |-> at]

WithDiagnostic(scan, id, severity, at) ==
  [scan EXCEPT !.diagnostics = @ \cup {Diagnostic(id, severity, at)}]

WithMount(scan, at, kind, source, target, readOnly) ==
  [scan EXCEPT !.mounts = Append(@,
     [id |-> at, service |-> at[2], kind |-> kind, source |-> source,
      resolved |-> ResolveSource(kind, source), target |-> target, readOnly |-> readOnly])]

\* [target], [source, target] or [source, target, mode]
ParseShortMount(scan, at, parts) ==
  CASE Len(parts) = 1 -> WithMount(scan, at, "anonymous", NoText, parts[1], FALSE)
    [] Len(parts) \in {2, 3} ->
         WithMount(scan, at, ShortKind(parts[1]), parts[1], parts[2],
                   Len(parts) = 3 /\ \E k \in {"ro", "readonly"} : HasToken(parts[3], k))
    [] OTHER -> WithDiagnostic(scan, "compose_invalid_short_mount", "error", at)

ParseMount(scan, at, item) ==
  CASE item.form = "short" -> ParseShortMount(scan, at, SplitShortVolume(item.text))
    [] item.form = "long" ->
         IF item.target = NoText
         THEN WithDiagnostic(scan, "compose_mount_missing_target", "error", at)
         ELSE WithMount(scan, at, LongKind(item.type, item.source), item.source, item.target,
                        item.readOnly)
    [] OTHER -> WithDiagnostic(scan, "compose_unsupported_mount", "error", at)

-----------------------------------------------------------------------------
(* Scanning *)

EmptyScan == [services |-> <<>>, mounts |-> <<>>, correlations |-> {}, diagnostics |-> {}]

\* Entries whose key or value is not a scalar are dropped, a later key wins.
ParseEnvironment(entries) ==
  LET Add(env, e) == IF NoText \in {e.key, e.value} THEN env ELSE (e.key :> e.value) @@ env
  IN  FoldLeft(Add, <<>>, entries)

ParseService(s) ==
  [name |-> s.name, image |-> s.image, environment |-> ParseEnvironment(s.environment),
   dependsOn |-> SelectSeq(s.dependsOn, LAMBDA d : d # NoText)]

\* A later file overrides the image and the variables of a service and adds dependencies.
Coalesce(services) ==
  LET Merge(a, b) ==
        [a EXCEPT !.image = IF b.image = NoText THEN @ ELSE b.image,
                  !.environment = b.environment @@ @,
                  !.dependsOn = @ \o SelectSeq(b.dependsOn, LAMBDA d : ~HasToken(a.dependsOn, d))]
      Add(done, s) ==
        LET i == SelectInSeq(done, LAMBDA d : d.name = s.name)
        IN  IF i = 0 THEN Append(done, s) ELSE [done EXCEPT ![i] = Merge(@, s)]
      merged[n \in 0..Len(services)] ==
        IF n = 0 THEN <<>> ELSE Add(merged[n - 1], services[n])
  IN  merged[Len(services)]

ParseVolumes(scan, f, name, volumes) ==
  LET done[n \in 0..Len(volumes.items)] ==
        IF n = 0 THEN scan ELSE ParseMount(done[n - 1], <<f, name, n>>, volumes.items[n])
  IN  IF volumes.form = "invalid"
      THEN WithDiagnostic(scan, "compose_invalid_volumes", "error", <<f, name>>)
      ELSE done[Len(volumes.items)]

\* One service of a file; a name that is not a string drops the service.
ParseServiceEntry(scan, f, s) ==
  IF s.name = NoText THEN WithDiagnostic(scan, "compose_non_string_service_name", "error", <<f>>)
  ELSE ParseVolumes([scan EXCEPT !.services = Append(@, ParseService(s))], f, s.name, s.volumes)

ParseFile(scan, f, document) ==
  LET done[n \in 0..Len(document.services)] ==
        IF n = 0 THEN scan ELSE ParseServiceEntry(done[n - 1], f, document.services[n])
  IN  CASE ~document.parses -> WithDiagnostic(scan, "compose_yaml_parse_error", "blocked", <<f>>)
        [] document.parses /\ ~document.hasServices ->
             WithDiagnostic(scan, "compose_missing_services", "error", <<f>>)
        [] OTHER -> done[Len(document.services)]

\* What validate_compose_scan says of one mount.  HasParentTraversal is asked of
\* a path that is already normalised, so it never applies.
MountDiagnostics(m) ==
  LET Checks ==
        {<<"compose_invalid_container_target", "error", ~LooksLikeContainerPath(m.target)>>,
         <<"compose_unsupported_mount_type", "warning", m.kind = "unsupported">>,
         <<"compose_unresolved_variable", "warning", HasToken(m.source, "${") \/ HasToken(m.source, "$")>>,
         <<"compose_unsafe_bind_source", UnsafeSeverity(m.resolved),
           m.kind = "bind" /\ m.resolved # NoPath /\ UnsafeSeverity(m.resolved) # "none">>,
         <<"compose_parent_traversal", "warning", HasToken(m.resolved, <<"..">>)>>,
         <<"compose_bind_source_symlink", "warning", m.resolved \in Symlinks>>,
         <<"compose_missing_bind_source", "warning",
           m.kind = "bind" /\ m.resolved \notin Symlinks \cup Present \cup {NoPath}>>}
  IN  {Diagnostic(c[1], c[2], m.id) : c \in {c \in Checks : c[3]}}

DuplicateTargets(mounts) ==
  {i \in DOMAIN mounts : \E j \in DOMAIN mounts \ {i} :
     mounts[i].service = mounts[j].service /\ mounts[i].target = mounts[j].target}

Validate(scan) ==
  [scan EXCEPT !.services = Coalesce(@), !.diagnostics =
     @ \cup UNION {MountDiagnostics(scan.mounts[i]) : i \in DOMAIN scan.mounts}
       \cup {Diagnostic("compose_duplicate_target", "error", scan.mounts[i].id) :
               i \in DuplicateTargets(scan.mounts)}]

\* What scan_compose_files returns once it has parsed the files it was given.
Scanned(files, scan) ==
  IF files = <<>> THEN WithDiagnostic(scan, "compose_no_files", "warning", <<>>) ELSE Validate(scan)

\* has_blocking_diagnostics: `validate` exits with 1.
Blocking(scan) == \E d \in scan.diagnostics : d.severity \in {"error", "blocked"}

ExitCode(scan) == IF Blocking(scan) THEN 1 ELSE 0

\* The one project name that the documents agree on.
ProjectNames(versions) == {Holds[v].document.project : v \in ToSet(versions)} \ {NoText}

-----------------------------------------------------------------------------
(* Correlation with Docker *)

ContainerMatches(c, service) ==
  \/ service \in {c.role, c.name}
  \/ \E sep \in {"_", "-"} : IsSuffix(<<sep>> \o service \o <<sep, "1">>, c.name)

\* mounts_match, with the resolved source of a bind.
MountsMatch(m, r) ==
  /\ m.kind = r.kind /\ m.target = r.target
  /\ CASE m.kind = "bind"      -> m.resolved = r.source
       [] m.kind = "named"     -> m.source = r.source
       [] m.kind = "anonymous" -> TRUE
       [] OTHER                -> FALSE

\* The first matching mount of the first container of the service that has one.
RuntimeMatches(m, cs) ==
  LET Fits(c) == {i \in DOMAIN c.mounts : MountsMatch(m, c.mounts[i])}
      k == SelectInSeq(cs, LAMBDA c : ContainerMatches(c, m.service) /\ Fits(c) # {})
  IN  IF k = 0 THEN {}
      ELSE {cs[k].mounts[CHOOSE i \in Fits(cs[k]) : \A j \in Fits(cs[k]) : i <= j].id}

Correlation(status, service, mount, runtime) ==
  [status |-> status, service |-> service, mount |-> mount, runtime |-> runtime]

\* Mutant: the matched mounts are not remembered.
MatchedForgotten(scan, cs) == {}

\* matched_runtime_mounts
Matched(scan, cs) == UNION {RuntimeMatches(scan.mounts[i], cs) : i \in DOMAIN scan.mounts}

Correlate(scan, cs) ==
  LET Declared(m) ==
        IF RuntimeMatches(m, cs) = {} THEN Correlation("missing", m.service, m.id, NoText)
        ELSE Correlation("matched", m.service, m.id, CHOOSE r \in RuntimeMatches(m, cs) : TRUE)
      Extra(s, c) ==
        {Correlation("extra", s.name, NoText, c.mounts[i].id) :
           i \in {j \in DOMAIN c.mounts : c.mounts[j].id \notin Matched(scan, cs)}}
  IN  {Declared(scan.mounts[i]) : i \in DOMAIN scan.mounts}
        \cup UNION {UNION {Extra(s, c) : c \in {c \in ToSet(cs) : ContainerMatches(c, s.name)}} :
                      s \in ToSet(scan.services)}

\* apply_runtime_correlations: never from a mock cache that may not be shown.
WithCorrelations(scan, snapshot) ==
  [scan EXCEPT !.correlations = IF snapshot.allowMock \/ snapshot.mode # "mock"
                                THEN Correlate(scan, snapshot.containers) ELSE {}]

-----------------------------------------------------------------------------
(* Redaction and the graph *)

IsSensitive(t) == \E i \in DOMAIN t : t[i] \in Secrets

RedactText(t) == IF IsSensitive(t) THEN Redacted ELSE t

RedactPath(p) == IF \E i \in DOMAIN p : IsSensitive(p[i]) THEN <<Redacted>> ELSE p

RedactId(id) == IF Len(id) > 1 /\ IsSensitive(id[2]) THEN Redacted ELSE id

\* Variables that redaction makes equal are kept once, with a warning.
RedactService(s) ==
  LET keys == {RedactText(k) : k \in DOMAIN s.environment}
  IN  [s EXCEPT !.name = RedactText(@), !.image = RedactText(@),
                !.dependsOn = [i \in DOMAIN @ |-> RedactText(@[i])],
                !.environment = [k \in keys |->
                  RedactText(@[CHOOSE raw \in DOMAIN @ : RedactText(raw) = k])]]

KeyCollisions(services) ==
  {s \in ToSet(services) : \E k, l \in DOMAIN s.environment : k # l /\ RedactText(k) = RedactText(l)}

RedactMount(m) ==
  [m EXCEPT !.id = RedactId(@), !.service = RedactText(@), !.source = RedactText(@),
            !.resolved = RedactPath(@), !.target = RedactText(@)]

RedactScan(scan) ==
  [services |-> [i \in DOMAIN scan.services |-> RedactService(scan.services[i])],
   mounts |-> [i \in DOMAIN scan.mounts |-> RedactMount(scan.mounts[i])],
   correlations |-> {[c EXCEPT !.service = RedactText(@), !.mount = RedactId(@)] :
                       c \in scan.correlations},
   diagnostics |->
     {[d EXCEPT !.at = RedactId(@)] : d \in scan.diagnostics
        \cup {Diagnostic("compose_environment_key_collision", "warning", <<"environment", s.name>>) :
                s \in KeyCollisions(scan.services)}}]

ServiceNode(name) == [id |-> <<"service", name>>, label |-> name]

TargetNode(m) == [id |-> <<"container_path", m.service, m.target>>,
                  label |-> m.service \o <<":">> \o m.target]

SourceNodes(m) ==
  CASE m.kind = "bind" /\ m.resolved # NoPath ->
         {[id |-> <<"host_path", m.resolved>>, label |-> FlattenSeq(m.resolved)]}
    [] m.kind = "named" /\ m.source # NoText ->
         {[id |-> <<"named_volume", m.source>>, label |-> m.source]}
    [] m.kind = "anonymous" ->
         {[id |-> <<"anonymous_volume", m.id>>, label |-> <<"anonymous volume">>]}
    [] OTHER -> {}

DeriveGraph(scan) ==
  LET mounts == ToSet(scan.mounts)
      GraphEdge(a, b, rel) == [source |-> a.id, target |-> b.id, rel |-> rel]
  IN  [nodes |-> {ServiceNode(s.name) : s \in ToSet(scan.services)}
                   \cup UNION {{ServiceNode(m.service), TargetNode(m)} \cup SourceNodes(m) :
                                 m \in mounts},
       edges |-> UNION {{GraphEdge(ServiceNode(m.service), TargetNode(m), "declares_mount")}
                          \cup {GraphEdge(n, TargetNode(m), "mounted_at") : n \in SourceNodes(m)} :
                        m \in mounts}]

\* get_compose_graph redacts before it derives: ids and labels carry sources.
PublishedGraph(scan) == DeriveGraph(RedactScan(scan))

-----------------------------------------------------------------------------
(* Planning an edit of one mount *)

\* The lines an edit may touch: variables, and the entries under `volumes`.
Lines(document) ==
  LET Line(at, text) == [at |-> at, text |-> text]
      Variables(s) ==
        {Line(<<s, k, "value">>, document.services[s].environment[k].value) :
           k \in DOMAIN document.services[s].environment}
      Entries(s) ==
        UNION {LET item == document.services[s].volumes.items[k]
               IN  CASE item.form = "short" -> {Line(<<s, k, "text">>, item.text)}
                     [] item.form = "long" -> {Line(<<s, k, "source">>, item.source),
                                               Line(<<s, k, "target">>, item.target)}
                     [] OTHER -> {} : k \in DOMAIN document.services[s].volumes.items}
  IN  UNION {Variables(s) \cup Entries(s) : s \in DOMAIN document.services}

WithLine(document, at, text) ==
  IF at[3] = "value"
  THEN [document EXCEPT !.services[at[1]].environment[at[2]].value = text]
  ELSE [document EXCEPT !.services[at[1]].volumes.items[at[2]][at[3]] = text]

\* The lines that show the old text and the mount's target.
Candidates(document, m, old) ==
  {l \in Lines(document) : HasPart(l.text, old) /\ HasPart(l.text, m.target)}

\* Mutant: the first candidate is taken when there are several; variables precede volumes.
CandidateUnchecked(document, m, old) ==
  LET ls == Candidates(document, m, old)
  IN  IF ls = {} THEN {}
      ELSE {CHOOSE l \in ls : l.at[3] = "value" \/ \A k \in ls : k.at[3] # "value"}

\* The one line to change, if there is exactly one.
Candidate(document, m, old) ==
  LET ls == Candidates(document, m, old)
  IN  IF \E l \in ls : ls = {l} THEN ls ELSE {}

\* replace_mount_line_token: the first occurrence on the one line that fits.
ReplaceMountLineToken(document, m, old, new) ==
  LET lines == Candidate(document, m, old)
  IN  IF lines = {} THEN document
      ELSE LET l == CHOOSE x \in lines : TRUE
           IN  WithLine(document, l.at, ReplaceFirstSubSeq(new, old, l.text))

\* The blocks that are found before anything is replaced.
EarlyBlocks(m, source, target) ==
  {id \in {"edit_source_requires_bind", "edit_invalid_target"} :
     \/ id = "edit_source_requires_bind" /\ source # NoText /\ m.kind # "bind"
     \/ id = "edit_invalid_target" /\ target # NoText /\ ~LooksLikeContainerPath(target)}

SourceBlocks(document, m, source) ==
  {id \in {"edit_source_parent_traversal", "edit_missing_original_source",
           "edit_original_source_not_found"} :
     /\ source # NoText
     /\ \/ id = "edit_source_parent_traversal" /\ HasParentTraversal(source)
        \/ id = "edit_missing_original_source" /\ m.source = NoText
        \/ /\ id = "edit_original_source_not_found" /\ m.source # NoText
           /\ Candidate(document, m, m.source) = {}}

TargetBlocks(document, m, target) ==
  {id \in {"edit_original_target_not_found"} :
     target # NoText /\ Candidate(document, m, m.target) = {}}

\* plan_compose_mount_edit: the planned document, or the same one and no diff.
PlanEdit(document, m, source, target) ==
  LET early == EarlyBlocks(m, source, target)
      first == IF source = NoText \/ m.source = NoText THEN document
               ELSE ReplaceMountLineToken(document, m, m.source, source)
      late == SourceBlocks(document, m, source) \cup TargetBlocks(first, m, target)
      planned == IF target = NoText THEN first
                 ELSE ReplaceMountLineToken(first, m, m.target, target)
      blocks == IF early # {} THEN early ELSE late
  IN  [mount |-> m, source |-> source, target |-> target,
       planned |-> IF blocks = {} THEN planned ELSE document,
       diagnostics |-> blocks \cup (IF source = NoText /\ target = NoText THEN {"edit_noop"} ELSE {})]

-----------------------------------------------------------------------------
(* Reading the files *)

Idle == [op |-> "idle", files |-> <<>>, got |-> <<>>, scan |-> EmptyScan, checked |-> 0,
         request |-> <<>>]

NoAnswer == [op |-> "none", status |-> "none"]

Form(f) == Holds[fs[f]].form

Document(f) == Holds[fs[f]].document

IsFile(f) == Form(f) # "absent"

\* The files of a list that are there, in its order.
Existing(files) ==
  LET kept[n \in 0..Len(files)] ==
        IF n = 0 THEN <<>>
        ELSE IF IsFile(files[n]) THEN Append(kept[n - 1], files[n]) ELSE kept[n - 1]
  IN  kept[Len(files)]

\* discover_compose_files: every base file that is there, each with its overrides.
\* The overrides of two base files of one family are listed twice.
Discover ==
  LET bases == Existing(BaseFiles)
  IN  FlattenSeq([k \in DOMAIN bases |-> Existing(<<bases[k]>> \o Overrides[bases[k]])])

\* resolve_scannable_file: a path inside the project, no link, and a file.
Scannable(f) == f \in Files /\ Form(f) \notin {"absent", "link"}

\* The document that opening f gives: links are followed unless the reader says not to.
Readable(f, follow) == Form(f) = "file" \/ (follow /\ Form(f) = "link")

Answer(status, value) ==
  /\ answer' = [op |-> reader.op, status |-> status, value |-> value,
                files |-> reader.files, got |-> reader.got, since |-> since]
  /\ reader' = Idle
  /\ since' = {}

\* A write while a request is served: never content that the file had since it began.
Edit(f, c) ==
  /\ reader # Idle
  /\ Cardinality(since) <= MaxEdits
  /\ \A moment \in since : moment[f] # c
  /\ fs' = [fs EXCEPT ![f] = c]
  /\ since' = since \cup {fs'}
  /\ UNCHANGED <<reader, answer>>

Begin(op, files, request) ==
  /\ reader = Idle
  /\ reader' = [Idle EXCEPT !.op = op, !.files = files, !.request = request]
  /\ since' = {fs}
  /\ answer' = NoAnswer
  /\ UNCHANGED fs

\* bounded_compose_runtime_binding: no files, or a link among them, and there is no binding.
BeginBinding ==
  /\ Discover # <<>>
  /\ \A f \in ToSet(Discover) : Form(f) # "link"
  /\ Begin("binding", Discover, <<>>)

\* The routes and the command line: the files asked for, or the ones that are found.
BeginScan(op, files) ==
  LET selected == IF files = <<>> THEN Discover ELSE files
  IN  /\ \A f \in ToSet(selected) : Scannable(f)
      /\ Begin(op, selected, <<>>)

BeginPlan(r) == Scannable(r.file) /\ Begin("plan", <<r.file>>, r)

\* A request for what is not there, or outside the project, is answered at once.
RefuseRequest ==
  /\ reader = Idle
  /\ \/ \E files \in ScanRequests : \E f \in ToSet(files) : ~Scannable(f)
     \/ \E r \in PlanRequests : ~Scannable(r.file)
     \/ \E f \in ToSet(Discover) : Form(f) = "link"
  /\ answer' = [NoAnswer EXCEPT !.status = "unavailable"]
  /\ UNCHANGED <<fs, reader, since>>

Unread == reader # Idle /\ Len(reader.got) < Len(reader.files)

NextFile == reader.files[Len(reader.got) + 1]

\* A binding refuses a document it cannot parse, a scan reports it.
Usable(f) == /\ Readable(f, reader.op # "binding")
             /\ reader.op = "binding" => Document(f).parses

ReadFile ==
  /\ Unread /\ Usable(NextFile)
  /\ reader' = [reader EXCEPT !.got = Append(@, fs[NextFile]),
                              !.scan = ParseFile(@, NextFile, Document(NextFile))]
  /\ UNCHANGED <<fs, since, answer>>

ReadFails ==
  /\ Unread /\ ~Usable(NextFile)
  /\ Answer("unavailable", <<>>)
  /\ UNCHANGED fs

AllRead(op) == reader.op = op /\ ~Unread

\* Mutant: the captured documents are not compared with the files.
StillAsReadUnchecked(f, version) == TRUE

StillAsRead(f, version) == Readable(f, FALSE) /\ Document(f) = Holds[version].document

\* The captured documents are compared with the files, one by one.
Recheck ==
  /\ AllRead("binding") /\ reader.checked < Len(reader.files)
  /\ LET k == reader.checked + 1
     IN  IF StillAsRead(reader.files[k], reader.got[k])
         THEN reader' = [reader EXCEPT !.checked = k] /\ UNCHANGED <<answer, since>>
         ELSE Answer("none", <<>>)
  /\ UNCHANGED fs

\* scan_compose_binding_snapshot, from the captured documents only.
FinishBinding ==
  /\ AllRead("binding") /\ reader.checked = Len(reader.files)
  /\ LET names == ProjectNames(reader.got)
     IN  IF \E n \in names : names = {n}
         THEN Answer("ok", [scan |-> Scanned(reader.files, reader.scan), project |-> names,
                            configFiles |-> ToSet(reader.files)])
         ELSE Answer("none", <<>>)
  /\ UNCHANGED fs

\* get_compose_scan reads the daemon's cache after the files.
FinishScan(snapshot) ==
  /\ AllRead("scan")
  /\ LET scan == WithCorrelations(Scanned(reader.files, reader.scan), snapshot)
     IN  Answer("ok", [raw |-> scan, published |-> RedactScan(scan),
                       containers |-> snapshot.containers])
  /\ UNCHANGED fs

FinishGraph ==
  /\ AllRead("graph")
  /\ Answer("ok", PublishedGraph(Scanned(reader.files, reader.scan)))
  /\ UNCHANGED fs

\* run_cli validate
FinishValidate ==
  /\ AllRead("validate")
  /\ LET scan == Scanned(reader.files, reader.scan)
     IN  Answer("ok", [exit |-> ExitCode(scan), diagnostics |-> scan.diagnostics])
  /\ UNCHANGED fs

\* get_compose_edit_plan reads the file again and does not compare.
FinishPlan ==
  /\ AllRead("plan")
  /\ LET r == reader.request
         mounts == Scanned(reader.files, reader.scan).mounts
         k == SelectInSeq(mounts, LAMBDA m : m.service = r.service /\ m.id[3] = r.mount)
     IN  IF k = 0 THEN Answer("not_found", <<>>)
         ELSE IF ~Readable(r.file, TRUE) THEN Answer("unavailable", <<>>)
         ELSE Answer("ok", [plan |-> PlanEdit(Document(r.file), mounts[k], r.source, r.target),
                            read |-> fs[r.file]])
  /\ UNCHANGED fs

-----------------------------------------------------------------------------
Init ==
  /\ fs \in {c \in [Files -> UNION {Contents[f] : f \in Files}] : \A f \in Files : c[f] \in Contents[f]}
  /\ reader = Idle /\ since = {} /\ answer = NoAnswer

Next ==
  \/ \E f \in Files : \E c \in Contents[f] : Edit(f, c)
  \/ BeginBinding
  \/ \E op \in {"scan", "graph", "validate"}, files \in ScanRequests : BeginScan(op, files)
  \/ \E r \in PlanRequests : BeginPlan(r)
  \/ RefuseRequest \/ ReadFile \/ ReadFails \/ Recheck
  \/ FinishBinding \/ (\E s \in Snapshots : FinishScan(s))
  \/ FinishGraph \/ FinishValidate \/ FinishPlan

Spec == Init /\ [][Next]_vars

-----------------------------------------------------------------------------
(* Properties *)

TypeOK ==
  /\ \A f \in Files : fs[f] \in Contents[f]
  /\ Cardinality(since) <= MaxEdits + 1 /\ (reader # Idle => fs \in since)
  /\ reader.op \in {"idle", "binding", "scan", "graph", "validate", "plan"}
  /\ Len(reader.got) <= Len(reader.files) /\ reader.checked <= Len(reader.got)
  /\ answer.status \in {"none", "ok", "unavailable", "not_found"}
  /\ answer.op = "validate" /\ answer.status = "ok" => answer.value.exit \in {0, 1}

Answered(op) == answer.op = op /\ answer.status = "ok"

\* The project a binding is derived from existed: at some moment between its
\* first and its last read every file held what the binding took from it,
\* whatever was written in between and in whatever order.
BindingIsOneMoment ==
  Answered("binding") =>
    \E moment \in answer.since :
      \A k \in DOMAIN answer.files :
        /\ moment[answer.files[k]] = answer.got[k]
        /\ Holds[answer.got[k]].form = "file"

\* The correlations sort every mount: a running mount of a service's containers
\* is matched by a declaration or extra, and never both; a declared one is
\* matched or missing, unless its file is listed twice (discover_compose_files)
\* and was read in two versions, when two declarations have one id.
CorrelationsPartition ==
  Answered("scan") =>
    LET scan == answer.value.raw
        cs == answer.value.containers
        alike == \A j, k \in DOMAIN answer.files :
                   answer.files[j] = answer.files[k] => answer.got[j] = answer.got[k]
        serving == {c \in ToSet(cs) : \E s \in ToSet(scan.services) : ContainerMatches(c, s.name)}
        Runtime(status) == {c.runtime : c \in {x \in scan.correlations : x.status = status}}
        Declared(status) == {c.mount : c \in {x \in scan.correlations : x.status = status}}
    IN  /\ Runtime("matched") \cap Runtime("extra") = {}
        /\ alike => Declared("matched") \cap Declared("missing") = {}
        /\ scan.correlations # {} =>
             UNION {{c.mounts[k].id : k \in DOMAIN c.mounts} : c \in serving}
               = Runtime("matched") \cup Runtime("extra")

\* Where a bind source of this host leads, from the root and one step at a time, by way of the
\* home or the project directory: the reference for resolve_source.
Leads(source) ==
  LET t == InterpolateDefault(source)
      steps == IF IsPrefix(Root, t) THEN Names(t)
               ELSE IF InHome(t) THEN Names(Home) \o Names(Tail(t))
               ELSE Tail(BaseDir) \o Names(t)
      Go(path, step) == CASE step = <<".">>  -> path
                          [] step = <<"..">> -> IF Len(path) = 1 THEN path ELSE Front(path)
                          [] OTHER           -> Append(path, step)
      at[k \in 0..Len(steps)] == IF k = 0 THEN <<Root>> ELSE Go(at[k - 1], steps[k])
  IN  at[Len(steps)]

\* The source that Compose binds for an entry under `volumes`: that of a long bind, and in the
\* short syntax the text before the first colon when it begins a path.  A source that begins
\* with a variable is not among them, nor the whole of one whose default is written with a colon.
BindSources(item) ==
  CASE item.form = "long"  -> {source \in {item.source} : item.type = "bind" /\ source # NoText}
    [] item.form = "short" ->
         {SubSeq(item.text, 1, k - 1) :
            k \in {k \in 2..Len(item.text) :
                     /\ item.text[1] \in Dotted \cup {"/", "~"} /\ item.text[k] = ":"
                     /\ \A i \in 1..k - 1 : item.text[i] # ":"}}
    [] OTHER -> {}

\* The services of a document that Compose runs.
Runs(document) ==
  {s \in ToSet(document.services) : /\ document.parses /\ document.hasServices
                                   /\ s.name # NoText /\ s.volumes.form # "invalid"}

\* Docker's state or credentials, of this host: a Windows path is not.
Leaks(source) ==
  /\ ~IsWindowsAbsolute(InterpolateDefault(source))
  /\ IsDaemonState(Leads(source)) \/ HoldsCredentials(Leads(source))

\* The diagnostics that refuse an entry.
Refusals(at) ==
  {Diagnostic("compose_unsafe_bind_source", "blocked", at),
   Diagnostic("compose_mount_missing_target", "error", at),
   Diagnostic("compose_invalid_short_mount", "error", at)}

\* No file that was read binds Docker's state or credentials and validates: whatever the scan
\* made of the entry, which is refused as unsafe or as malformed, `validate` exits with 1.
\* A short source that begins with a variable, or whose default has a colon, is outside of
\* BindSources because the code lets it pass: classify_short_source sees it before it is
\* interpolated, and split_short_volume cuts it at the colon.
UnsafeBindsBlocked ==
  Answered("validate") =>
    \A k \in DOMAIN answer.got : \A s \in Runs(Holds[answer.got[k]].document) :
      \A n \in DOMAIN s.volumes.items :
        (\E source \in BindSources(s.volumes.items[n]) : Leaks(source))
          => /\ answer.value.exit = 1
             /\ Refusals(<<answer.files[k], s.name, n>>) \cap answer.value.diagnostics # {}

\* The mounts of a document as (service, position, source, target).
Declarations(document) ==
  LET mounts == ParseFile(EmptyScan, "file", document).mounts
  IN  {<<mounts[i].service, mounts[i].id[3], mounts[i].source, mounts[i].target>> :
         i \in DOMAIN mounts}

\* A planned edit does what was asked and nothing else: the planned file
\* declares the mount with its new ends and every other mount as before.  For
\* a file that did not change meanwhile and a mount in short syntax whose
\* target is not part of its source: replace_mount_line_token cannot tell
\* other cases apart.
EditPlanIsExact ==
  Answered("plan") =>
    LET plan == answer.value.plan
        m == plan.mount
        read == Holds[answer.value.read].document
        New(asked, old) == IF asked = NoText THEN old ELSE asked
        Declared(source, target) == <<m.service, m.id[3], source, target>>
    IN  /\ plan.diagnostics = {}
        /\ answer.value.read = answer.got[1]
        /\ \A s \in ToSet(read.services) :
             s.name = m.service => s.volumes.items[m.id[3]].form = "short"
        /\ ~HasPart(m.source, m.target)
        => Declarations(plan.planned)
             = (Declarations(read) \ {Declared(m.source, m.target)})
                 \cup {Declared(New(plan.source, m.source), New(plan.target, m.target))}
================================================================================
