--------------------------- MODULE Compatibility ----------------------------
(***************************************************************************)
(* Whether two runs may be compared, plane by plane: what a collector says *)
(* of the run it made, what the API concludes of two such contexts for a   *)
(* comparison somebody requests, and what the worker concludes when it     *)
(* looks for a baseline by itself.  Values that the code normalises (host  *)
(* lists, extensions, scopes and roles) are compared as the values they    *)
(* normalise to; fields that always change together are one field.         *)
(***************************************************************************)
EXTENDS FiniteSets

CONSTANTS
    Who,          \* tenant, application, identity, scopes and roles
    Sites,        \* declared targets: SharePoint sites, or hosts and networks
    Everywhere,   \* no SharePoint site was named
    Enumerations, \* "shares": share filters; "tree": depth, limits and path filters
    Missing       \* the field is absent or malformed

ASSUME CompatibilityAssumption ==
    /\ Everywhere \notin Sites
    /\ Missing \notin Who \cup Sites \cup Enumerations \cup {Everywhere}
    /\ Missing \notin {"targeted", "getAllSites", "search"}
    /\ Missing \notin [files: BOOLEAN, scope: Enumerations]

Same(b, c, fields)  == \A f \in fields : b[f] = c[f]

\* ---------------------------------------------------------------- collectors

\* What the network collector was asked to do and how it went; the parts of a context it
\* does not fill, and those SharePoint alone has, are Missing.
NetworkContext(providers, who, target, scope, structural, whole, granted) ==
    [providers |-> providers, who |-> who, auth |-> "session", opaque |-> FALSE,
     discovery |-> IF structural THEN "authoritative" ELSE "partial",
     strategy |-> Missing, authoritative |-> Missing,
     target |-> target, enumeration |-> scope, snapshot |-> TRUE,
     structural |-> structural, files |-> "nfs" \notin providers,
     content |-> whole /\ "nfs" \notin providers,
     assessed |-> granted # "none", granted |-> structural /\ granted = "complete",
     contracts |-> {"structural"} \cup (IF "smb" \in providers THEN {"content", "capability"} ELSE {})]

\* collection_context_record
SharePointContext(auth, opaque, who, target, scope, files, structural, whole, granted) ==
    LET targeted == target # Everywhere IN
    [providers |-> {"sharepoint"}, who |-> who, auth |-> auth, opaque |-> opaque,
     discovery |-> IF ~structural THEN "partial"
                   ELSE IF targeted THEN "targeted_scope"
                   ELSE IF auth = "delegated" THEN "security_trimmed"
                   ELSE "complete_for_granted_scope",
     strategy |-> IF targeted THEN "targeted"
                  ELSE IF auth = "application" THEN "getAllSites" ELSE "search",
     authoritative |-> auth = "application" /\ ~targeted /\ structural,
     target |-> target, enumeration |-> [files |-> files, scope |-> scope], snapshot |-> TRUE,
     structural |-> structural, files |-> files, content |-> structural /\ files /\ whole,
     assessed |-> granted # "none", granted |-> structural /\ granted = "complete",
     contracts |-> {"structural", "content"}]

Collected ==
    {NetworkContext(p[1], p[2], p[3], p[4], p[5], p[6], p[7]) :
        p \in {{"smb"}, {"nfs"}, {"smb", "nfs"}} \X Who \X Sites \X Enumerations
                  \X BOOLEAN \X BOOLEAN \X {"none", "partial", "complete"}}
    \cup
    {SharePointContext(p[1], p[2], p[3], p[4], p[5], p[6], p[7], p[8], p[9]) :
        p \in {"application", "delegated"} \X BOOLEAN \X Who \X (Sites \cup {Everywhere})
                  \X Enumerations \X BOOLEAN
                  \X BOOLEAN \X BOOLEAN \X {"none", "partial", "complete"}}

\* ----------------------------------------------- a comparison somebody requests

SharePoint(c) == "sharepoint" \in c.providers
\* _run_diff_compatibility: what a SharePoint context has to say.
LegacyKnown(c) ==
    /\ c.who # Missing
    /\ c.strategy # Missing /\ c.authoritative \in BOOLEAN

\* _comparison_contract_value: the contract of a provider's own collector.
Contract(c, plane) ==
    /\ plane \in c.contracts
    /\ \/ c.providers = {"sharepoint"} /\ plane # "capability"
       \/ /\ c.providers # {} /\ c.providers \subseteq {"smb", "nfs"}
          /\ plane = "content" => "smb" \in c.providers
          /\ plane = "capability" => c.providers = {"smb"}
Contracted(b, c, plane) == Contract(b, plane) /\ Contract(c, plane)

TargetKnown(c) == c.target # Missing /\ (SharePoint(c) \/ c.target # Everywhere)
\* A context that names sites says so as its discovery mode, and only then.
ModeConsistent(c) ==
    SharePoint(c) =>
        /\ c.target # Everywhere <=> c.discovery = "targeted_scope"
        /\ c.target # Everywhere <=> c.strategy = "targeted"
AuthoritativeValues ==
    {"authoritative", "complete", "complete_for_declared_scope", "complete_for_granted_scope",
     "full", "targeted_scope"}
Discovered(c) == c.discovery \in AuthoritativeValues
DiscoveryAuthoritative(b, c) ==
    \/ ~SharePoint(b) /\ ~SharePoint(c)
    \/ \A r \in {b, c} : /\ r.discovery = "targeted_scope" /\ r.strategy = "targeted"
                         /\ r.target # Everywhere
    \/ \A r \in {b, c} : r.authoritative = TRUE
FilesConsistent(c) == SharePoint(c) => c.enumeration # Missing /\ c.files = c.enumeration.files

\* build_comparison_compatibility
StructuralInterpretable(b, c) ==
    /\ Same(b, c, {"providers", "who", "auth", "discovery", "strategy", "authoritative", "target"})
    /\ \A r \in {b, c} :
          /\ Discovered(r) /\ r.snapshot /\ r.structural /\ ~r.opaque
          /\ SharePoint(r) => LegacyKnown(r)
          /\ TargetKnown(r) /\ ModeConsistent(r)
          /\ "smb" \in r.providers => r.enumeration # Missing
    /\ "smb" \in b.providers => b.enumeration.shares = c.enumeration.shares
    /\ DiscoveryAuthoritative(b, c)
    /\ Contracted(b, c, "structural")
ContentInterpretable(b, c) ==
    /\ StructuralInterpretable(b, c)
    /\ b.files /\ c.files /\ b.content /\ c.content
    /\ b.providers \cap {"smb", "sharepoint"} # {} =>
          b.enumeration # Missing /\ b.enumeration = c.enumeration
    /\ Contracted(b, c, "content")
    /\ FilesConsistent(b) /\ FilesConsistent(c)
AccessContextComparable(b, c) ==
    /\ Same(b, c, {"providers", "auth", "who"})
    /\ \A r \in {b, c} : r.providers # {} /\ r.who # Missing /\ ~r.opaque
CapabilityInterpretable(b, c) ==
    /\ AccessContextComparable(b, c)
    /\ b.providers = {"smb"} /\ Contracted(b, c, "capability")
    /\ b.enumeration # Missing /\ c.enumeration # Missing
    /\ b.enumeration.tree = c.enumeration.tree
DirectInterpretable(b, c) ==
    AccessContextComparable(b, c) /\ b.assessed /\ c.assessed /\ b.granted /\ c.granted
Requested(b, c) ==
    [structural |-> StructuralInterpretable(b, c), content |-> ContentInterpretable(b, c),
     capability |-> CapabilityInterpretable(b, c), direct |-> DirectInterpretable(b, c)]

\* -------------------------------------------- a baseline the worker finds by itself

\* Mutant of SignatureFields: two runs of different depth or filters are a pair.
SignatureAnyScope == {"providers", "who", "auth", "target", "contracts"}
\* _automatic_comparison_signature
SignatureFields == {"providers", "who", "auth", "target", "enumeration", "contracts"}

\* _automatic_comparison_compatibility; FALSE when the runs are no pair.
Pair(b, c) == Same(b, c, SignatureFields)
Automatic(b, c) ==
    LET structural == \A r \in {b, c} : r.snapshot /\ Discovered(r) /\ r.structural IN
    [structural |-> structural,
     content    |-> structural /\ b.files /\ c.files /\ b.content /\ c.content,
     capability |-> b.providers = {"smb"} /\ "capability" \in c.contracts,
     direct     |-> /\ b.assessed /\ c.assessed /\ b.granted /\ c.granted
                    /\ b.providers # {} /\ b.providers \subseteq {"smb", "sharepoint"}]

-----------------------------------------------------------------------------

\* The worker, which checks less of a context than the API, concludes no more than the API
\* would of two contexts of the repository's collectors whose tokens could be inspected.
Inspected == {r \in Collected : ~r.opaque}
AutomaticConcludesLess ==
    \A b \in Inspected : \A c \in Inspected : Pair(b, c) =>
        \A plane \in {"structural", "content", "capability", "direct"} :
            Automatic(b, c)[plane] => Requested(b, c)[plane]
\* Neither conclusion depends on which of the runs is the baseline.
BothConcludeAlike ==
    \A b \in Inspected : \A c \in Inspected : Pair(b, c) =>
        Automatic(b, c) = Automatic(c, b) /\ Requested(b, c) = Requested(c, b)
=============================================================================
