----------------------------- MODULE MCPipeline -----------------------------
(***************************************************************************)
(* Pipeline on small sets, for TLC.                                         *)
(***************************************************************************)
EXTENDS Pipeline, Globs

CONSTANTS tree1, tree2, folder, doc, clean, bad

MCRoots == <<tree1, tree2>>
MCParent == (tree1 :> None) @@ (tree2 :> None) @@ (folder :> tree1)
MCDirOf == (doc :> folder)
MCHits == [c \in Contents |-> IF c = bad THEN {"Y3"} ELSE {}]
NoFeature == [exec |-> 0, suid |-> 0, strings |-> 0, urls |-> 0, ips |-> 0, commands |-> 0, binary |-> 0]
MCFeatures == [c \in Contents |-> [NoFeature EXCEPT !.exec = 1]]
MCLength == [c \in Contents |-> 1]
\* What the feeds say: a known hash, twice, and two malformed entries.
MCFeed ==
  {[source |-> "MalwareBazaar", says |-> "Sha256", form |-> "Sha256", value |-> bad],
   [source |-> "MalwareBazaar", says |-> "Sha256", form |-> "Other", value |-> clean],
   [source |-> "ThreatFox", says |-> "Sha256", form |-> "Sha256", value |-> bad],
   [source |-> "ThreatFox", says |-> "Sha256", form |-> "Md5", value |-> clean],
   [source |-> "URLhaus", says |-> "Url", form |-> "Url", value |-> clean]}
=============================================================================
