\* Two projects, two repositories of which one is fetched at a time, one push or edit and a
\* tick of time; the kinds of releases and of requests are in MCUpdate.
CONSTANTS
  Tags <- MCTags
  Commits <- MCCommits
  Hooks = {"h", "k"}
  Version <- MCVersion
  Rank <- MCRank
  Dotted <- MCDotted
  Distance <- MCDistance
  History <- MCHistory
  Manifest <- MCManifest
  Projects = {"p", "q"}
  Repos = {"r", "s"}
  Remotes <- MCRemotes
  Entries <- MCEntries
  Rewrites <- MCRewrites
  Requests <- MCRequests
  ProjectOptions <- MCProjectOptions
  GlobalOptions <- MCGlobalOptions
  Jobs = 1
  MaxLength = 2
  MaxRuns = 1
  MaxEdits = 1
  MaxTime = 1
SPECIFICATION MCSpec
\* The users may be content with what they have.
CHECK_DEADLOCK FALSE
INVARIANTS OwnSelection NeverDowngrades WritesAsPlanned SuccessMeansCurrent
