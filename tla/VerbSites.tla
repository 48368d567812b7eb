------------------------------ MODULE VerbSites ------------------------------
(***************************************************************************)
(* VerbServer where it is installed: which calls are made and what others  *)
(* do to the files is settled for a whole behaviour.  What holds of files  *)
(* at a site that runs verbs alone need not hold beside the plain command, *)
(* which writes over what is there.                                        *)
(***************************************************************************)
EXTENDS VerbServer

CONSTANTS
  Site,      \* the installations
  CallsAt,   \* the calls made at each
  ChangesAt  \* what others do to files there

ASSUME SitesAssumption ==
  /\ CallsAt \in [Site -> SUBSET Call]
  /\ ChangesAt \in [Site -> SUBSET Change]

VARIABLE site

siteVars == <<vars, site>>

SiteInit == site \in Site /\ Init

SiteNext == NextAmong(CallsAt[site], ChangesAt[site]) /\ UNCHANGED site

SiteSpec == SiteInit /\ [][SiteNext]_siteVars

OnlyVerbs == \A c \in CallsAt[site] : c.verb # "plain"

-----------------------------------------------------------------------------
(* Where only verbs run, a file being written has one writer and is one    *)
(* it created (the `create_new` of verbs.rs), two calls given the same new *)
(* path included.                                                          *)
OneWriterOfVerbs == OnlyVerbs => OneWriter

(* Where only verbs run, a verb's answer is given with the whole file in   *)
(* place, and the file of an edit reads back as the result it answers.     *)
VerbsAnswerWhatIsWritten == [][OnlyVerbs => AnswersWhatIsWritten]_callVars
=============================================================================
