---------------------------- MODULE HistoryScreen ---------------------------
(***************************************************************************)
(* The attendance history of the mobile app                                *)
(* (screens/attendance/HistoryScreen.js): a first page, and the next one   *)
(* whenever the end of the list comes in sight.  The first page is loaded  *)
(* again when the language changes, which another tab can do meanwhile.    *)
(***************************************************************************)
EXTENDS Naturals, Sequences

CONSTANTS Pages,         \* how many pages the server has
          MaxSwitches    \* bound: changes of language

VARIABLES shownPages,    \* the pages whose records are on screen, in order
          nextUrl,       \* the page that follows, 0 for none
          firsts,        \* loads of the first page under way
          mores,         \* page -> how many loads of it as a next page are under way
          isLoading, isLoadingMore,
          failed,        \* the error is on screen, instead of the list
          switches

historyVars == <<shownPages, nextUrl, firsts, mores, isLoading, isLoadingMore, failed, switches>>

HistoryTypeOK ==
    /\ \A i \in DOMAIN shownPages : shownPages[i] \in 1..Pages
    /\ nextUrl \in 0..Pages /\ firsts \in 0..(MaxSwitches + 1) /\ mores \in [1..Pages -> 0..2]
    /\ {isLoading, isLoadingMore} \subseteq BOOLEAN /\ failed \in BOOLEAN /\ switches \in 0..MaxSwitches

HistoryInit ==
    /\ shownPages = <<>> /\ nextUrl = 0 /\ mores = [p \in 1..Pages |-> 0] /\ switches = 0
    /\ firsts = 1 /\ isLoading = TRUE /\ isLoadingMore = FALSE
    /\ failed = FALSE

After(p) == IF p < Pages THEN p + 1 ELSE 0

\* `t' is another function in another language, and so is loadFirstPage.
SwitchLanguage ==
    /\ switches < MaxSwitches /\ switches' = switches + 1
    /\ firsts' = firsts + 1 /\ isLoading' = TRUE /\ failed' = FALSE
    /\ UNCHANGED <<shownPages, nextUrl, mores, isLoadingMore>>

\* The first page is answered, or is not; either way `finally' shows the list.
loadFirstPage ==
    /\ firsts > 0 /\ firsts' = firsts - 1 /\ isLoading' = FALSE
    /\ \/ shownPages' = <<1>> /\ nextUrl' = After(1) /\ UNCHANGED failed
       \/ failed' = TRUE /\ UNCHANGED <<shownPages, nextUrl>>
    /\ UNCHANGED <<mores, isLoadingMore, switches>>

\* Mutation of MayLoad: the end comes in sight again, and the page with it.
WhileLoading == nextUrl # 0

\* `if (!nextUrl || isLoadingMore) return'
MayLoad == nextUrl # 0 /\ ~isLoadingMore

loadNextPage ==
    /\ ~isLoading /\ ~failed /\ MayLoad
    /\ mores[nextUrl] < 2
    /\ mores' = [mores EXCEPT ![nextUrl] = @ + 1] /\ isLoadingMore' = TRUE
    /\ UNCHANGED <<shownPages, nextUrl, firsts, isLoading, failed, switches>>

\* The page is appended to whatever is there by now, or its failure is ignored.
NextPage(p) ==
    /\ mores[p] > 0 /\ mores' = [mores EXCEPT ![p] = @ - 1] /\ isLoadingMore' = FALSE
    /\ \/ /\ Len(shownPages) <= Pages + MaxSwitches
          /\ shownPages' = Append(shownPages, p) /\ nextUrl' = After(p)
       \/ UNCHANGED <<shownPages, nextUrl>>
    /\ UNCHANGED <<firsts, isLoading, failed, switches>>

HistoryAnswers == loadFirstPage \/ \E p \in 1..Pages : NextPage(p)
HistoryNext == SwitchLanguage \/ HistoryAnswers \/ loadNextPage

-----------------------------------------------------------------------------
\* The records on screen are those of the first pages, each once and in order,
\* whichever loads fail, as long as the language stays.
PagesInOrder ==
    switches = 0 => \A i \in DOMAIN shownPages : shownPages[i] = i

\* Every load ends, and takes its spinner with it.
HistoryLoads == (isLoading ~> ~isLoading) /\ (isLoadingMore ~> ~isLoadingMore)
=============================================================================
