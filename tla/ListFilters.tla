---- MODULE ListFilters ----
(* A list that the server filters and pages, in one tab (ui/toolbar.tsx,       *)
(* page-size-select.tsx, list-params.ts, pager.tsx, list-empty.tsx, as         *)
(* ExecutionList draws them): the URL holds the needle, the choices and the    *)
(* page; the box debounces what is typed into it; every control navigates by a *)
(* transition that the next one discards.  More than five rows match nothing   *)
(* in particular, so that the box never leaves the page.                       *)

EXTENDS Naturals, Sequences

CONSTANTS
    Texts,              \* what the box can hold
    NoText,             \* .. while it is empty
    Trimmed,            \* Trimmed[t]: t without the spaces around it
    Params,             \* the selects and the strip of states, by their key
    Options,            \* values of a parameter
    AnyOption,          \* .. where it is not in the URL
    PagesOf,            \* PagesOf[q][c]: pages of the rows that match at first
    MaxActs             \* bound: what the reader does

Selections == [Params -> Options]

ASSUME FiltersAssumption ==
    /\ NoText \in Texts /\ AnyOption \in Options
    /\ Trimmed \in [Texts -> Texts] /\ \A t \in Texts : Trimmed[Trimmed[t]] = Trimmed[t]
    /\ Trimmed[NoText] = NoText
    /\ PagesOf \in [Texts -> [Selections -> Nat \ {0}]]
    /\ MaxActs \in Nat

VARIABLE list

filterVars == <<list>>

Url == [q : Texts, choice : Selections, page : Nat \ {0}]

\* No navigation, no timer: their parameters mean nothing then.
Unfiltered == [q |-> NoText, choice |-> [k \in Params |-> AnyOption], page |-> 1]
Still == [by |-> "none", push |-> FALSE, to |-> Unfiltered]
NoTimer == [set |-> FALSE, text |-> NoText, params |-> Unfiltered]

FiltersTypeOK ==
    list \in [trail : Seq(Url), at : Nat \ {0},                         \* the browser's history
              going : [by : {"none", "box", "link"}, push : BOOLEAN, to : Url],
              pages : Nat \ {0},                                        \* as the pager was drawn
              text : Texts, synced : Texts, committed : Texts,          \* UrlFilterToolbar
              timer : [set : BOOLEAN, text : Texts, params : Url],
              shrunk : BOOLEAN, acts : 0..MaxActs,
              typed : Texts, chosen : Selections,                          \* history
              crossed : BOOLEAN,      \* history: a control was used while another was under way
              revisited : BOOLEAN]    \* history: Back or Forward led to the needle that the box
                                      \* committed last, so that the box did not follow

ShownUrl == list.trail[list.at]

\* pageCount of the rows there are now: others may have taken all but a page of them off the list.
PagesNow(u) == IF list.shrunk THEN 1 ELSE PagesOf[u.q][u.choice]

\* The box follows the URL, unless it put that needle there itself.
FollowUrl(l) ==
    LET q == l.trail[l.at].q
    IN  IF q = l.synced THEN l
        ELSE [l EXCEPT !.synced = q, !.text = IF q = l.committed THEN @ ELSE q]

\* Navigations and timers that a control meets.
Busy == list.timer.set \/ list.going.by # "none"

Act(next) == list.acts < MaxActs /\ list' = [next EXCEPT !.acts = @ + 1]

-------------------------------------------------------------------------------
\* The needle

\* commit: the parameters of the render that the handler belongs to, with this needle.
CommitNeedle(l, t, params) ==
    [l EXCEPT !.committed = Trimmed[t], !.revisited = FALSE,
              !.going = [by |-> "box", push |-> FALSE,
                         to |-> [params EXCEPT !.q = Trimmed[t], !.page = 1]]]

\* schedule: the timer keeps the parameters that were shown when its text was typed.
TypeNeedle(t) ==
    /\ t # list.text
    /\ Act([list EXCEPT !.text = t, !.typed = t,
                        !.timer = [set |-> TRUE, text |-> t, params |-> ShownUrl],
                        !.crossed = @ \/ list.going.by = "link"])

Debounce ==
    /\ list.timer.set
    /\ list' = [CommitNeedle(list, list.timer.text, list.timer.params) EXCEPT !.timer = NoTimer]

\* flush: Enter, or Escape, which clears.
Flush(t) ==
    /\ t \in {list.text, NoText}
    /\ Act([CommitNeedle(list, t, ShownUrl) EXCEPT !.text = t, !.typed = t, !.timer = NoTimer,
                                          !.crossed = @ \/ list.going.by = "link"])

-------------------------------------------------------------------------------
\* Everything else on the list: a select or the page size replaces the entry; a link pushes one,
\* but the one to where the tab is.

Choose(k, v) == [ShownUrl EXCEPT !.choice[k] = v, !.page = 1]

Go(to, push) ==
    [list EXCEPT !.going = [by |-> "link", push |-> push /\ to # ShownUrl, to |-> to],
                 !.chosen = to.choice, !.crossed = @ \/ Busy]

Select(k, v) == v # ShownUrl.choice[k] /\ Act(Go(Choose(k, v), FALSE))

FollowState(k, v) == Act(Go(Choose(k, v), TRUE))

\* Pager: Previous, Next and the numbers, as the last answer had them.
FollowPage(n) == n # ShownUrl.page /\ Act(Go([ShownUrl EXCEPT !.page = n], TRUE))

\* ListEmpty: a page past the end has no rows.
ToFirstPage == ShownUrl.page > list.pages /\ Act(Go([ShownUrl EXCEPT !.page = 1], TRUE))

-------------------------------------------------------------------------------
\* The router

Moved(l) == FollowUrl([l EXCEPT !.going = Still])

Land ==
    /\ list.going.by # "none"
    /\ LET to == list.going.to
       IN  list' = Moved([list EXCEPT
                     !.trail = IF list.going.push THEN Append(SubSeq(@, 1, list.at), to)
                                                  ELSE [@ EXCEPT ![list.at] = to],
                     !.at = IF list.going.push THEN @ + 1 ELSE @,
                     !.pages = PagesNow(to)])

\* Back and Forward: the entry is redrawn from the router's cache, or read again.
Travel(n) ==
    /\ n \in {list.at - 1, list.at + 1} \cap DOMAIN list.trail
    /\ LET u == list.trail[n]
           drawn == Moved([list EXCEPT !.at = n])
       IN  \E p \in {PagesOf[u.q][u.choice], PagesNow(u)} :
              Act([drawn EXCEPT !.pages = p, !.typed = drawn.text, !.chosen = u.choice,
                                !.crossed = @ \/ Busy,
                                !.revisited = IF u.q = list.synced THEN @ ELSE u.q = list.committed])

\* Other people's work.
Shrink == ~list.shrunk /\ list' = [list EXCEPT !.shrunk = TRUE]

FiltersInit ==
    \E q \in {Trimmed[t] : t \in Texts} :
        LET u == [Unfiltered EXCEPT !.q = q]
        IN  list = [trail |-> <<u>>, at |-> 1, going |-> Still, pages |-> PagesOf[q][u.choice],
                    text |-> q, synced |-> q, committed |-> q, timer |-> NoTimer,
                    shrunk |-> FALSE, acts |-> 0, typed |-> q, chosen |-> u.choice,
                    crossed |-> FALSE, revisited |-> FALSE]

FiltersNext ==
    \/ \E t \in Texts : TypeNeedle(t) \/ Flush(t)
    \/ Debounce
    \/ \E k \in Params, v \in Options : Select(k, v) \/ FollowState(k, v)
    \/ \E n \in 1..list.pages : FollowPage(n)
    \/ ToFirstPage
    \/ Land
    \/ \E n \in DOMAIN list.trail : Travel(n)
    \/ Shrink

FiltersSpec == FiltersInit /\ [][FiltersNext]_filterVars

-------------------------------------------------------------------------------
\* Properties

\* No filter, choice or page size strands the reader on a page that its rows do not reach, by
\* whatever overlap of timers and navigations, and whatever entry of the history is returned to.
PageIsReached ==
    ~list.shrunk => \A u \in {list.trail[i] : i \in DOMAIN list.trail} \cup {list.going.to} :
                        u.page <= PagesOf[u.q][u.choice]

\* What is being typed is not overwritten by the answer to what was typed before, or to a choice.
TypingStands == list.text = list.typed

\* Once everything arrived, the list is filtered by what the selects and the box say, unless two
\* controls overlapped; and but for the box over a needle that the reader went Back or Forward to
\* and that the box itself had committed last: it then keeps a text of before.
FilteredAsSaid ==
    ~Busy /\ ~list.crossed => /\ ShownUrl.choice = list.chosen
                              /\ ~list.revisited => ShownUrl.q = Trimmed[list.text]

FiltersAreHonest == PageIsReached /\ TypingStands /\ FilteredAsSaid
====
