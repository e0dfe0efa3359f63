-------------------------------- MODULE SearchBox ------------------------------
(***************************************************************************)
(* The registry's search control (dashboard/components/registry-           *)
(* controls.tsx): the text in the box, the query of the page it was last   *)
(* rendered with, the debounce timer between them and the navigations      *)
(* they cause, which take a round trip and are superseded by later ones.   *)
(*                                                                         *)
(* A text is a word, which fits an address, with or without space around   *)
(* it, and perhaps with more after it than MAX_QUERY lets through.  The    *)
(* cut falls within a word, or after a gap and then leaves a space behind. *)
(* A character of two code units that the cut would halve is left out.     *)
(***************************************************************************)
EXTENDS Naturals, Sequences

CONSTANTS
    Words,      \* what a reader may type; "" is the empty box
    Filters     \* values of the "Show" select

ASSUME SearchAssumption == "" \in Words /\ "all" \in Filters

VARIABLES
    q,          \* useState: the text in the box
    params,     \* the params the page was last rendered with
    pushed,     \* pushed.current
    timer,      \* the armed debounce timer with what its closure captured, if any
    going       \* the navigation under way, if any

searchVars == <<q, params, pushed, timer, going>>

\* What lies beyond the first MAX_QUERY characters of a text.
Beyond == {"nothing", "same word", "new word"}

Texts == {text \in [word : Words, spaced : BOOLEAN, beyond : Beyond] :
            text.word = "" => text.beyond = "nothing"}
Empty == [word |-> "", spaced |-> FALSE, beyond |-> "nothing"]

\* registryHref drops the outer space, and knows no limit.
Trimmed(text) == [text EXCEPT !.spaced = FALSE]

\* The q of parseRegistryParams: trimmed first and cut then, so the cut may leave a space.
Parsed(text) == [text EXCEPT !.spaced = text.beyond = "new word", !.beyond = "nothing"]

\* What a text is when it comes back from the address it was put into.
Carried(text) == Parsed(Trimmed(text))

\* The params of the page that a text and a filter lead to.
Address(text, filter) == [q |-> Carried(text), status |-> filter]
Addresses == {Address(text, filter) : text \in Texts, filter \in Filters}

SearchInit ==
    /\ params = Address(Empty, "all")
    /\ q = Empty /\ pushed = Empty
    /\ timer = <<>> /\ going = <<>>

--------------------------------------------------------------------------------

\* router.replace of this control: a later navigation supersedes one under way.
Replace(text, filter) == going' = <<[to |-> Address(text, filter), own |-> TRUE]>>

\* onChange: the effect's cleanup drops the timer of the text before.
TypeText(text) ==
    /\ text # q
    /\ q' = text
    /\ timer' = IF text = pushed THEN <<>> ELSE <<[q |-> text, status |-> params.status]>>
    /\ UNCHANGED <<params, pushed, going>>

DebounceFires ==
    /\ timer # <<>>
    /\ pushed' = timer[1].q
    /\ Replace(timer[1].q, timer[1].status)
    /\ timer' = <<>>
    /\ UNCHANGED <<q, params>>

\* go: a select is changed, or the form is submitted.  It leaves the timer running.
Go(filter) ==
    /\ pushed' = q
    /\ Replace(q, filter)
    /\ UNCHANGED <<q, params, timer>>

ClearSearch ==
    /\ q # Empty
    /\ q' = Empty /\ pushed' = Empty
    /\ Replace(Empty, params.status)
    /\ timer' = <<>>
    /\ UNCHANGED params

\* Back, forward or a link to another view of the registry.
Leave(address) ==
    /\ going' = <<[to |-> address, own |-> FALSE]>>
    /\ UNCHANGED <<q, params, pushed, timer>>

\* The page renders with new params and the effects run: the first adopts the address's
\* text, and the second, when the text or a filter is another, drops the timer and arms
\* it anew for a text that was not pushed.
LandAdopting(adopts) ==
    /\ going # <<>>
    /\ LET to    == going[1].to
           text  == IF adopts THEN to.q ELSE q
           known == IF adopts THEN to.q ELSE pushed
       IN  /\ params' = to
           /\ q' = text
           /\ pushed' = known
           /\ timer' = IF text = q /\ to.status = params.status THEN timer
                       ELSE IF text = known THEN <<>>
                       ELSE <<[q |-> text, status |-> to.status]>>
    /\ going' = <<>>

\* Mutant of Land: the address's text is adopted whenever it changes.
LandUnguarded == LandAdopting(going[1].to.q # params.q)

Land == LandAdopting(going[1].to.q # params.q /\ going[1].to.q # pushed)

SearchNext ==
    \/ \E text \in Texts : TypeText(text)
    \/ DebounceFires
    \/ \E filter \in Filters : Go(filter)
    \/ ClearSearch
    \/ \E address \in Addresses : Leave(address)
    \/ Land

--------------------------------------------------------------------------------

\* "This never fights the user mid-word" (registry-controls.tsx:87-89): the landing of a
\* navigation that the control itself made never changes what has been typed, however
\* much was typed while it was under way, if the text that was pushed is one an address
\* carries as it is: no outer space and no more than MAX_QUERY characters.  Of any other
\* the landing may put one thing in the box, what the address left of the text pushed last.
OwnLandingKeepsTyping ==
    [][Land /\ going[1].own =>
            /\ pushed = Carried(pushed) => q' = q
            /\ q' \in {q, Carried(pushed)}]_searchVars
================================================================================
