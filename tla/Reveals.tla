------------------------------- MODULE Reveals -------------------------------
(***************************************************************************)
(* Cards that are invisible until they are scrolled into view              *)
(* (frontend/static/js/dashboard.js initScrollReveals, public-site.js), in *)
(* a section that progressive-loader.js replaces meanwhile.                *)
(*                                                                         *)
(* The two scripts of a dashboard start in either order.  New nodes carry  *)
(* no class and are visible, but nobody observes them: a node that keeps   *)
(* the class reveal-pending without its observer would stay invisible.     *)
(***************************************************************************)
CONSTANT Card

VARIABLES
    site,      \* "dashboard", "public", or "reduced": public with reduced motion
    prepared,  \* the script of the reveals has run
    look,      \* look[c]: "absent", "plain", "pending" (invisible) or "visible"
    observed,  \* the nodes the IntersectionObserver watches
    inView,    \* the cards in the viewport
    skeleton,  \* look, as the loader saved it for "Retry Loading"
    refresh    \* the section: "none", "asked", "loaded" or "failed"

revealVars == <<site, prepared, look, observed, inView, skeleton, refresh>>

Present == {c \in Card : look[c] # "absent"}

-----------------------------------------------------------------------------
(* The reveals. *)

\* A script hides what it finds and observes it.
Hide ==
    /\ look' = [c \in Card |-> IF look[c] = "absent" THEN "absent" ELSE "pending"]
    /\ observed' = Present

Prepare ==
    /\ ~prepared /\ prepared' = TRUE
    /\ UNCHANGED <<site, inView, skeleton, refresh>>

\* Nothing is hidden without an IntersectionObserver (line 773).
InitScrollReveals ==
    /\ site = "dashboard" /\ Prepare
    /\ Hide \/ UNCHANGED <<look, observed>>

RevealPublic == site = "public" /\ Prepare /\ Hide

RevealAtOnce ==
    /\ site = "reduced" /\ Prepare
    /\ look' = [c \in Card |-> "visible"]
    /\ UNCHANGED observed

\* The user scrolls.
Scroll(c) ==
    /\ inView' = IF c \in inView THEN inView \ {c} ELSE inView \cup {c}
    /\ UNCHANGED <<site, prepared, look, observed, skeleton, refresh>>

\* The observer's callback: the card is shown and no longer observed.
Reveal(c) ==
    /\ c \in observed /\ c \in inView
    /\ look' = [look EXCEPT ![c] = "visible"]
    /\ observed' = observed \ {c}
    /\ UNCHANGED <<site, prepared, inView, skeleton, refresh>>

-----------------------------------------------------------------------------
(* The section of a dashboard (SectionLoader has its requests and pages). *)

\* innerHTML: the nodes that were observed are gone.
Replace(looks) == look' = looks /\ observed' = {}

Fresh(cards) == [c \in Card |-> IF c \in cards THEN "plain" ELSE "absent"]

\* What is there is saved, and the cached section, if any, takes its place.
OpenSection ==
    /\ site = "dashboard" /\ refresh = "none"
    /\ skeleton' = look
    /\ (\E cached \in SUBSET Card : Replace(Fresh(cached))) \/ UNCHANGED <<look, observed>>
    /\ refresh' = "asked"
    /\ UNCHANGED <<site, prepared, inView>>

\* Mutant: the same cards are not replaced.
SectionShowsNew ==
    /\ refresh = "asked"
    /\ \E cards \in SUBSET Card :
         IF cards # Present THEN Replace(Fresh(cards)) ELSE UNCHANGED <<look, observed>>
    /\ refresh' = "loaded"
    /\ UNCHANGED <<site, prepared, inView, skeleton>>

\* The comparison of the HTML sees the classes the reveals have added.
SectionShows ==
    /\ refresh = "asked"
    /\ \E cards \in SUBSET Card :
         IF look # Fresh(cards) THEN Replace(Fresh(cards)) ELSE UNCHANGED <<look, observed>>
    /\ refresh' = "loaded"
    /\ UNCHANGED <<site, prepared, inView, skeleton>>

\* The last retry failed: the error box.
SectionGivesUp ==
    /\ refresh = "asked"
    /\ Replace(Fresh({}))
    /\ refresh' = "failed"
    /\ UNCHANGED <<site, prepared, inView, skeleton>>

RetryLoading ==
    /\ refresh = "failed"
    /\ Replace(skeleton)
    /\ refresh' = "asked"
    /\ UNCHANGED <<site, prepared, inView, skeleton>>

-----------------------------------------------------------------------------
RevealInit ==
    /\ site \in {"dashboard", "public", "reduced"}
    /\ prepared = FALSE
    /\ look = Fresh(Card)
    /\ observed = {}
    /\ inView = {}
    /\ skeleton = Fresh({})
    /\ refresh = "none"

RevealNext ==
    \/ InitScrollReveals \/ RevealPublic \/ RevealAtOnce
    \/ \E c \in Card : Scroll(c) \/ Reveal(c)
    \/ OpenSection \/ SectionShows \/ SectionGivesUp \/ RetryLoading

RevealSpec == RevealInit /\ [][RevealNext]_revealVars

-----------------------------------------------------------------------------
(* Properties. *)

\* The nodes and the section are well formed.
RevealTypeOK ==
    /\ site \in {"dashboard", "public", "reduced"}
    /\ prepared \in BOOLEAN
    /\ look \in [Card -> {"absent", "plain", "pending", "visible"}]
    /\ observed \subseteq Card /\ inView \subseteq Card
    /\ skeleton \in [Card -> {"absent", "plain", "pending", "visible"}]
    /\ refresh \in {"none", "asked", "loaded", "failed"}

\* A card in view does not stay invisible, in whatever order the scripts start
\* and whenever the section is replaced, fails or is restored from a skeleton
\* that was saved with its cards hidden.
NothingStaysHidden ==
    \A c \in Card :
        (look[c] = "pending" /\ c \in inView) ~> (look[c] # "pending" \/ c \notin inView)
=============================================================================
