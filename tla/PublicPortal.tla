---------------------------- MODULE PublicPortal ----------------------------
(***************************************************************************)
(* The anonymous portal and its page cache.  cache_page keeps a rendered   *)
(* page in the memory of the process that rendered it; a change of what    *)
(* the portal shows clears the cache of the process that made it, once its *)
(* transaction has committed.  Time is counted in ticks.                   *)
(***************************************************************************)
EXTENDS Naturals

CONSTANTS Processes,      \* web server processes, each with a cache of its own
          Threads,        \* threads of each of them
          Timeout,        \* how long a page is kept
          RenderTime,     \* the longest a page takes to render: an assumption, which the
                          \* threaded server does not enforce
          MaxClock,       \* bound: the clock stops here
          NoPage

ASSUME TimesAreNatural == Timeout \in Nat \ {0} /\ RenderTime \in Nat

VARIABLES clock,
          project,    \* [active, public]
          hidden,     \* when the portal's selectors last lost the project
          cached,     \* per process: NoPage, or what the page shows and until when
          render,     \* per thread: NoPage, or what it read and when it began
          clearing,   \* processes that have committed and not yet cleared
          served      \* the page last sent: whether it shows the project, and when

portalVars == <<clock, project, hidden, cached, render, clearing, served>>

\* get_public_projects, and every other selector of the portal.
Eligible == project.active /\ project.public

PortalInit ==
    /\ clock = 0
    /\ project = [active |-> TRUE, public |-> FALSE]
    /\ hidden = 0
    /\ cached = [p \in Processes |-> NoPage]
    /\ render = [h \in Processes \X Threads |-> NoPage]
    /\ clearing = {}
    /\ served = [shows |-> FALSE, at |-> 0]

Fresh(p) == cached[p] # NoPage /\ clock < cached[p].until

Send(shows) == served' = [shows |-> shows, at |-> clock]

\* Mutant of Hit: every reader extends the life of the page.
HitExtends(p) ==
    /\ Fresh(p)
    /\ Send(cached[p].shows)
    /\ cached' = [cached EXCEPT ![p].until = clock + Timeout]
    /\ UNCHANGED <<clock, project, hidden, render, clearing>>

\* cache_page answers from the cache of its process.
Hit(p) ==
    /\ Fresh(p)
    /\ Send(cached[p].shows)
    /\ UNCHANGED <<clock, project, hidden, cached, render, clearing>>

\* A miss: the view runs its queries.
Miss(h) ==
    /\ render[h] = NoPage
    /\ ~Fresh(h[1])
    /\ render' = [render EXCEPT ![h] = [shows |-> Eligible, began |-> clock]]
    /\ UNCHANGED <<clock, project, hidden, cached, clearing, served>>

\* The page is kept from when it is ready, not from when it was read.
Respond(h) ==
    /\ render[h] # NoPage
    /\ cached' = [cached EXCEPT ![h[1]] = [shows |-> render[h].shows, until |-> clock + Timeout]]
    /\ render' = [render EXCEPT ![h] = NoPage]
    /\ Send(render[h].shows)
    /\ UNCHANGED <<clock, project, hidden, clearing>>

\* Details of an advance, its documents and the JSON views are not cached.
Uncached ==
    /\ Send(Eligible)
    /\ UNCHANGED <<clock, project, hidden, cached, render, clearing>>

\* publish_project, unpublish_project and finish_project, in process p.
Change(p, now) ==
    /\ project.active
    /\ project # now
    /\ project' = now
    /\ hidden' = IF Eligible /\ ~(now.active /\ now.public) THEN clock ELSE hidden
    /\ clearing' = clearing \cup {p}
    /\ UNCHANGED <<clock, cached, render, served>>

\* invalidate_public_portal_cache, after the commit.
Clear(p) ==
    /\ p \in clearing
    /\ cached' = [cached EXCEPT ![p] = NoPage]
    /\ clearing' = clearing \ {p}
    /\ UNCHANGED <<clock, project, hidden, render, served>>

\* The process dies, its cache, its renders and a clear it owes with it.
Restart(p) ==
    /\ cached' = [cached EXCEPT ![p] = NoPage]
    /\ render' = [h \in Processes \X Threads |-> IF h[1] = p THEN NoPage ELSE render[h]]
    /\ clearing' = clearing \ {p}
    /\ UNCHANGED <<clock, project, hidden, served>>

\* A page takes at most RenderTime.
Tick ==
    /\ clock < MaxClock
    /\ \A h \in Processes \X Threads : render[h] # NoPage => clock < render[h].began + RenderTime
    /\ clock' = clock + 1
    /\ UNCHANGED <<project, hidden, cached, render, clearing, served>>

PortalNext ==
    \/ \E p \in Processes : Hit(p) \/ Clear(p) \/ Restart(p)
    \/ \E p \in Processes : \/ Change(p, [active |-> TRUE, public |-> ~project.public])
                            \/ Change(p, [active |-> FALSE, public |-> FALSE])
    \/ \E h \in Processes \X Threads : Miss(h) \/ Respond(h)
    \/ Uncached
    \/ Tick

PortalSpec == PortalInit /\ [][PortalNext]_portalVars

-----------------------------------------------------------------------------
\* A project that was hidden or closed may still be shown - by another process, or from a
\* render that was in flight when the cache was cleared - but never later than a page takes
\* to render and to expire (urls.py:24-52, public_portal_cache.py:20-36).
HiddenAgesOut ==
    served.shows /\ ~Eligible => served.at < hidden + RenderTime + Timeout
=============================================================================
