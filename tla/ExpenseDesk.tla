----------------------------- MODULE ExpenseDesk -----------------------------
(***************************************************************************)
(* Who may do what to an expense request from the panel.  A posted page is *)
(* checked against the permissions of its user and the row as they are when*)
(* the request arrives; the service then locks the row and checks it again,*)
(* with the permissions Django cached on arrival.  The money a request     *)
(* reserves is in Ledger.                                                  *)
(***************************************************************************)
EXTENDS Accounts

CONSTANTS Requests, Papers, Tabs

VARIABLES request,    \* [status, owner, papers]
          tab         \* the posted page each tab waits for

deskVars == <<request, tab>>

NoRequest == [status |-> "absent", owner |-> None, papers |-> {}]

OpenStatuses == {"pending_decision", "approved_reserved"}

DeskInit ==
    /\ request = [r \in Requests |-> NoRequest]
    /\ tab = [t \in Tabs |-> Idle]

Registered(r) == request[r].status # "absent"

-----------------------------------------------------------------------------
(* Permissions.  A user has those of all the groups.                       *)

Can(roles, verb, thing) == \E g \in roles : Holds(g, verb, thing)

Elevated(roles) == \E verb \in {"decide", "fulfill", "annul"} : Can(roles, verb, "expenserequest")

\* user_has_ownership_scoped_expense_requests
OwnOnly(roles) == ~Elevated(roles) /\ Can(roles, "withdraw", "expenserequest")

Visible(roles, u, r) == Registered(r) /\ (OwnOnly(roles) => request[r].owner = u)

\* user_can_create_global_expense_request
GlobalCreate(roles) ==
    /\ Can(roles, "add", "expenserequest")
    /\ \E verb \in {"fulfill", "annul"} : Can(roles, verb, "expenserequest")

MutableOwn(roles, u, r) ==
    /\ Visible(roles, u, r)
    /\ request[r].owner = u
    /\ request[r].status = "pending_decision"

Decidable(roles, u, r) ==
    /\ Can(roles, "decide", "expenserequest")
    /\ Visible(roles, u, r)
    /\ request[r].status = "pending_decision"

\* Mutant of Annullable: reserved requests are forgotten.
AnnullablePendingOnly(roles, u, r) ==
    /\ Can(roles, "annul", "expenserequest")
    /\ Visible(roles, u, r)
    /\ request[r].status = "pending_decision"

Annullable(roles, u, r) ==
    /\ Can(roles, "annul", "expenserequest")
    /\ Visible(roles, u, r)
    /\ request[r].status \in OpenStatuses

Fulfillable(roles, u, r) ==
    /\ Can(roles, "fulfill", "expenserequest")
    /\ Visible(roles, u, r)
    /\ request[r].status = "approved_reserved"

-----------------------------------------------------------------------------
(* The pages: what lets a user open one, by permission and by row.         *)

OpensCreate(roles) == GlobalCreate(roles)

OpensCreateForProject(roles) == Can(roles, "add", "expenserequest")

OpensDetail(roles, u, r) == Can(roles, "view", "expenserequest") /\ Visible(roles, u, r)

OpensUpdate(roles, u, r) == Can(roles, "change", "expenserequest") /\ MutableOwn(roles, u, r)

OpensWithdraw(roles, u, r) == Can(roles, "withdraw", "expenserequest") /\ MutableOwn(roles, u, r)

OpensAnnul(roles, u, r) == Annullable(roles, u, r)

OpensApprove(roles, u, r) == Decidable(roles, u, r)

OpensDeny(roles, u, r) == Decidable(roles, u, r)

OpensFulfill(roles, u, r) == Fulfillable(roles, u, r)

OpensAttach(roles, u, r) ==
    Can(roles, "add", "expenserequestattachment") /\ MutableOwn(roles, u, r)

OpensDetach(roles, u, r) ==
    Can(roles, "delete", "expenserequestattachment") /\ MutableOwn(roles, u, r)

OpensPapers(roles, u, r) ==
    /\ Can(roles, "view", "expenserequest") /\ Can(roles, "view", "expenserequestattachment")
    /\ Visible(roles, u, r)

Admitted(roles, u, r) ==
    {page \in {"update", "withdraw", "annul", "approve", "deny", "fulfill", "attach", "detach"} :
        CASE page = "update" -> OpensUpdate(roles, u, r)
          [] page = "withdraw" -> OpensWithdraw(roles, u, r)
          [] page = "annul" -> OpensAnnul(roles, u, r)
          [] page = "approve" -> OpensApprove(roles, u, r)
          [] page = "deny" -> OpensDeny(roles, u, r)
          [] page = "fulfill" -> OpensFulfill(roles, u, r)
          [] page = "attach" -> OpensAttach(roles, u, r)
          [] page = "detach" -> OpensDetach(roles, u, r)}

\* The buttons of the detail page, which look at the row alone.
RequesterButtons(roles, u, r) ==
    IF request[r].owner = u /\ request[r].status = "pending_decision"
    THEN {page \in {"update", "withdraw", "attach", "detach"} :
             \/ page = "update" /\ Can(roles, "change", "expenserequest")
             \/ page = "withdraw" /\ Can(roles, "withdraw", "expenserequest")
             \/ page = "attach" /\ Can(roles, "add", "expenserequestattachment")
             \/ page = "detach" /\ Can(roles, "delete", "expenserequestattachment")}
    ELSE {}

DecisionButtons(roles, r) ==
    IF request[r].status = "pending_decision" /\ Can(roles, "decide", "expenserequest")
    THEN {"approve", "deny"} ELSE {}

AnnulButton(roles, r) ==
    IF request[r].status \in OpenStatuses /\ Can(roles, "annul", "expenserequest")
    THEN {"annul"} ELSE {}

FulfillButton(roles, r) ==
    IF request[r].status = "approved_reserved" /\ Can(roles, "fulfill", "expenserequest")
    THEN {"fulfill"} ELSE {}

Buttons(roles, u, r) ==
    RequesterButtons(roles, u, r) \cup DecisionButtons(roles, r)
        \cup AnnulButton(roles, r) \cup FulfillButton(roles, r)

\* The links to the files of a request, and among them the buttons that remove one.
LinksPapers(roles) ==
    Can(roles, "view", "expenserequest") /\ Can(roles, "view", "expenserequestattachment")

\* The list of requests: a committee member lands on those to decide.
Listed(roles, u) ==
    {r \in Requests :
        /\ OpensDetail(roles, u, r)
        /\ Can(roles, "decide", "expenserequest") => request[r].status = "pending_decision"}

\* The queues of the dashboard, and the page each row of them leads to.
Queue(roles, u, name) ==
    CASE name = "fulfillment" -> {r \in Requests : Fulfillable(roles, u, r)}
      [] name = "decision" -> {r \in Requests : Decidable(roles, u, r)}
      [] name = "tracking" ->
            IF \/ Can(roles, "fulfill", "expenserequest")
               \/ Can(roles, "decide", "expenserequest")
               \/ ~Can(roles, "view", "expenserequest")
            THEN {}
            ELSE {r \in Requests : Visible(roles, u, r) /\ request[r].status \in OpenStatuses}

-----------------------------------------------------------------------------
(* Posted pages                                                            *)

Post(t, page, u, r, paper) ==
    /\ tab[t] = Idle
    /\ LoggedIn(u)
    /\ ~account[u].must
    /\ tab' = [tab EXCEPT ![t] = [name |-> page, user |-> u, roles |-> groups[u],
                                  request |-> r, paper |-> paper, step |-> "posted"]]
    /\ UNCHANGED request

PostCreate(t, u) ==
    /\ OpensCreate(groups[u]) \/ OpensCreateForProject(groups[u])
    /\ Post(t, "create", u, None, None)

PostPage(t, page, u, r) ==
    /\ \/ page \notin {"attach", "detach"} /\ Post(t, page, u, r, None)
       \/ page = "attach" /\ \E k \in Papers \ request[r].papers : Post(t, page, u, r, k)
       \/ page = "detach" /\ \E k \in request[r].papers : Post(t, page, u, r, k)

Serving(t, page) == tab[t].name = page /\ tab[t].step = "posted"

Answer(t) == tab' = [tab EXCEPT ![t] = Idle]

\* The checks of the services, under the lock of the row.
OwnPending(t) ==
    LET r == tab[t].request IN
    request[r].owner = tab[t].user /\ request[r].status = "pending_decision"

Pending(t) == request[tab[t].request].status = "pending_decision"

MoveTo(t, status) == request' = [request EXCEPT ![tab[t].request].status = status]

Create(t) ==
    /\ Serving(t, "create")
    /\ \E r \in Requests :
          /\ ~Registered(r)
          /\ request' = [request EXCEPT ![r] =
                            [status |-> "pending_decision", owner |-> tab[t].user, papers |-> {}]]
    /\ Answer(t)

\* What an update changes - the terms of the request - is in Ledger.
Update(t) == Serving(t, "update") /\ OwnPending(t) /\ UNCHANGED request /\ Answer(t)

Withdraw(t) == Serving(t, "withdraw") /\ OwnPending(t) /\ MoveTo(t, "withdrawn") /\ Answer(t)

Approve(t) == Serving(t, "approve") /\ Pending(t) /\ MoveTo(t, "approved_reserved") /\ Answer(t)

Deny(t) == Serving(t, "deny") /\ Pending(t) /\ MoveTo(t, "denied") /\ Answer(t)

Fulfill(t) ==
    /\ Serving(t, "fulfill")
    /\ request[tab[t].request].status = "approved_reserved"
    /\ MoveTo(t, "fulfilled")
    /\ Answer(t)

Annul(t) ==
    /\ Serving(t, "annul")
    /\ request[tab[t].request].status \in OpenStatuses
    /\ MoveTo(t, "annulled")
    /\ Answer(t)

\* add_expense_request_attachments checks, stores the files, and checks again.
StorePaper(t) ==
    /\ Serving(t, "attach")
    /\ OwnPending(t)
    /\ tab' = [tab EXCEPT ![t].step = "stored"]
    /\ UNCHANGED request

\* Mutant of Confirmable: the second transaction trusts the first.
ConfirmableUnchecked(t) == request[tab[t].request].owner = tab[t].user

Confirmable(t) == OwnPending(t)

ConfirmPaper(t) ==
    /\ tab[t].name = "attach"
    /\ tab[t].step = "stored"
    /\ Confirmable(t)
    /\ request' = [request EXCEPT ![tab[t].request].papers = @ \cup {tab[t].paper}]
    /\ Answer(t)

Detach(t) ==
    /\ Serving(t, "detach")
    /\ OwnPending(t)
    /\ request' = [request EXCEPT ![tab[t].request].papers = @ \ {tab[t].paper}]
    /\ Answer(t)

\* The service refuses: the row has moved on - or the money is not there, which is Ledger's.
Refuse(t) ==
    /\ tab[t] # Idle
    /\ UNCHANGED request
    /\ Answer(t)

DeskNext ==
    \E t \in Tabs :
        \/ \E u \in Users : PostCreate(t, u)
        \/ \E u \in Users, r \in Requests :
              \E page \in Admitted(groups[u], u, r) : PostPage(t, page, u, r)
        \/ Create(t) \/ Update(t) \/ Withdraw(t) \/ Approve(t) \/ Deny(t) \/ Fulfill(t)
        \/ Annul(t) \/ StorePaper(t) \/ ConfirmPaper(t) \/ Detach(t) \/ Refuse(t)

\* The desks beside the administration of the accounts.
panelVars == <<accountVars, deskVars>>

PanelInit == AccountsInit /\ DeskInit

PanelNext ==
    \/ AccountsNext /\ UNCHANGED deskVars
    \/ DeskNext /\ UNCHANGED accountVars

PanelSpec == PanelInit /\ [][PanelNext]_panelVars

-----------------------------------------------------------------------------
\* The evidence of a request is frozen once it is decided or closed (docs/FLOWS.md:475),
\* also for the upload that was stored while the committee decided.
EvidenceFrozen ==
    [][\A r \in Requests :
          request'[r].papers # request[r].papers => request[r].status = "pending_decision"]_deskVars

\* Who the documents let take a request from one state to the next
\* (docs/ROLES_AND_PERMISSIONS.md:135-157, 210, 361).
MayTake(from, to) ==
    CASE to \in {"approved_reserved", "denied"} -> {"committee"}
      [] to \in {"fulfilled", "annulled"} -> {"admin"}
      [] OTHER -> {"operator", "admin"}

\* Whatever becomes of accounts and roles meanwhile, each change of a request is made for a
\* user who had, when the page was posted, the role that may make it, and changes that are
\* the requester's are made by the requester.
ActsWithinRole ==
    [][\A r \in Requests : request'[r] # request[r] =>
          \E t \in Tabs :
              /\ tab[t] # Idle /\ tab'[t] = Idle /\ tab[t].request \in {r, None}
              /\ tab[t].roles \cap MayTake(request[r].status, request'[r].status) # {}
              /\ MayTake(request[r].status, request'[r].status) = {"operator", "admin"}
                     => request'[r].owner = tab[t].user]_deskVars

\* Whoever can open a request is offered exactly the pages and files that would open for
\* them, sees the files they may remove, and every row of a dashboard queue leads to a page
\* its reader can open and act on.
OfferedWorkOpens ==
    \A u \in Users : LET roles == groups[u] IN
        /\ \A r \in Requests : OpensDetail(roles, u, r) =>
              /\ Buttons(roles, u, r) = Admitted(roles, u, r)
              /\ LinksPapers(roles) <=> OpensPapers(roles, u, r)
              /\ "detach" \in Buttons(roles, u, r) => LinksPapers(roles)
        /\ \A r \in Queue(roles, u, "fulfillment") : "fulfill" \in Admitted(roles, u, r)
        /\ \A r \in Queue(roles, u, "decision") :
              r \in Listed(roles, u) /\ {"approve", "deny"} \subseteq Buttons(roles, u, r)
        /\ \A r \in Queue(roles, u, "tracking") : OpensDetail(roles, u, r)
=============================================================================
