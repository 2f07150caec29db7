# A verification project for the CAS server

The repository is a Jasig CAS server 3.5.2 with local additions: a Java web
application that logs users in once and vouches for them to other applications.
This directory holds TLA+ models of the parts whose correctness depends on the
order of events, the TLC configurations that check them on small instances, and
proofs by TLAPS of what matters most, for every instance.

In what follows `core/` is `cas-server-core/src/main/java/org/jasig/cas/`.

## 1. Inventory

| Component | State it keeps | Operations | Talks to | What is hard | What makes it correct |
|---|---|---|---|---|---|
| Central authentication service, `core/CentralAuthenticationServiceImpl.java` | none of its own | create, grant, validate, delegate, destroy | registry, tickets, services manager, authentication manager | each operation is several critical sections, of several monitors | a ticket is worth what it was issued for; a logout ends everything and is complete |
| Tickets, `core/ticket/` | times and count of uses, expired flag, services map, granted flag | `isExpired`, `grantServiceTicket`, `isValidFor`, `grantTicketGrantingTicket`, `expire` | their granting ticket, the policies, the application's service object | objects shared by threads; expiry through the chain | expired service tickets stay expired; the services map is stable while it is iterated over |
| Expiration policies, `core/ticket/support/` | settings | `isExpired` | the clock | sliding windows, a throttle that un-expires | as the policies of tickets |
| Default registry, `core/ticket/registry/DefaultTicketRegistry.java` | a concurrent map | add, get, delete, iterate | - | weakly consistent iteration | used up and expired tickets leave |
| Registry cleaner, `core/ticket/registry/support/DefaultTicketRegistryCleaner.java` | a list during a run | `clean`, on a quartz trigger | registry, tickets, lock | acts on a list made earlier | every ticket expired for good leaves |
| Locking strategies, same directory | one database row | acquire, release | database | transactions, leases, crashes | exclusive; taken over after a crash |
| Distributed registries, `core/ticket/registry/AbstractDistributedTicketRegistry.java` and the memcached and JBoss integrations | copies of tickets, in a cache that all nodes share | as the default registry, and a write-back of every update | the cache | no shared monitor, late updates, failed operations, evictions | a ticket that has left stays away; a logout on one node stops validations on all |
| Validation endpoint, `core/web/ServiceValidateController.java`, `core/ticket/proxy/support/` | - | serviceValidate, callback | the service, the application | delegates before it validates; retries | one proxy granting ticket for one assertion |
| Logout delivery, `core/authentication/principal/AbstractWebApplicationService.java`, `core/util/HttpClient.java` | a flag per service, a queue of messages | send, asynchronously; shut down | applications | lost messages, messages before the assertion, a shutdown in a logout | an application is left open only where its message was lost or came too early |
| Login flow, `login-webflow.xml`, `core/web/flow/`, and the logout controller | flow scope with its snapshots, the browser's cookie | login, renew, captcha, logout | the service | two windows, pages gone back to, responses lost or out of order | no session without a cookie but by a known accident; a login ticket is used once |
| ClearPass, `cas-server-extension-clearpass/` | a cache of passwords by user and of users by ticket | put, get, remove | registry, ehcache | life of the password against life of the session | no password without a session |
| Services manager, `core/services/` | a map, mirroring a list | save, delete, find, reload | dao, web forms, quartz | reload outside the monitor of save and delete | lookups see what is stored |
| Services management, `core/services/web/`, and the page `manage.jsp`, `services.js`, `cas.js` | forms, the table in the browser | validate, submit, delete, drag | services manager | check before the monitor, edits of clones, a table older than the map | no two services with one service id; services are evaluated in the order shown |
| Login throttling, `core/web/support/` | last failure per key | check, record, decrement | - | boundary of the rate, racing decrement | failures beyond the rate are refused |
| Authentication managers, `core/authentication/` | - | authenticate | handlers, resolvers | order of handlers, errors | the principal is the one some handler vouched for |
| Id generators, `core/util/` | a counter | next | - | wraparound | ids differ |

Adapters (LDAP, JDBC, RADIUS, SPNEGO, X.509, OpenID, OAuth, trusted and legacy
authentication), REST resources, monitors, views, argument extractors, audit,
remoting and the built copy of the application under `cas/` are listed in
`PROJECT.json`; section 6 says why they and some of the above are not modelled.

`PROJECT.json` also lists the hazards: the places in this code where a test
would hardly reach what can go wrong, each with the properties that would catch it.
A hazard without properties is one the code gives way to: it is in the models where
its note says so, and the property next to it excepts it by name or is checked under
settings that exclude it.

## 2. Modules

    SingleSignOn                what the service promises, without threads or tickets
    ExpirationPolicies          when a ticket is expired
    CentralAuthenticationService    service + tickets + registry + cleaner
      CasImplementsSso          ... implements SingleSignOn
        MCCas                   instances for TLC
      CentralAuthenticationService_proofs   types, one-time use, single sign-out,
                                used up tickets leave
        CasSessions_proofs      it implements SingleSignOn (with CasImplementsSso);
                                nothing is spent after the close; a destroy and
                                an expiry are final
    DistributedRegistry         the service over a registry of copies
      MCRegistry, DistributedRegistry_proofs
    ServiceValidation           validations, callbacks and logout messages
      MCValidation, ServiceValidation_proofs
    LoginFlow                   the login flow, the logout controller and the browser
      MCLogin, LoginFlow_proofs
    ClearPass                   the cache of passwords
      MCClearPass, ClearPass_proofs
    ExclusiveLock               what a locking strategy promises
    LockingStrategy             the lock row, JPA and JDBC; refers to ExclusiveLock
      MCLock
      LockingStrategy_proofs    it implements ExclusiveLock
    ServicesManager             manager + in-memory dao + reload job + validator
      MCServices
      ServicesPage              ... and the page that lists the services
        MCServicesPage
        ServicesPage_proofs     of the manager as well as of the page

Definitions whose comment begins with "Mutant" are plausible mistakes in the
definition that follows; no specification uses them, and each shows that some
property notices the mistake.

### CentralAuthenticationService

The service, the tickets, the registry and the cleaner form one module because
they share objects: a request holds a reference to a ticket that another request
or the cleaner expires, uses or removes from the map. `registry` is the set of
keys in the map; `ticket`, `tgt` and `st` are the heap, so that a ticket that has
left the map still exists for the threads that hold it.

A request is cut where another thread may come in between: at an access of the
map, at the entry of a monitor, and at an unlocked read a decision rests on.

| Operation | Actions, in order |
|---|---|
| `createTicketGrantingTicket` | `CreateTicketGrantingTicket` (the id is unknown to others until the call returns) |
| `grantServiceTicket` | `GrantLookup`, `GrantCheck` (first synchronized block), `GrantAuthorize` (reads without a lock), `GrantServiceTicket` (synchronized method of the ticket), `AddTicket` |
| `validateServiceTicket` | `ValidateLookup`, `ValidateCheck` and `ValidateUse` (one monitor, held over both: `Locked`), `ValidateFinally` and `ValidateDelete` (the finally block, outside every monitor) |
| `delegateTicketGrantingTicket` | `DelegateLookup`, `DelegateCheck`, `GrantTicketGrantingTicket`, `AddTicket` |
| `destroyTicketGrantingTicket` | `DestroyLookup`, `Expire` and `LogOutOfServices` (one monitor), `DestroyDelete` |
| `clean` | `CleanStart`, `CleanScan`, `CleanScanned`, `CleanNext`, `Expire`, `LogOutOfServices`, `CleanDelete` |

The cleaner's iterator is weakly consistent: a ticket that another thread adds
during its scan it may meet or not, as one that is removed (`Store`, `CleanScan`).

`TgtPolicy` names the policy of ticket granting tickets; the shipped
configuration has `TicketGrantingTicketExpirationPolicy`. Service tickets have
`MultiTimeUseOrTimeoutExpirationPolicy`.

Abstractions, all of data:

  - ids are fresh; credentials are what they resolve to (principal and
    attributes are one value); attribute release is left out;
  - the services configuration is constant here (`Enabled`, `SsoEnabled`,
    `ProxyAllowed`); the manager has a module of its own;
  - `isExpired` reads its few fields at once, with one reading of the clock, as
    does every other step: the fields are not volatile, but are written in monitors;
  - each grant has its own service object, as the argument extractors make one
    per request; sending the logout message is part of `LogOutOfServices`, its
    delivery is the subject of `ServiceValidation`;
  - one run of the cleaner at a time, under the `NoOpLockingStrategy`.

### SingleSignOn and CasImplementsSso

The abstract service has sessions that are opened and closed, tokens drawn on
sessions and spent a limited number of times while all the sessions they hang on
are open, and applications that are told when a session is closed. Under the
refinement mapping a session closes at `Expire`, and a token is spent when a
validation has found it alive (`ValidateCheck`), not when the use is counted:
a logout may come between the two.

### DistributedRegistry

The same service over a registry that hands out copies. `cache` is what is
stored under each id, and each request has the copy it fetched in `call`; the
delegator of `AbstractDistributedTicketRegistry` changes the copy and then
writes all of it back (`Save`). `WriteBack` tells memcached, whose `replace`
stores nothing under an id that is not there, from JBoss Cache, whose `put`
does. `Callback` is `needsCallback`: with it, getting the granting ticket of a
ticket asks the registry again (`IsExpired`, `GrantingTicketKnown`), and a
granting ticket that is not there ends the search as if there were none.
`chain` is the list of granting tickets of a ticket, up to the root, and is
final. A request is cut at each access of the cache; there are no monitors,
since every request synchronizes on an object of its own. `isExpired` walks up
the chain with one lookup per step (`AskGrantingTicket`; `asked` is how far it
has come), and so does the collection of the authentications
(`AskChainedAuthentication`, `ValidateAssert`), so a session may leave between two
lookups of one call. A failed operation is logged and forgotten in the code
(`Fault`): `Save`, `AddTicket`, `RemoveExpired` and `DestroyDelete` each have an
alternative that changes nothing, a lookup that fails finds nothing
(`NotExpired`, `ValidateAssert`), and `Evict` removes at any time what the cache
has. `conflicted` remembers the tickets that were written from a copy
that was no longer what was stored: with those the code loses updates, and what
is promised is promised for the others.

### ServiceValidation

One session, its service tickets and the applications. A validation request is
`Validate`, `DelegateTicketGrantingTicket` (with a `pgtUrl`), `ValidateServiceTicket`,
`Handle` (the callback) and `Respond`, cut at the calls of the service and of the
application; of the service it keeps what the other module proves of it, that a
ticket is good for one use and for as long as its session. A validation that
fails may have used the ticket or not: a service that is disabled is refused before,
a service that does not match after. The logout is `Expire`,
`LogOutOfService` for each entry of the services map, which sets
`loggedOutAlready` and submits the message, and `DeleteTicket`. `MessageSenderCall`
is the executor: one attempt, in any order, which fails or not. `Shutdown` is
`HttpClient.destroy`: what is queued is sent, and a later submission throws
(`LogOutOfService`, second alternative). `local` is the application: it opens a
session of its own on an assertion, which the message closes. The history
variables `lost` and `overtaken` name the two accidents that can leave it open.

### LoginFlow

The wired states of `login-webflow.xml` and the logout controller, for one
browser with several windows. `flow` is what a window's execution has in flow
scope from its start (`initialFlowSetup`: cookie and service), `shown` the
snapshots of the execution the browser can go back to, each with the login
ticket that was in flow scope when the page was made; `req` is request scope.
A request is cut at its calls of the central authentication service, of which
`live` says what its clients see. Requests of one execution wait for each other
(the conversation lock), those of two windows do not. `Respond` and
`ResponseLost` are the browser: the cookie changes when the response arrives,
in any order with the responses of other windows, or never. `End` is every end of an
execution; a renewal may end in one without a service ticket, for a service that
was unregistered. Credentials are left out: an authentication succeeds or fails.

### ClearPass

`password` and `userName` are the two uses of one cache: passwords by user, and
users by ticket id. `Authenticate` is the populator, in a login as well as in a
renewal; `MapTicket`, `AddTicket` are the steps of
`TicketRegistryDecorator.addTicket`, and `GetUserName`, `RemovePassword`,
`DeleteTicket` those of `deleteTicket`, in the code's order. `Evict` is the bound of the cache. `exposed` names the users for whom the
code makes no promise: a renewal has stored their password while the session was
being deleted or was another user's, or the name was evicted.

### LockingStrategy and ExclusiveLock

One row of the lock table and runs of the cleaner that contend for it. `acquire`
is the transaction `Query`, `Decide`, `Write`; what keeps transactions apart is
`Isolation`: the row lock of SELECT FOR UPDATE (and of JPA's pessimistic write),
which locks nothing while there is no row; SERIALIZABLE on SQL Server, which
turns a conflict into a failed transaction; nothing on HSQL. A
transaction that finds what it needs taken waits, or is given up (`Abort`).
`Write` fails when the INSERT meets a row. `Release` clears the row of its owner only.
`Crash` rolls transactions back and leaves the row. Dates are kept as the time
left, so the state space is finite; the nodes' clocks are one clock. `ExclusiveLock`
says that nobody acquires a lock that another holds, where holding ends with the
release, the crash or the lease.

### ServicesManager

`store` is the dao's ArrayList and `services` the manager's map. `save` and
`delete` run in one monitor and are cut between the list and the map (`SaveRemove`,
`SaveAdd`, `SavePut`; `Delete`, `DeleteRemove`); the reload (`LoadStart`,
`LoadNext`, `LoadEnd`, `LoadSwap`) runs outside it, so that its iterator may meet
a half-done save, or fail with a ConcurrentModificationException
(`modified`). The content of a service is its text, which determines its
`serviceId` and its name, and its evaluation order. Two details of the code matter
and are kept: entries are equal when
all fields but the id are (`RemoveEqual`), and services that tie in evaluation
order and name are one to a TreeSet (`Before`, `AllServices`), the one the iteration
over the map meets first. That iteration goes by hash; `Place` is its order, any
order, the same for every map. `Submit` is the form: the
validator looks before the monitor is entered. `UpdateEvaluationOrder` is the
request of a drag, which saves a clone without validating it. The list's accesses
are taken in one order that all threads agree on, which the code, without a lock,
only gets in practice.

### ServicesPage

The table in the browser over `ServicesManager`: `Table` is what `manage()` sends,
`rows` what the page has made of it since. A drag posts an evaluation order
counted from the one the target row *shows* (`EvalOrder`) and blocks the page
until the answer comes (`async: false`); `Moved` is the success callback, which
updates the cell, and what `geometricMove` does to the table (`MoveDom`, of the
Fluid library); `MoveFailed` is the error callback. `SwapButtonsForConfirm`,
`ResetOldValue` and `Yes` are the question before a delete. `Manager` is
everything else: the manager's own steps, and a form in another tab. `stale` names the
services that something else than a move of this page has changed since the page
was loaded, or whose answer was lost.

## 3. Runs

| Run | Instance | Shows |
|---|---|---|
| `cas_timeouts` | 1 session, 2 service tickets, 2 requests at a time, the cleaner, clock to 2 | `TypeOK`; `UsesBounded`: one-time tickets are used once; `SingleSignOut`: each application that got an assertion is told of the logout, once; `UsedUpTicketsLeave`, `ExpiredServiceTicketStaysExpired`, `ServicesStableDuringLogout` |
| `cas_proxy` | a proxy granting ticket, no timeouts | `DestroyInvalidatesDerived`: nothing derived from a destroyed ticket is alive; `ImplementsSingleSignOn` |
| `cas_cleaner` | 1 request at a time, proxy granting ticket, remember-me policy, fairness | `ExpiredTicketsLeave` (liveness) |
| `registry_memcached` | 2 ticket granting tickets (two sessions, or one and a proxy granting ticket), 2 service tickets, 2 requests at a time, 1 fault | `TypeOK`; `NoResurrection`, `NoAssertionAfterLogout`; `SingleSignOut` and `UsesBounded` for what no two requests have updated at once |
| `login_windows` | 2 windows, 3 sessions, 2 login tickets, captcha on | `TypeOK`; `NoOtherOrphans`: how a session can be left that no browser has the cookie of; `CaptchaGuardsSession`; `OneLoginPerTicket` |
| `validation_logout` | 2 service tickets, 2 validations at a time, lost messages, a shutdown, fairness | `TypeOK`; `LogoutClosesApplications`; `OneProxyGrantingTicketPerAssertion`; `LogoutComesToItsEnd` (liveness) |
| `clearpass` | 2 users, 3 sessions, 2 requests at a time, 1 eviction | `TypeOK`; `PasswordsGoWithSessions`; `SessionHasPassword` |
| `lock_jpa` | 3 nodes, lease of 2, one crash, fairness | `TypeOK`, `Exclusive`, `ImplementsExclusiveLock`, `OwnerKeepsLock`, `CleaningGoesOn` (liveness) |
| `services_reload` | 2 administrators, 3 changes, reload job, fairness | `TypeOK`, `QuietReloadAgrees`, `ReloadsConverge` (liveness) |
| `services_admin` | the page and a form of one administrator, 3 services of which two tie, 3 changes | `UniqueServiceIds`, `ServedIsStored`, `ShownIsStored`, `EvaluatedWhereDropped` |

Two runs end in a counterexample, each against a sentence of the repository:

| Run | The code | The sentence |
|---|---|---|
| `registry_proxies` | over memcached, without any fault or race: a service ticket is delegated, the session is logged out, and a service ticket of the proxy granting ticket is validated afterwards, because a granting ticket that is not stored counts as none | `CentralAuthenticationService`: "This has the effect of invalidating any Ticket that was derived" |
| `services_deleted` | the former version of an edited service stays in the list, and a reload brings it back after the delete | `ServicesManager`: "Delete the entry for this RegisteredService" |

Seen while modelling, and not the subject of a run:

  - two requests on a new session both read `countOfUses` = 0, and both get a
    ticket for an application outside single sign-on without a new login;
  - a session one request deletes as idle for too long is revived by a grant that
    had passed the same check before; a logout then finds no ticket, and the new
    service ticket stays valid. This is why `cas_proxy` has no timeouts;
  - on HSQL two clients of `JdbcLockingStrategy` read the free row and then both
    update it; `JpaLockingStrategy.release` throws when the lock has been taken
    over, where `LockingStrategy` says that nothing is done; two overlapping runs
    of one node share a `uniqueId`;
  - two login forms opened before either is submitted leave the session of the
    first live and without a cookie: `SendTicketGrantingTicketAction` ends the
    session of the cookie the flow began with, not of the one the browser has now;
  - a login form that was shown without a login ticket (a service outside single
    sign-on refused the session) is accepted without one;
  - a logout with a service parameter that may not be used, or whose session has
    timed out, throws before anything is destroyed;
  - a proxy granting ticket that was drawn for a ticket which then fails to
    validate stays in the registry until its session ends;
  - over memcached, updates of one ticket by two requests are lost: an
    application whose grant was overwritten is not told of the logout, a one-time
    ticket may be used by two requests at once;
  - ClearPass: a renewal during a logout leaves the password in the cache with no
    session to remove it, a second session of the same user loses it with the
    first;
  - a reload may publish a map that misses a service that is being saved; two
    administrators may each pass the validator with one service id; services that
    tie in order and name hide each other;
  - the error callback of a drag in `services.js` refers to an undefined variable,
    so the message that should say the row was not moved is never shown;
    `custom_login_demo/test.jsp` tests `!result.login == 'failed'`, which is never
    true, and takes a failed login for a success;
  - under the throttling policy a use that comes too early costs the session,
    because "not now" and "expired" are one answer.

### Bounds

Two requests at a time are enough for every race between two critical sections,
and the cleaner is a third process. Two service tickets of one session let one be
used while the other is granted or logged out. A proxy granting ticket needs a
second id of that kind; a longer chain repeats the same link. The clock runs to
the length of a window, so a window closes while requests are under way; windows
of one and two ticks put creation, use and expiry in every order.

Over the shared cache one fault suffices to put any single failure between two
steps; two ticket granting tickets are two sessions or a session and a proxy
granting ticket, as TLC chooses. Two windows are the least that race for the
cookie; three sessions let both log in anew after a first login; two login tickets
let a form be replaced by another in either window; two snapshots let a page be
gone back to after a failed login. Three sessions of two users are two of one and
one of the other. Three nodes let two contend while the third outstays its lease.
Three changes by two administrators make an edit, a delete and a save meet one
reload; three services, two of which tie in evaluation order, let a drag land
between two others, next to a tie, and next to a row that was moved before.

`MaxTime`, `Presented`, the id guards `StIdLeft`, `TgtIdLeft` and `IdLeft`,
`MaxFaults`, `MaxSnapshots`, `MaxEvictions`, `MaxCrashes`, `MaxChanges` and
`EvaluationOrder` are the bounds, and are named so where they are declared.

Deadlock is checked in the runs of the service with the default registry, of the
lock and of the reload. It is not in the others, where the system may stop: a
bound is reached (`registry_memcached`, `registry_proxies`, `login_windows`,
`clearpass`, `services_admin`, `services_deleted`), or the one session is over
and all its tickets are used (`validation_logout`).

### Fairness

`CentralAuthenticationService!Fairness` is weak fairness of the started requests
(threads of the container run) and of the cleaner (quartz fires again and
again). No call has to be started. `ServiceValidation!Fairness` is the same for
the requests and the logout that have started, and weak fairness of the attempt to
send each queued message, since the executor's threads run also after the
shutdown; nobody has to log in, log out or shut down, and no message has to
arrive. `LockingStrategy!FairSpec` adds weak fairness
of time and of each run; nothing is said of crashes. `ServicesManager!FairSpec`
is weak fairness of the submitted requests and of the reload job; it holds no
reload to an end without interference, which is why `ReloadsConverge` speaks of
the time after the last change.

## 4. Proofs

Assumptions are those named in the modules (`IdsAssumption`,
`RegisteredServicesAssumption`, `PolicyAssumption`, `LockAssumption`,
`RegistryAssumption`, `NothingAssumption`, `LoginAssumption`,
`ValidationAssumption`, `ClearPassAssumption`, `ServicesAssumption`,
`PlaceAssumption`, `TabAssumption`); TLC evaluates them on every run. Sets and settings are
otherwise arbitrary: a theorem that needs more says so under ASSUME, and this
section says why.

**Type correctness.** `TypeCorrect`: `TypeOK` is not inductive, for a step takes
`tgt[call[p].ticket]` and needs the ticket to be of the right kind. `TypeInv` adds
what a thread may hold where it is (`MayHold`). The same is true of the other
modules: `RegistryTypeCorrect`, `LoginTypeCorrect`, `ValidationTypeCorrect` and
`ClearPassTypeCorrect` rest on what their requests hold. `ServicesTypeCorrect` rests
on a count: a new id is one more than the highest in use, so ids stay within the
bound of `TypeOK` only because every save that makes one is counted in `changes`
(`IdInv`).

**One-time use and single sign-out.** `UsesAreBounded` and `LogoutIsCompleteAndOnce`
follow from one inductive invariant, `SafetyInv`:

  - `IssuedInv`: nobody holds a ticket that was not constructed, and links of
    constructed tickets lead to constructed tickets;
  - `MonitorInv`: one thread at a time is between `isExpired` and `isValidFor` of
    a ticket, or inside `expire` of one;
  - `UseInv`: each assertion counts as a use, and who is about to count one knows
    that one is left, by `MonitorInv`;
  - `LogoutInv`: the services map holds exactly the tickets granted; and once a
    session has been through `expire`, each of its tickets that gave an assertion
    *or is about to* has been logged out. The second half is what makes it
    inductive: a validation may have found the ticket alive before the flag went up.

`IterationIsSafe` proves `ServicesStableDuringLogout` from the same invariant: a
ticket in `expire` was constructed, so a new ticket is not it, and a grant waits
for its monitor. Lemmas `Quiet...` dispose of the steps that touch neither heap
nor history; there is one lemma for each of the others.

`UsedUpTicketsAreGone` is `UsedUpTicketsLeave`. A used up ticket in the registry has a
request in its finally block that is still to ask whether it has expired, or to
delete it (`UsedUpInv`). That an `AddTicket` cannot put one back is the other half of `LifeInv`:
a ticket on its way into the registry is known to the one thread that adds it, and
unused (`FreshInv`).

**Refinement.** `ServiceImplementsSingleSignOn` is `ImplementsSingleSignOn`: for any
number of tickets, applications and threads and any policy, every step of the
service is a step of `SingleSignOn` or none. A login and a delegation are `Open`, a
grant is `Draw`, a `ValidateCheck` that finds the ticket alive is `Spend`, the first
`expire()` of a session is `Close`, telling its services is `Tell`; `ValidateUse`
stutters, for the use it counts is the one that was spent, which `MonitorInv` makes
sure of. To `SafetyInv` it adds `ChainInv`: a constructed ticket hangs on constructed
tickets only, one that has not been constructed on none (so a token is drawn once),
and services are told only after the flag went up. A proxy chain matters here: a
token is spent only while *every* session of its chain is open.
`ClosedSessionsSpendNothing` brings the refinement back to the tickets: once the
flag of a session is up nothing drawn on it begins to be used, and assertions
never exceed the uses begun.

**Expiry and destroy.** `DestroyIsFinal` (`DestroyInvalidatesDerived`) and
`ServiceTicketsStayExpired` (`ExpiredServiceTicketStaysExpired`) are about the clock.
`AgingInv` says that no ticket was used before it was made or in the future, and
that chains are transitive; `LeavingInv` that a session is in the registry, on its
way there, or expired, so that a destroy that finds nothing has nothing to end.
Both theorems have a hypothesis, which their runs satisfy:

  - `ExpiryIsFinal`, under which an expired session stays so: a hard timeout, no
    timeout, or the shipped policy with its two limits equal (`cas_proxy`). Under a
    sliding window `DestroyInvalidatesDerived` is false. On the instance of
    `cas_timeouts` TLC refutes it in eleven states: a request finds the session idle
    for too long and deletes it, a grant that had passed its check before revives
    it, and the logout that follows finds no ticket and raises no flag;
  - for service tickets, also `SlidingWithoutProxies` (`cas_timeouts`): windows may
    slide when nobody proxies and a service ticket does not outlive the window of
    its session, which was last used when the ticket was granted, or later
    (`WindowInv`). The use of a proxy granting ticket does not touch the session
    above it, whose window may close and open again.

**The shared registry.** `HoldInv` says that what is stored was added, that a
request holds a ticket that was added, and that a ticket about to be added is
known to one request only. Every step but an addition is `Ordinary`: it stores
nothing under an id that was not added, and, with `replace`, nothing under one
that is not there. `LateUpdatesStoreNothing` is `NoResurrection` for
`WriteBack = "replace"`; for `"put"` it is false (the mutant `Update_Puts`).
The lookups in between are steps that change nothing but `asked`.
`LogoutEndsAssertions` is `NoAssertionAfterLogout`, with `replace` and
`needsCallback`: `GoneInv`, that a session a logout deleted is not stored, is kept
because of the former, and a validation cannot get past it because of the latter.
These are the settings of the memcached registry.

`UsesAreBounded` and `SignOutReachesAll` (`UsesBounded`, `SingleSignOut`) hold for
either way of writing and with or without the callback, of the tickets that are not
`conflicted`. `CountInv` counts: the assertions given for a ticket and the requests
about to give one are no more than the uses that are stored. `SignOutInv` relates
three places, the services map that is stored, the copy a request has, and the
messages sent: while a session is stored it lists all that was granted on it and
tells which of them have been sent a logout, and once it is deleted they all have.
Both need that a copy written back, of a ticket without conflict, is made from
what was stored. For the other tickets the code does lose updates (section 3).

**Validation and logout.** `LogoutLeavesNothingOpen`: by `LogoutInv`, services are
told only once the session has ended, when no assertion is given any more, and
what the application of a told service has open, or will open with a response
that is on its way, is in `queue`, `lost` or `overtaken`. `OneCallbackPerAssertion`:
by `RequestInv` the request that was granted the proxy granting ticket is the only
one that can call back, and does so after the assertion; `CallbackInv` says that no
callback was made for a ticket that was not delegated.

**Login.** `SecretInv` says that the ticket a request has just created is known
to nobody else, which is why ending or handing out another one does not touch it;
`OldInv` that the session an answer takes the cookie from has been ended; `RefusedInv`
that a refused session is nowhere a later step could take it from. `NoOrphansButTheDropped`
and `WrongCaptchaOpensNothing` follow from these. `LoginTicketsAreUsedOnce` needs
`LoginTicketInv`: a login ticket some window may still log in with is that window's
alone, and has led to no login so far.

**ClearPass.** `PasswordsAreRemoved` needs `PasswordInv`: a password that is not
exposed has a session of its user whose deletion has not reached it, or a login
that is about to have one; `PasswordsAreKept` needs `ThereInv`, its converse, for
every session from the moment its name is stored.

**The lock.** `LockTypeCorrect`; `LockIsExclusive`: if the platform keeps
transactions apart and no two runs share a `uniqueId` (`Separated`) the lock row
implements `ExclusiveLock`, for any number of nodes, crashes and any timeout;
`AtMostOneHolder` and `OwnerKeepsTheLock` (`OwnerKeepsLock`) follow. The invariant `LockInv` says that a holder owns the
row with its own lease, that what a transaction has read is still there, except
that it found no row FOR UPDATE, that at most one transaction has the row lock,
and that a transaction that means to write may. `Separated` excludes HSQL, where
two clients do acquire the lock, and overlapping runs of one node.

**The services manager.** `QuietReloadsAgree`: while nothing has changed since it
began, a reload holds what the part of the list it has read says (`QuietInv`).
`ServiceIdsStayUnique` and `ServedStaysStored` assume `OneAdministrator`: nobody
else between a look and a save, no reload, a configuration without conflicts, and no
name that is given to two service ids. TLC evaluates that assumption on the instance
of `services_admin`. Without it both fail: two administrators pass the validator with
the same service id; a reload in the middle of a save publishes a map without the
service; services that tie in order and name are one to the TreeSet, so that the
validator does not see the second. The invariant `OneInv` says what holds in between,
when the list has lost an entry the map still has: what is being saved conflicts
with none but itself, and every other service is in the list as it is in the map.
The point is `RemoveEqual`, which drops the first *equal* entry of a list that keeps
former versions: with service ids unique, that is never the current entry of
another service. The lemmas say which entry of a list counts when it is loaded, and
what dropping one does.

**The page.** `PageIsManager`: every step of the page is a step of the manager, so
that what is proved of the one holds under the other. `PageListsAllInOrder`: the table
has a row for each service a lookup iterates over, and of two rows the upper one's
service is asked first; it rests on `Before` being a strict total order on
`AllServices`, and on counting (the n-th row has n - 1 services before it).
`RowsShowWhatIsStored` and `DropsAreObeyed` follow from `PageInv`: a row that is not
`stale` shows the order that is stored, also while the answer to a drag is
outstanding, except for the row being moved, of which `PostedInv` says that what is
on its way, or has been put, is the order posted, and that this is next to what the
target shows. They need no assumption on other administrators or reloads, which
are what `stale` names.

Model-checked only:

  - liveness, and what rests on fairness, out of the prover's reach:
    `ExpiredTicketsLeave`, `LogoutComesToItsEnd`, `CleaningGoesOn`, `ReloadsConverge`;
  - the two counterexamples, `DerivedInvalidated` and `DeletedStaysDeleted`.

Every other property of a run has its theorem.

## 5. Plan

Every safety and action property of the runs has its theorem. What is left, most
important first:

 1. What delimits the counterexample of `services_deleted`: `DeletedStaysDeleted`
    where the list has one entry for each service, that is, none was edited. (For
    the other, `LogoutEndsAssertions` already does: of the chain of a ticket, the
    session it was granted on is never a destroyed one.)
 2. Over the shared registry, how far `SingleSignOn` is implemented by tickets that
    no two requests have updated at once.
 3. The order of handlers and resolvers in the authentication managers, against
    "some handler vouched for the principal"; the numeric generator with its
    wraparound; the throttle, if a configuration wires it.

## 6. Not modelled

  - **Login throttling** (`core/web/support/`): no configuration of this repository
    wires an interceptor of the family into the login, so there is no program that
    its rate boundary and its decrement job are part of.
  - **JPA service registry, `JpaTicketRegistry`, Ehcache registry**: not in the shipped
    configuration. What they add to the modelled ones is the isolation of the
    database, or the sharing of objects on one node; `WriteBack = "put"` has the
    race of Ehcache's late update.
  - **JMX bean of the services manager**: it makes the calls that the forms make.
  - **`ProxyController`**: one call of `grantServiceTicket`, which the service module has.
  - **Authentication handlers and protocol modules, REST, remoting, monitors, views,
    argument extractors, audit, aspects, certificate revocation**: adapters that make
    one call each, format, parse or observe; no state of their own that two requests
    change in more than one step.
  - **Authentication managers, id generators**: sequential; the service uses their
    results (what credentials resolve to, fresh ids).
  - **Browser libraries**: of the application's scripts, `services.js` and `cas.js` are
    modelled. Nearly all the other JavaScript in the tree is third-party and comes
    twice, once under `cas/`: Fluid Infusion (`MyInfusion.js`, 25151 lines in each
    copy), the themes `metronic.js` and `layout.js`, and `messenger.js`. Of Fluid the
    page relies on `geometricMove` only, which `MoveDom` models; the themes draw
    menus and resize panels, and keep nothing the server or the page depends on.
    They say nothing about single sign-on, and a model of them would be one of a
    different program.
