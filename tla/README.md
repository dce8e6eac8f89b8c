# A TLA+ model of the Coop-OS backend

The repository is a NestJS backend for cooperatives: members register, pay a
fee, save into wallets over virtual bank accounts, move money between wallets
and ask for loans that several administrators have to approve. It keeps its
state in PostgreSQL through TypeORM, has no tests and few documents, and serves
every HTTP request in an asynchronous handler of one Node process: handlers
interleave at every `await`, and what keeps them apart is only what they ask of
the database. This directory models the parts in which that matters, checks the
models with TLC and proves with TLAPS, for every component that is modelled, that
the invariants TLC checks on small instances hold for instances of any size.

All paths below are relative to the repository (`src/...` is its source
directory; in `PROJECT.json` it appears as `src/src/...`).

## 1. Inventory

| Component | State | Operations | Talks to | What is hard, and what must hold |
|---|---|---|---|---|
| Wallet operations (`src/wallet`) | rows of `wallets`, `transactions`, `ledgers` | deposit, withdraw, transfer, create, update, remove | OTP, notifications, security alerts | row locks in conflicting order, statements that fail after others, a second connection while one is held, rounding to DECIMAL(15,2). No lost update, books that agree with balances, all or nothing |
| Ledger (`src/ledger`) | `ledgers` | statement of a wallet | wallets | the statement shows the balance |
| Paystack credit (`src/paystack/virtual-account.service.ts`, webhook controller) | `virtual_accounts` (several rows per user), wallet, member savings | webhook, creditWallet | wallets, notifications | repeated and concurrent deliveries, a read outside the transaction. Each payment counted once everywhere |
| Virtual accounts (same file, `paystack-config.service.ts`) | `virtual_accounts`, settings | provision, request, activate, update settings | Paystack, Parallex | a row found first and saved last, two gateways, answers that get lost. Nobody's number leads to somebody else |
| Registration fee (`src/paystack/payment.service.ts`) | `members.has_paid...`, `transactions`, Paystack's references | initialize, verify, webhook | Paystack | an outside service that answers late or never, an error caught inside a transaction. Paid exactly when a payment was confirmed |
| Approvals (`src/approval`) | `approvals`, `approval_logs` | process, create, advance (approve, reject) | loans, members, programmes, organisations | decisions on stale copies, no transaction, bodies saved as they are. Executed only with all levels |
| Loans (`src/loan`) | `loans` | create, request, approve, reject | approvals | loan and workflow are changed by two services |
| Registration and tokens (`src/auth/auth.service.ts`, `src/token`) | `users`, `members`, `tokens` | sell a token, register, Google, emergency fix | Monnify, approvals, Parallex | check-then-act on tokens and emails, a mark committed apart from the transaction. A token registers one member |
| Accounts (`src/auth/auth.service.ts`) | one row of `users` | login, Google, refresh, logout, forget, reset, change, profile | mail | whole rows saved from stale copies. Nobody is locked out early, what is void stays void |
| One-time codes (`src/notification/otp.service.ts`) | `otp_codes` | generate, verify | notifications | attempts and status written back from copies. A code opens once |
| Parallex (`src/parallex`) | `transactions`, `virtual_accounts`, wallets | payments, accounts, payouts, reports of both | Parallex | insert outside and again inside a transaction, reports repeated and out of order, crashes between asking and writing |
| Groups (`src/group`) | member savings and telephone numbers, `transactions` | upload of what was written down offline | — | reads without locks, updates with them, deadlocks. Nobody has saved more than is booked |
| Organisations (`src/organisation`) | `organizations`, their administrators (organisation and role of `users`) and accounts | create, create below a partner, update, remove; profile and update of users | Parallex | a creation in many statements, updates from stale trees. The hierarchy that registration and approvals rely on |
| Messages (`src/email`, `src/notification`, `src/services`) | `email_logs`, `sms_logs` | trigger, queue, the job every 30 s, retry | mail server, text message providers | overlapping runs. Queued mail is tried, rows tell the truth |
| Everything else (banks, contributions, support, audit, reporting, tours, configuration, dashboards, guards, filters) | single rows | create, read, update | — | no interaction between operations |

## 2. Plan

Done: the wallet core with its abstract specification, refinement and proofs;
`PaystackCredit` and `VirtualAccounts`; `RegistrationFee`; `Approvals` and `Loans`;
`Registration` and `Accounts`; `OneTimeCodes`; `ParallexPayments`; `GroupSync`;
`Organisations`; `Messaging`.

Left, and why it comes last: `create`, `update` and `remove` of wallets (single
statements, and one unlocked read and save of the kind `PaystackCredit` already
shows), bank accounts and contributions (single rows).

Every invariant and action property of the passing runs is also proved (section
5); what stays with TLC is liveness and the counterexamples. None of the modules
has a RECURSIVE operator.

## 3. Modules

**`Money`** — amounts. Columns are DECIMAL(15,2), the code computes with
JavaScript numbers and no DTO limits decimals. The unit is half a kobo: an odd
number lies between two values a column can hold. `Column(x)` is what a column may
hold after the computed number `x` was written (binary floating point decides to
which side a half falls), `Stored` what happens to a submitted amount, `Fits` the
range of the column.

**`Bank`** — the abstract specification of the wallets: every order is settled at
most once, in one step, and moves its amount between the wallets it names.

**`WalletService`** — `transfer`, `deposit`, `withdraw`. One action per `await`:

| action | code in `wallet.service.ts` (transfer) |
|---|---|
| `Submit` | controller, guards on amount and OTP (43-49) |
| `Begin` | query runner, connection, BEGIN (51-55) |
| `LockSource`, `LockDestination` | `findOne` with `pessimistic_write` (57-64) |
| `Reject`, `Compute` | the checks and the new balances (66-74) |
| `SaveSource`, `SaveDestination`, `DestinationOverflows` | `save(wallet)` (76-77) |
| `InsertTransaction`, `TypeRejected` | the transaction row (79-95) |
| `InsertLedger` | ledger and audit rows (97-122) |
| `Commit`, `Alert`, `Rollback` | commit, alerts, catch and finally (124-156) |
| `DeadlockVictim`, `Crash` | PostgreSQL and the environment |

`balance` is the committed table, `dirty` the versions a session has written and
not committed, `mem` the entities in memory, `lock` the row locks. PostgreSQL is
modelled from how the code uses it: a lock lasts until the end of the
transaction, a failed statement aborts it, a cycle of waits has a victim.

**`PaystackCredit`** — extends `WalletService`: a webhook delivery is a further
session (`Hook`) among the requests. It has an action per statement of
`creditWallet`, in which the wallet is read on a second connection (`FindWallet`)
and `UpdateWallet` waits for the row but does not look at it. A user may have
several rows of `virtual_accounts` (`Row`; `user_id` is not unique), which are
locked each on its own (`accountLock`); a member's row is locked by who has saved
it (`SavedMember`). The unique reference `PAYSTACK-<id>` is `Reference`.

**`VirtualAccounts`** — `provision`, `requestAccount` and `activate`, for a user,
at Parallex or Paystack, while an administrator changes the settings. `FindRow`
finds any row of the user, `SaveOpened` and `SaveParallexRow` save the copy long
after. A member's own request carries an undefined id: TypeORM drops such a
condition, so that `RowsFor(Someone)` is every row.

**`RegistrationFee`** — three kinds of calls; Paystack is `gateway` and `payer`,
paying is `Pay`. A gateway that is switched off, or answers with an error, is the
last alternative of `AskPaystack`. The webhook does not look at the amount: the
charges of the fee (`Ref`) carry the one the backend asked for, other payments
(`Foreign`) may be too small (`Short`). `InsertFee` and `CommitAborted` have what
PostgreSQL does when a failed insert is caught inside the transaction: COMMIT
rolls back silently.

**`Approvals`** — `advance` as load, save, log, apply, each on its own, since the
code uses no transaction. `copy` is the entity a decision was made on.
`POST /approvals` saves its body unvalidated: `PostApproval` creates an approval
with any level, length and status the body gives (`Given`), or overwrites the one
whose id it names, and `forced` remembers what was set so. What an approval is
about may be approved from its birth (`Newborn`: a member with a token, an
organisation), become active otherwise (`ActivateMember`), or get an old status
back from a copy of the row (`LoadMember`, `SaveMember`, `held`). Sending
notifications and provisioning the virtual account of a new member are left out
(their errors are caught, or they come after everything the properties speak of).
**`Loans`** extends it with the loan desk: `approveLoan` and `rejectLoan` write the
loan (`WriteLoan`) before they look for its approval (`FindPending`) and decide that
one like any session. No money moves: `WalletService` is looked up under a token
it is not registered under.

**`Registration`** — `verifyAndGenerateToken` and `register`. What the open
transaction has inserted is invisible, so `Create` changes nothing that other
sessions see; `MarkToken` does, before `Commit`. Beside it stands what else creates
users (`RegisterByGoogle`, `FindGoogle`, `CreateGoogle`) or marks them or their
members as having paid (`EmergencyFix`, which asks for no login, and `PayFee`, the
outcome of `RegistrationFee`): `userPaid` and `memberPaid` are the two flags,
`settled` remembers who was marked so. The connection pool is modelled in the
wallet modules only.

**`Accounts`** — everything a user does to its own row after registration.
`ValidateUser`, `Compare`, `ResetCount`, `CountFailure`, `Sign` and
`GenerateRefreshToken` are the steps of a login; `ChangePassword` and
`UpdateProfile` end in a save of the whole row (`SaveUser`). `history` remembers
what a sequence of requests should have left.

**`OneTimeCodes`** — `generateOtp` (`Invalidate`, `Insert`) and `verifyOtp`
(`FindCode`, `SaveVerdict`); `Verdict` is what becomes of the row.

**`ParallexPayments`** — every operation as asking Parallex and writing down, with
a crash or a lost answer between the two; reports (`ReportPayment`,
`ReportDeposit`) may come at any time and again. `CreditWallet` always fails: it
inserts a reference that `Book` has inserted.

**`GroupSync`** — `syncData` as a transaction under READ COMMITTED: `ReadRow`
takes no lock, `CompareRow` and `UpdateRow` are TypeORM's save, which reads the row
again and waits for its lock; `Visible` is what a transaction sees.

**`Organisations`** — `create` statement by statement (`InsertOrg`,
`FindExisting`, `InsertAdmin`, `SaveRepresentative`, `AskParallex`,
`SaveOrgAccount`), `update` as `Update` and `SaveUpdate`. A creation may name a
representative, and so may an update. A user moves to another organisation in its
profile (`UpdateProfile`, which saves the row twice), and a super admin changes its
role, email or telephone number (`UpdateUser`; the validation of `PATCH /users/:id` lets no
organisation through: `UpdateUserDto` has no such field and `main.ts:33` strips
what a DTO does not name), both by a load and a save of the row (`SaveUser`). `hired`,
`edited` and `assigned` remember what was created, changed and named. Foreign keys are
`Accepted`. `PublicSubOrgs` and `ApprovalChain` are what registration and the
approval engine compute from the hierarchy.

**`Messaging`** — `trigger` for the two channels that leave traces (a text message
is handed to a provider, `AskProvider`, and counts as sent after any answer that is
no HTTP error, or is simulated where none is set up, `SimulateSms`), the job
(`ProcessQueue` takes rows; `LoadMail`, `SendMail`, `SaveMail` for each), the
administrator's retry (`LoadRetry`, `SaveRetry`).

What TypeORM is taken to do, in all modules: `save` of a loaded entity reads the
row again and writes the columns (and, for a loaded one-to-many relation, the
foreign keys of the children) in which the entity differs from it; a row that is
gone is inserted again; where a relation is loaded, the plain column of its
foreign key is ignored; a condition that is undefined is left out. The schema is
the one the entities and the seed make, except that `requestLoan` is taken to
succeed although it gives no `organisationId` (`loan.entity.ts:44`).

`MC...` modules hold the model values, requests and symmetry of the runs. Where
components share no variable, one run has several of them: the variable `part` says
which one a behaviour is of, and the others stay in their first state.

| Root | Parts |
|---|---|
| `MCWalletService` | `WalletService` |
| `MCVirtualAccounts` | `PaystackCredit` (with `WalletService`), `VirtualAccounts` |
| `MCEventually` | `PaystackCredit`, `Messaging` |
| `MCRegistrationFee` | `RegistrationFee`, `ParallexPayments`, `GroupSync`, `Organisations` |
| `MCLoans` | `Loans` (with `Approvals`), `OneTimeCodes` |
| `MCRegistration` | `Registration`, `Accounts` |

The `...Proofs` modules hold the theorems of section 5. Those that prove what a run
says of several components extend the root of this run, so that one theorem can
say that a behaviour of the run is a behaviour of each of its parts.

| Proof module | About |
|---|---|
| `WalletServiceProofs` | `WalletService`, refinement of `Bank` |
| `VirtualAccountsProofs` | `VirtualAccounts`, `PaystackCredit`, and `MCVirtualAccounts` |
| `RegistrationFeeProofs` | `RegistrationFee` |
| `OrganisationProofs` | `Organisations`, `GroupSync` |
| `ParallexPaymentsProofs` | `ParallexPayments`, and `MCRegistrationFee` |
| `LoansProofs` | `Approvals` and `Loans` |
| `NotificationProofs` | `OneTimeCodes`, `Messaging`, and `MCLoans` |
| `AuthServiceProofs` | `Registration`, `Accounts`, and `MCRegistration` |

## 4. Runs

Each takes between a few seconds and three minutes with two workers.

| Run | Instance | Shows |
|---|---|---|
| `wallet_mixed` | 3 requests of 12 kinds, 3 wallets (one without a row) | type and value ranges, no lost update, lock discipline, statements, books, answers, conservation of money up to rounding, refinement of `Bank` |
| `paystack_mixed` | 2 deliveries of 4 events into 3 accounts of 2 users, 1 request | `SavingsMatchBooks`: savings count every booked event once, as long as the user has one wallet; `NoLostUpdate` of requests with deliveries among them |
| | 3 requests for accounts, 2 users, 2 numbers | `NumbersAreOfTheirUser` however they overlap, `AccountIsKept` if they do not |
| `paystack_answered` | 2 opposite transfers, 1 delivery, 4 connections | liveness, `Answered`: everything in flight ends |
| | 2 messages, 2 overlapping runs of 1 or 2 mails, 1 retry or restart | `RowsTellTruth`; liveness, `QueuedMailIsTried` |
| `fee_mixed` | 3 calls, 2 members, 2 own and 2 foreign payments | `PaidIsConfirmed`, `PaymentUsedOnce`: nobody is marked as paid at Paystack without a row for a confirmed, sufficient payment that is not somebody else's, and no payment has two |
| | 2 slots, 2 owners, 2 numbers, a payment, a payout, a deposit | `RecordsHappened`, `NumbersReachOwners` |
| | 2 uploads of up to 2 items, 2 members | `SavingsWithinBooks`, `SyncsInTurnAgree` |
| | 3 requests (creations, updates of organisations, profiles and users), 4 organisations and 4 administrators with the seed's | `OrgTypeOK` (foreign keys), `SubOrgsStayUnderPartner`, `LoginsDistinctInTurn`, `CompleteHaveAdmin`, `RepresentativesAreTheirOwn` |
| `approvals_mixed` | 3 decisions on one approval of up to 3 levels, posted by 5 kinds of bodies or started by the code | `ExecutedNeedsAllLevels`, `TargetNeedsAllLevels`, `DecisionIsLogged` |
| | 2 slots, 2 codes, 2 attempts | `CodesOpenOnce` |
| `registration_mixed` | 3 calls (sales, registrations, Google), 2 payments, 2 tokens, 2 emails, emergency fixes and fees | `RegisteredTokensAreUsed`, `TokensArePaid`, `WorkflowsHaveMembers` |
| | 2 slots, 2 passwords, a lock after 2 failures, 2 tokens or links | `LockNeedsFailures`, `SeenLockHolds`, `SequentialCallsAgree` |

Each passing run also checks the types of its modules (`TypeOK`, `MixedTypeOK`,
`PaymentTypesOK`, `OrgTypeOK`).

Several properties are about requests that come one after the other (`apart`,
`inTurn`, `inLine`, `lapped`, `history.overlap` say whether they have): the code
takes no locks there, and with overlap they fail. That is where a long sequence of
legal calls, with crashes between their statements, is still hard to test.

Findings, each a run that TLC ends with a counterexample:

| Run | What happens |
|---|---|
| `wallet_self_transfer` | a transfer from a wallet to itself creates money |
| `wallet_pool_exhausted` | transfers that alert while holding their connection starve each other for ever |
| `paystack_lost_credit` | of two concurrent payments both are booked and one reaches the wallet |
| `fee_verified_unpaid` | a normal payment is answered as paid and recorded nowhere |
| `approvals_final` | a decided approval is decided again |
| `registration_token_twice` | two members register with one token |

Bounds. Sessions do not influence each other except through rows they both touch;
a lost update, a deadlock or a double insert needs two, a third is there to come
in between (another update between read and write, a deadlock with a bystander,
a transaction committed between two checks). In the modules with sessions,
clerks, desks and uploads each serves one call: a second call would find the same
tables as a new session's. In `Accounts`, `OneTimeCodes` and `ParallexPayments` a
slot serves one request after the other without a bound, and what grows is
bounded instead (`MaxIssued`, `MaxCodes`, the numbers and references there are).
Three decisions on at most three levels let one approval be lost on a chain of two,
or be given twice. `POST /approvals` names an existing approval once at most, with
the type and the row it has; a row has one approval, and one stale copy of a
member is kept at a time: a second of any of them leaves only what the first can.
Balances are small, with a column limit close enough that one deposit or
credit overflows, and amounts include zero and a fraction of a kobo. The code's
limits of three and five wrong attempts are two, so that reaching, passing and
resetting them takes few steps. Three requests on organisations are a creation
below the partner, another change and a removal in any order and overlap; the
two users of the seed are neither removed nor changed, since they send the requests.
Three calls of `Registration` are two that race for one token, email or payment and
one that buys or comes in between. In `paystack_mixed` the first user has two
accounts, each with an event of its own, and may have a wallet or none: two
deliveries run side by side on two rows. The second user is not the owner of the
first wallet and has a member; it gets the credit that overflows a column and the
event that is ignored.
In `paystack_answered` everybody has a member, without which one check less can fail.
Symmetry is used over sessions (and tokens, emails, members) in runs with
invariants or action properties only, and never with liveness.

Fairness. `WalletService!Fairness` and `PaystackFairness` assume weak fairness of
the next step of each request and delivery that is under way: Node resumes every
handler whose promise is settled, PostgreSQL grants a lock that is free and aborts
one member of a deadlock, the pool hands out a connection that is free. Each is
enabled continuously once it is enabled (locks and connections are held by
sessions that only finish), so weak fairness is enough. `MessagingFairness` assumes
the same of the runs of the mail job, and that the scheduler starts them: the cron
expression fires every half minute for as long as the server is up. Clients need
not call anything, nobody has to retry, nothing has to crash, and a crash ends
what was in flight.

## 5. Proofs

Each theorem below is `THEOREM ... == Spec => []Property` (or, for an action
property, `Spec => Property`) for the specification of its module, for any sets of
sessions, rows and values its assumptions allow. Behind each stands one inductive
invariant per component, with a lemma that it holds initially, one that every
step preserves it (one case per action) and `PTL` to combine them. Where a checked
property was not inductive, what it was strengthened by is the reason why the
code is right; the tables name it. The strengthened invariants were checked with
TLC on the instances of section 4 before they were proved.

### Wallets: `WalletServiceProofs`

| Theorem | Property |
|---|---|
| `TypeCorrect` | `TypeOK` |
| `NoUpdateIsLost` | `NoLostUpdate` |
| `LocksAreDisciplined` | `LockDiscipline` |
| `BooksAlwaysAgree` | `BooksAgree` |
| `AnswersTellTheTruth` | `AnswerTellsTruth` |
| `StatementsMatchBalances` | `StatementMatchesBalance`, if no request names one wallet twice |
| `WalletServiceIsABank` | `Spec => Abstract!Spec`, if no request names one wallet twice |
| `MoneyIsConserved` | `TotalExplained`, if no request names one wallet twice and wallets are finitely many |

`TypeInv` adds to `TypeOK` what a request looks like by the step it is at
(`RequestInv`, `MemInv`). `NoLostUpdate` is not inductive: that nobody changes a row
a request has read follows from `LockDiscipline` (it holds the lock) together with
`DirtyInv`, which says exactly which row versions a session has written at each
step; the three together with `TypeInv` are `SafetyInv`. `BooksInv` adds that a
request is booked if and only if it has committed. The refinement needs one more
fact, `FitsInv` (a saved balance fits its column): then a `Commit` is a step `Settle`
of the bank and every other step a stutter. `DistinctEnds` is assumed where a
transfer to the same wallet would break the statement; `wallet_self_transfer` shows
that it does.

`TotalExplained` equates sums: what the wallets hold, and what the ledger explains.
A commit is the only step that changes either. `CommitChangesTotal` says that the
sum over the wallets changes by what the rows of its two ends change by,
`CommitIsExplained` that its ledger entry explains this change but for a kobo when
the amount is not whole (both rows round on their own, and the entry rounds
once more), and `CommitSlack` that such a commit adds this kobo to the slack.

The sums themselves are `SumFunctionOnSet`, whose fold the library defines by
`CHOOSE` of a recursive function. A section of lemmas shows that there is such a
function and only one on the subsets of a finite set (`SumExists`, `SumsAgree`), and
from it what the proofs cite: `SumTakeOne` (any element may be taken first),
`SumOneChanged`, `SumOneMore`, `SumIsInt`, `SumSame`, `SumEmpty`. The induction they
need is over the subsets of the given set: `SubsetInduction` is stated for a set of
subsets instead of a predicate, so that provers can use it, and rests on the
theorem that the strict subset order of a finite set is well founded.

### Payments and accounts: `VirtualAccountsProofs`

| Theorem | Property | Beyond the property, the invariant says |
|---|---|---|
| `PaymentTypes` | `PaystackTypeOK` | what a delivery knows, by the step it is at (`HookOK`); which rows are new |
| `PaymentsLoseNoUpdate` | `NoLostUpdate` under `PaystackSpec` | a delivery writes only a row it has locked or inserts a row of its own (`NewApart`), and only rows that exist are locked (`LocksExist`): it never touches a row a request has read |
| `PaymentsAreBookedOnce` | `BooksAgree` under `PaystackSpec` | a delivery about to commit has a reference that is not booked, and no other delivery is about to book it (the unique key) |
| `SavingsAreWhatIsBooked` | `SavingsMatchBooks` | the account a delivery has read is within what is booked on it; as long as its user has no other wallet (`Alone`), a delivery that has read the savings has read those in the table (`CreditSaves`), because it holds the wallet, or has inserted the first |
| `LocksAreDisciplinedWithPayments` | `LockDiscipline` under `PaystackSpec` | a delivery holds its wallet from the update on, and the account row it credits after that (`LocksInv`) |
| `StatementsMatchWithPayments` | `StatementMatchesBalance` under `PaystackSpec`, if no request names one wallet twice | |
| `AnswersTellTheTruthWithPayments` | what `AnswerTellsTruth` says, of the requests under `PaystackSpec` | |
| `RequestsKeepBalancesExplained` | `BalanceIsSumOfEntries` under `Spec`, if no request names one wallet twice and amounts are whole kobo | |
| `AccountTypes` | `VaTypeOK` | what a request has found (`ErrandInv`) |
| `NumbersReachTheirUser` | `NumbersAreOfTheirUser` | the same of what requests have found and opened (`OwnInv`) |
| `AccountsAreKept` | `AccountIsKept` | of requests in line one at most is under way, and what it did not find is not there (`LineInv`) |
| `VirtualAccountTypes` | `MixedTypeOK` of the run | |

`PaystackSpec` is not an instance of `Spec`: the proof about `PaystackCredit` cites
the lemmas of `WalletServiceProofs` about operators, and proves the invariant anew
with deliveries among the requests. That booking holds although the wallet may lose
a payment (`paystack_lost_credit`) is no contradiction: the books have both. The
theorems say where that loss comes from and where it shows.
`RequestsKeepBalancesExplained`: as long as only requests move money every wallet
holds what its entries add up to, so that a delivery is to blame.
`StatementsMatchWithPayments`: the last entry of every wallet shows what its row
holds even after a loss, so that a statement does not show it; only the sum of
its entries would. `SavingsAreWhatIsBooked`: while a user has one
wallet, the savings of its member never lose anything, for any number of
overlapping deliveries of any events into any of its accounts, and a virtual
account, computed from what was read before the transaction, may only lag behind.
The reason is the lock of the wallet: every delivery to the user updates it, hence
holds it, before it reads the member and until it commits, and the unique
reference rolls a repeated event back together with all it has written. The lock
of the account row would not do, since two deliveries may credit two rows. Nor does
the wallet where there is none yet: two deliveries to a user without a wallet
insert one each, wait for nothing, and the second overwrites the savings the first
has written. TLC reaches that state in `paystack_mixed`; the property excepts it by
`AtMostOneWallet`.

### Fee, Parallex, groups, organisations

| Theorem (module) | Property | Beyond the property, the invariant says |
|---|---|---|
| `FeeTypes` (`RegistrationFeeProofs`) | `FeeTypeOK` | |
| `PaidMembersPaid` | `PaidIsConfirmed` | whoever is about to be marked as paid has a confirmed payment (`ConfirmedInv`); the status of its row is not claimed, since a late verification may still overwrite it |
| `PaymentsUsedOnce` | `PaymentUsedOnce`, for a finite set of references | no two rows share `REG-FEE-<ref>`, and a reference being issued is nobody else's (`UniqueInv`); then counting by an injection |
| `ParallexTypes` (`ParallexPaymentsProofs`) | `ParallexTypeOK` | what each slot has asked for and is told (`TaskInv`) |
| `OnlyWhatHappened` | `RecordsHappened` | a report finds only what is recorded (`FindableInv`) |
| `OwnersCanBePaid` | `NumbersReachOwners` | a number on its way into a row is its owner's and in no other place (`HoldingInv`) |
| `PaymentTypes` | `PaymentTypesOK` of the run | |
| `GroupTypes` (`OrganisationProofs`) | `GroupTypeOK` | |
| `SavingsAreBooked` | `SavingsWithinBooks` | what an upload has read or written is within what it knows to be booked |
| `UploadsInTurnAgree` | `SyncsInTurnAgree` | the one upload that runs sees just what is booked (`Exact`) |
| `KeysHaveRows` | `OrgTypeOK` | what a request has written or loaded (`PaperOK`) |
| `OwnRepresentatives` | `RepresentativesAreTheirOwn`: unless a request has named one, or it has moved itself | the same of representatives and users that were loaded and are yet to be written |
| `LoginsStayDistinct`, `AdminsStay`, `SubOrgsStay` | `LoginsDistinctInTurn`, `CompleteHaveAdmin`, `SubOrgsStayUnderPartner` | as long as requests come one after the other, what a creation or a change of a user has done so far (`TurnInv`) |

### Approvals, codes, messages, accounts

| Theorem (module) | Property | Beyond the property, the invariant says |
|---|---|---|
| `ApprovalTypes` (`LoansProofs`) | `ApprovalTypeOK`: only a body can put an approval beyond its last level | what a session knows, by the step it is at, and that its copy is in range unless a body has set the approval (`SessionInv`, `NewInv`) |
| `ExecutedAfterAllLevels` | `ExecutedNeedsAllLevels`, unless the approval is `forced` | stale copies may set the level back but never ahead: each level below the current one, and below the one a session believes in, has been granted (`LevelInv`) by sessions that decide on nothing else (`GrantedInv`) |
| `TargetsAfterAllLevels` | `TargetNeedsAllLevels` (action), unless `forced`, and but for a member whose old copy is saved | the same |
| `DecisionsAreLogged` | `DecisionIsLogged` (action), of what is decided after the birth of a row | whoever is about to apply a decision has logged it (`LogInv`) |
| `CodeTypes` (`NotificationProofs`) | `CodesTypeOK` | |
| `CodesAreOpenedOnce` | `CodesOpenOnce` | one request at a time, whose copy is its row, and rows that know every guess (`InTurnInv`) |
| `RowsAreTrue` | `RowsTellTruth` | what a call or run is about to write is true as well (`CallTrue`, `RunTrue`); for a text message, that a provider took it or that it was simulated |
| `WorkflowAndCodesTypes` | `MixedTypeOK` of the run | |
| `RegistrationTypes` (`AuthServiceProofs`) | `RegTypeOK` | |
| `TokensOfUsersAreSpent` | `RegisteredTokensAreUsed` | a transaction about to commit a user has its token marked (`MarkInv`) |
| `EveryTokenIsPaid` | `TokensArePaid` | Monnify has confirmed by the time a token is looked for or saved (`PaymentInv`); a user who counts as paid, and whose flags no fee or fix has set, has committed with a token (`FeeInv`) |
| `NoWorkflowWithoutMember` | `WorkflowsHaveMembers` | the member was committed before (`MemberInv`) |
| `AccountsTypes` | `AccountsTypeOK` | |
| `LocksAreEarned` | `LockNeedsFailures` | the failures account for every copy of the row, and one about to be counted is among them (`Justified`, `CountOK`) |
| `CallsInTurnAgree` | `SequentialCallsAgree` | the copy of the one request is the row, but for the password it changes (`SequenceInv`) |
| `SeenLocksHold` | `SeenLockHolds` (action) | the types |
| `AuthServiceTypes` | `MixedTypeOK` of the run | |

### Assumptions

The theorems assume of the constants what the modules' `ASSUME`s say, which TLC
evaluates in every run: that null values (`Null`, `NoProc`, `NoNumber`, `Absent`,
`Unwritten`) are none of the values they stand beside, that references of different
kinds differ as their prefixes make them differ in the code, that limits are
natural numbers. Some theorems have a hypothesis of their own: `PaymentsUsedOnce`
that the references are finitely many (it speaks of their number);
`MoneyIsConserved` that the wallets are (their balances are added up); `DistinctEnds`
(no request names one wallet twice) that theorem, the refinement, and those about
statements and about the sum of a wallet's entries; `WholeAmounts` the last of
these, because each row and each entry rounds on its own. `SavingsAreWhatIsBooked`
has none: that the booked events are finitely many is proved, by an injection into
the ledger.

### Only model-checked

- `Answered` and `QueuedMailIsTried`: liveness under fairness.
- The findings: a counterexample is one behaviour of one instance.

## 6. What is not modelled

- `create`, `update` and `remove` of wallets, `disburseLoan` and repayments (no code
  reaches the disbursement), the draft stored with a token, `updateMemberRole`,
  `markAttendance`, `suspend` of an organisation (nothing calls it; `activate`
  is what an approval does in `Approvals`), users that a super admin creates
  (`POST /users`), logins of administrators that registration would take.
- At Parallex and Paystack: requests that store nothing (banks, name enquiry,
  statements, external payments), and the verification of a BVN, whose
  controller passes an id the JWT strategy never sets.
- Services that only relay or read: Monnify's client, transaction queries,
  dashboards, reports, audit, support. Storage of single rows: bank accounts,
  contributions, tours, configuration.
- In the modelled parts: wording of messages and audit details, HTTP, validation of
  DTOs beyond what reaches the modelled code, permissions. A caller may be anyone.
- Hashing (equal passwords are equal), random codes and references (taken to be
  fresh), clocks (what expires may do so at any time).
- A database that fails while it is in use, except where a statement's failure is
  named: the error surfaces in the handler and ends it.
- The order in which a statement lists entries (`ledgers.created_at` is the start
  of a transaction, so that two concurrent movements may be listed in the other
  order than they were committed): `StatementMatchesBalance` speaks of commit order.
