CONSTANTS
    owner = owner
    alice = alice
    bob = bob
    root = root
    Users <- MCUsers
    Sponsors <- MCSponsors
    Admins <- MCAdmins
    Roots <- MCRoots
    Projects = {p1}
    Challenges = {c1}
    Disputes = {d1}
    PullRequests = {pr1}
    RewardQuotas = {2}
    SlotCounts = {1}
    FeeRates = {0, 5000}
    TipQuotas = {1}
    RatingScores = {4}
    AppealWindow = 1
    MinWalletQuota <- MCMinWalletQuota
    MaxWalletQuota = 6
    InitialQuota <- MCCappedQuota
    Revocable = {alice, root}
    MaxTime = 1
    None = None
SPECIFICATION Spec
CHECK_DEADLOCK FALSE
INVARIANTS
    TypeOK
PROPERTIES
    DeletedWalletsFrozen
