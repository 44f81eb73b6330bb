CONSTANTS
    owner = owner
    alice = alice
    bob = bob
    root = root
    Users <- MCUsers
    Sponsors <- MCSponsors
    Admins <- MCAdmins
    Roots <- MCRoots
    Projects = {p1}
    Challenges = {c1, c2}
    Disputes = {d1, d2}
    PullRequests = {pr1}
    RewardQuotas = {2}
    SlotCounts = {1, 2}
    FeeRates = {5000}
    TipQuotas = {}
    RatingScores = {}
    AppealWindow = 1
    MinWalletQuota <- MCMinWalletQuota
    MaxWalletQuota = 10
    InitialQuota <- MCInitialQuota
    Revocable = {}
    MaxTime = 0
    None = None
SPECIFICATION Spec
SYMMETRY Symmetry
CHECK_DEADLOCK FALSE
INVARIANT AppealOutlivesClose
