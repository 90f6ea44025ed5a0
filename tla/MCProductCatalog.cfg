\* Requests that overlap as they like, and one fault; or four categories.
CONSTANTS
    Request = {r1, r2, r3}
    Category = {c1}
    CategoryId = {1, 2, 3, 4}
    Seller = {s1}
    Body = {"9.99", "9.994", "12.5"}
    Kept <- RoundedBody
    Sent = {"9.994", "12.5"}
    Attributes = {"x"}
    Offered = {{c1, "unknown"}}
    Asked = {"active", "inactive"}
    MaxFaults = 1
SYMMETRY Symmetry
SPECIFICATION MCSpec
INVARIANTS TypeOK EventsFollowRows DeletedForGood LiveProductsComplete LeftoversAreOfDeleted
    TreeShowsEveryCategory
CHECK_DEADLOCK FALSE
