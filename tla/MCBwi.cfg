CONSTANTS
    Nobody = Nobody
    front = front
    back = back
    lender = lender
    other = other
    Servers = {front, back}
    Clients = {lender, other}
    subserver <- MCSubserver
    server_of <- MCServerOf
    use_bwi = {lender}
    stopping_iteration <- MCStoppingIteration
    MaxJobs <- MCMaxJobs
    Faults = TRUE
    Order <- MCOrder
SPECIFICATION Spec
INVARIANTS RequestsArePaired SchedulingFollowsMeasurement BandwidthFollowsRequest
CHECK_DEADLOCK FALSE
