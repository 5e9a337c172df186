CONSTANTS
    Nobody = Nobody
    front = front
    back = back
    lender = lender
    other = other
    Servers = {front, back}
    Clients = {lender}
    subserver <- MCSubserver
    server_of <- MCServerOf
    use_bwi = {lender}
    stopping_iteration <- MCNoIteration
    MaxJobs <- MCMaxJobs
    Faults = FALSE
    Order <- MCShortOrder
SPECIFICATION FairSpec
PROPERTY ClientNotStuck
CHECK_DEADLOCK FALSE
