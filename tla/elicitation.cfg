SPECIFICATION FairSpec
CONSTANTS
    ask1 = ask1
    ask2 = ask2
    tool1 = tool1
    mine = mine
    theirs = theirs
    alice = alice
    bob = bob
    eve = eve
    None = None
    Request = {ask1, ask2}
    Responder = {alice, bob, eve}
    Call = {tool1}
    Session = {mine, theirs}
    SessionOf <- OneSession
    CallOf <- OwnCall
    Claims <- Sessions
INVARIANTS ToldTheTruth
PROPERTIES PromiseKept QuestionEnds AnswerEnds
CHECK_DEADLOCK FALSE
