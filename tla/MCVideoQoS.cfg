\* One user, one display: every request and report in any order.
SPECIFICATION QosFairSpec
CONSTANTS
    Users = {u1}
    Displays = {d1}
    Delays = {40, 400}
    FpsAsked = {0, 14}
    Qualities = {"Low", "Best"}
    Linux = FALSE
    AbrOptions = {TRUE, FALSE}
    Rises <- MCRises
    MaxTimes = 3
PROPERTIES Bounded Recovers
CHECK_DEADLOCK FALSE
