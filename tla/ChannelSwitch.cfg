SPECIFICATION ServicesSpec
CONSTANTS
    v1 = v1
    Finders = {w1, w2}
    Videos = {v1}
    VideoOf <- TheVideo
    Draft = Draft
    Standby = Standby
    Nothing = Nothing
    RetryAfter = 0
    Quiet = 1
    Window = 1
    Cooldown = 1
    MaxRequests = 2
    Horizon = 2
    channel = channel
    Channels = {channel}
    Uploads = {x1, x2}
    ChannelOf <- OneChannel
    Checks = {w1, w2}
    Nobody = Nobody
    Switches = {"auto"}
    MaxVideos = 2
    Period = 2
    CheckTerm = 1
    day = day
    e1 = e1
    e2 = e2
    Days = {day}
    Sweepers = {w1, w2}
    Hooks = {x1, x2}
    Events = {e1, e2}
    EventDay <- OneMail
    EventAt <- TwoDates
    NoDelivery = NoDelivery
    Publishers = {w1, w2}
    Ranges = 2
    Unclaimed = Unclaimed
    Services = {"monitoring"}
SYMMETRY Interchangeable
PROPERTY
    PersonSwitchesOn
