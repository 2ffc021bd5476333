SPECIFICATION FairSpec
CONSTANTS
    Scheduled = FALSE
    MaxRequests = 2
PROPERTIES
    OneShotPublishesOnce
    ImagesLeadToReady
