SPECIFICATION CampaignSpec
CONSTANTS
    Runners = {"a", "b"}
    Campaigns <- MCCampaigns
    dataset_purpose = "controlled_experiment"
INVARIANTS
    EligibleIsGenuine
    UndisturbedIsEligible
    LastRecordsArePosted
PROPERTIES
    CampaignEnds
CHECK_DEADLOCK FALSE
