------------------------- MODULE MCCampaignDelivery -------------------------
EXTENDS CampaignDelivery, TLC

=============================================================================
