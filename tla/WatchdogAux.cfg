SPECIFICATION FairSpec
CONSTANTS
  Core = core
  Services = {webui}
  MaxFails = 2
  MaxCrashes = 2
  MailCap = 2
 
PROPERTIES StopObeyed
CHECK_DEADLOCK FALSE
