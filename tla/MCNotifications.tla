-------------------------- MODULE MCNotifications --------------------------
(* Notifications on a small instance.  The constants are in the .cfg file;  *)
(* the e-mail table must hold one alert for every failure there can be.     *)
EXTENDS Notifications

ASSUME RoomForAlerts == MaxEmail >= MaxSMS * (SmsRetries + 1) + MaxSmsFaults
=============================================================================
