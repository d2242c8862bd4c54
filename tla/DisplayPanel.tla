----------------------------- MODULE DisplayPanel -----------------------------
(***************************************************************************)
(* The panel, its driver, the front light and the internal I2C bus that    *)
(* the reset line, the light and the charger hang on                       *)
(* (src/m5_hal/paper_mono/).  The renderer task refreshes and puts to      *)
(* sleep, the main loop sets the light, the battery task attaches the      *)
(* charger to the bus for one reading, and any transfer may fail.          *)
(*                                                                         *)
(* The panel keeps the picture it shows and two memories.  A partial       *)
(* waveform drives the pixels in which memory 1 (the next picture) differs *)
(* from memory 2 (the last one), so it is right only while memory 2 holds  *)
(* what the panel shows; the driver never rewrites memory 2 after it, hence *)
(* the panel must have taken memory 1 over.  Full waveforms need nothing.  *)
(***************************************************************************)
EXTENDS Naturals

CONSTANTS
    MonoImages,   \* frames in black and white,
    GrayImages,   \* frames with a grey in them
    Levels        \* brightness of the light; 0 is off

Images == MonoImages \cup GrayImages

ASSUME PanelAssumption ==
    /\ 0 \in Levels /\ Levels # {0} /\ Images # {}
    /\ Images \cap {"unknown", "mixture", "white", "plane", "noise"} = {}

Kinds == {"partial", "full", "gray"}

VARIABLES
    panel,     \* glass, memory 2, in deep sleep (every refresh writes memory 1
               \* whole, so what it held before matters to none)
    driver,    \* baseline_ready and panel_awake
    draw,      \* the renderer's refresh: its step, frame, kinds and retry
    light,     \* level of the lamp, desired and suspended; missed: the bus has
               \* refused an update since a refresh last asked for the mute
    setter,    \* the main loop in hal_display_set_front_light
    bus,       \* bus_state, and who holds the mutex
    charger    \* the battery task in hal_battery_read_charging; the switch

panelVars == <<panel, driver, draw, light, setter, bus, charger>>

DrawSteps == {"idle", "mute", "begin", "reset", "resetting", "setup", "write", "drive",
              "recover", "recovering", "unmute", "load", "restore", "sleep"}
SetterSteps == {"idle", "check", "apply", "recheck", "dim"}
ChargerSteps == {"idle", "connect", "attached", "check", "recovering"}
Clients == {"renderer", "battery", "nobody"}
\* Also a glass nobody has drawn since power-on, one a waveform left half done,
\* and a memory with white, a grey plane or a broken transfer in it.
Glass == Images \cup {"unknown", "mixture"}
Memory == Images \cup {"white", "plane", "noise"}

PanelType == [glass : Glass, ram2 : Memory, asleep : BOOLEAN]
DriverType == [baseline : BOOLEAN, awake : BOOLEAN]
DrawType == [step : DrawSteps, image : Images, kind : Kinds, retried : BOOLEAN,
             muted : BOOLEAN, ok : BOOLEAN, level : Levels]
LightType == [level : Levels, desired : Levels, suspended : BOOLEAN, missed : BOOLEAN]
SetterType == [step : SetterSteps, level : Levels]
BusType == [state : {"healthy", "faulted", "recovering"}, holder : Clients]
ChargerType == [step : ChargerSteps, attached : BOOLEAN]

PanelTypeOK ==
    /\ panel \in PanelType /\ driver \in DriverType /\ draw \in DrawType
    /\ light \in LightType /\ setter \in SetterType /\ bus \in BusType
    /\ charger \in ChargerType

\* load_white_baseline: white is in both memories, and nothing has been driven; the
\* glass shows what it did before power-on (clear_display is off).
WhiteBaseline == [glass |-> "unknown", ram2 |-> "white", asleep |-> FALSE]
\* epd_otp_driver_init takes that for a baseline.
DriverReady == [baseline |-> TRUE, awake |-> TRUE]
BusReady == [state |-> "healthy", holder |-> "nobody"]
Resting == [step |-> "idle", image |-> CHOOSE i \in Images : TRUE, kind |-> "full",
            retried |-> FALSE, muted |-> FALSE, ok |-> TRUE, level |-> 0]

\* hal_display_init has succeeded and has lit the lamp.
PanelInit ==
    /\ panel = WhiteBaseline /\ driver = DriverReady /\ bus = BusReady
    /\ draw = Resting
    /\ \E l \in Levels \ {0} : light = [level |-> l, desired |-> l, suspended |-> FALSE,
                                  missed |-> FALSE]
    /\ setter = [step |-> "idle", level |-> 0]
    /\ charger = [step |-> "idle", attached |-> FALSE]
-----------------------------------------------------------------------------
\* The bus: a healthy one is locked at once when nobody holds it; a lock is
\* refused when the bus is not healthy or its holder outlasts the time-out.
Locks(client) ==
    /\ bus.state = "healthy" /\ bus.holder = "nobody"
    /\ bus' = [bus EXCEPT !.holder = client]
LockRefused == bus.state # "healthy" \/ bus.holder # "nobody"
Unlocked == [bus EXCEPT !.holder = "nobody"]
FaultedBus == [state |-> "faulted", holder |-> "nobody"]

\* hal_internal_i2c_recover: from any state, under the mutex; the charger is cut
\* off before the bus is handed over, and both controllers must answer.
RecoveryBegins(client) ==
    /\ bus.holder = "nobody"
    /\ bus' = [state |-> "recovering", holder |-> client]
RecoveryEnds(works, chargerStep) ==
    /\ bus' = [state |-> IF works THEN "healthy" ELSE "faulted", holder |-> "nobody"]
    /\ \E cut \in BOOLEAN :
          /\ works => cut
          /\ charger' = [step |-> chargerStep, attached |-> charger.attached /\ ~ cut]
-----------------------------------------------------------------------------
\* apply_front_light, as one step of its caller.
Lit(level) ==
    \/ bus.state = "healthy" /\ bus.holder = "nobody"
       /\ light' = [light EXCEPT !.level = level]
    \/ LockRefused /\ light' = [light EXCEPT !.missed = TRUE]

\* native_refresh_kind: a frame with a grey in it needs grey whatever is asked.
NativeKind(image, quality) ==
    IF image \in GrayImages THEN "gray" ELSE IF quality THEN "full" ELSE "partial"

\* hal_display_refresh: the light is suspended for what is asked, not for what the
\* driver makes of it.
StartRefresh ==
    /\ draw.step = "idle"
    /\ \E image \in Images, quality \in BOOLEAN :
        LET kind == NativeKind(image, quality)
            muted == kind # "partial"
        IN  /\ draw' = [draw EXCEPT !.step = IF muted THEN "mute" ELSE "begin",
                                    !.image = image, !.kind = kind,
                                    !.retried = FALSE, !.muted = muted]
            /\ light' = [light EXCEPT !.suspended = muted, !.missed = @ /\ ~ muted]
    /\ UNCHANGED <<panel, driver, setter, bus, charger>>

\* suspend_front_light_for_full_refresh
Mute ==
    /\ draw.step = "mute" /\ Lit(0)
    /\ draw' = [draw EXCEPT !.step = "begin"]
    /\ UNCHANGED <<panel, driver, setter, bus, charger>>

\* epd_otp_driver_refresh: without a baseline a partial refresh becomes a full one.
ActualKind == IF draw.kind = "partial" /\ ~ driver.baseline THEN "full" ELSE draw.kind

\* Only a partial refresh of a panel that is awake needs no reset.
BeginDriver ==
    /\ draw.step = "begin"
    /\ LET kind == ActualKind
       IN  draw' = [draw EXCEPT !.kind = kind,
                       !.step = IF kind = "partial" /\ driver.awake
                                THEN "write" ELSE "reset"]
    /\ UNCHANGED <<panel, driver, light, setter, bus, charger>>

\* Faulty variant: the baseline is given up by a refresh that fails, but not by a
\* grey one.
AfterGrayKept(ok) == [driver EXCEPT !.baseline = ok]

\* The end of epd_otp_driver_refresh.
After(ok) == [driver EXCEPT !.baseline = ok /\ draw.kind # "gray"]

\* What the renderer goes on with: a lost bus is recovered once.
Ended(ok, busLost) ==
    CASE ok /\ ~ draw.muted -> Resting
      [] busLost /\ ~ draw.retried -> [draw EXCEPT !.step = "recover"]
      [] OTHER -> [Resting EXCEPT !.ok = ok, !.step = IF draw.muted THEN "unmute" ELSE "sleep"]

\* hardware_reset: the reset line is behind the bus.
ResetPanel ==
    /\ draw.step = "reset"
    /\ \/ Locks("renderer") /\ draw' = [draw EXCEPT !.step = "resetting"]
          /\ UNCHANGED driver
       \/ LockRefused /\ UNCHANGED bus
          /\ driver' = After(FALSE) /\ draw' = Ended(FALSE, TRUE)
    /\ UNCHANGED <<panel, light, setter, charger>>

Woken == [panel EXCEPT !.asleep = FALSE]
\* The line is pulled low and released; a pin that cannot be set leaves the bus
\* marked and the panel in either state.
ReleaseReset ==
    /\ draw.step = "resetting"
    /\ \/ /\ bus' = Unlocked /\ panel' = Woken /\ UNCHANGED driver
          /\ draw' = [draw EXCEPT !.step = "setup"]
       \/ /\ bus' = FaultedBus /\ panel' \in {panel, Woken}
          /\ driver' = After(FALSE) /\ draw' = Ended(FALSE, TRUE)
    /\ UNCHANGED <<light, setter, charger>>

\* The panel gets ready and takes its settings, or it does not.
SetsUp(noted) ==
    /\ \/ /\ driver' = [driver EXCEPT !.awake = TRUE]
          /\ draw' = [draw EXCEPT !.step = "write"]
       \/ /\ driver' = [After(FALSE) EXCEPT !.awake = @ \/ noted]
          /\ draw' = Ended(FALSE, FALSE)
    /\ UNCHANGED <<panel, light, setter, bus, charger>>

\* reset_and_initialize_mono and init_gray_mode note that the panel is awake before
\* they set it up, prepare_partial_mode only once it is ready.
SetUpMono == draw.step = "setup" /\ draw.kind = "full" /\ SetsUp(TRUE)
SetUpGray == draw.step = "setup" /\ draw.kind = "gray" /\ SetsUp(TRUE)
PreparePartial ==
    draw.step = "setup" /\ draw.kind = "partial" /\ \E noted \in BOOLEAN : SetsUp(noted)

\* The memories a kind of refresh writes; a sleeping panel takes nothing.
Written ==
    CASE draw.kind = "partial" -> panel
      [] draw.kind = "full" -> [panel EXCEPT !.ram2 = draw.image]
      [] draw.kind = "gray" -> [panel EXCEPT !.ram2 = "plane"]
Spoilt == [panel EXCEPT !.ram2 = IF draw.kind = "partial" THEN @ ELSE "noise"]

\* write_mono_frame, write_gray_plane: a transfer that fails leaves noise.
WriteMemory ==
    /\ draw.step = "write"
    /\ \/ /\ panel' = IF panel.asleep THEN panel ELSE Written
          /\ draw' = [draw EXCEPT !.step = "drive"] /\ UNCHANGED driver
       \/ /\ panel' \in {panel, IF panel.asleep THEN panel ELSE Spoilt}
          /\ driver' = After(FALSE) /\ draw' = Ended(FALSE, FALSE)
    /\ UNCHANGED <<light, setter, bus, charger>>

\* What the waveform makes of the glass.
Driven ==
    IF draw.kind # "partial" THEN [panel EXCEPT !.glass = draw.image]
    ELSE [panel EXCEPT !.ram2 = draw.image,
             !.glass = IF @ = "unknown" THEN @
                       ELSE IF @ = panel.ram2 THEN draw.image
                       ELSE "mixture"]

\* Activation and the wait for BUSY.  A panel whose BUSY does not fall in time may
\* be at any point of the waveform; the BUSY of a sleeping panel never falls.
DrivePanel ==
    /\ draw.step = "drive"
    /\ \/ /\ ~ panel.asleep
          /\ panel' = Driven /\ driver' = After(TRUE) /\ draw' = Ended(TRUE, FALSE)
       \/ /\ panel' \in IF panel.asleep THEN {panel}
                        ELSE {panel, Driven, [Driven EXCEPT !.glass = "mixture"]}
          /\ driver' = After(FALSE) /\ draw' = Ended(FALSE, FALSE)
    /\ UNCHANGED <<light, setter, bus, charger>>

\* hal_display_refresh: the retry is a full one and mutes the light if need be.
RecoverBus ==
    /\ draw.step = "recover"
    /\ \/ /\ RecoveryBegins("renderer")
          /\ draw' = [draw EXCEPT !.step = "recovering", !.retried = TRUE]
       \/ /\ bus.holder # "nobody" /\ UNCHANGED bus
          /\ draw' = Ended(FALSE, FALSE)
    /\ UNCHANGED <<panel, driver, light, setter, charger>>

RecoveredBus ==
    /\ draw.step = "recovering"
    /\ \/ /\ RecoveryEnds(TRUE, charger.step)
          /\ draw' = [draw EXCEPT
                         !.kind = IF @ = "gray" THEN @ ELSE "full",
                         !.muted = TRUE,
                         !.step = IF draw.muted THEN "begin" ELSE "mute"]
          /\ light' = [light EXCEPT !.suspended = TRUE]
       \/ /\ RecoveryEnds(FALSE, charger.step) /\ draw' = Ended(FALSE, FALSE) /\ UNCHANGED light
    /\ UNCHANGED <<panel, driver, setter>>

\* restore_front_light_after_full_refresh, store, load and apply.
Unmute ==
    /\ draw.step = "unmute" /\ light' = [light EXCEPT !.suspended = FALSE]
    /\ draw' = [draw EXCEPT !.step = "load"]
    /\ UNCHANGED <<panel, driver, setter, bus, charger>>
LoadLevel ==
    /\ draw.step = "load"
    /\ draw' = [draw EXCEPT !.step = "restore", !.level = light.desired]
    /\ UNCHANGED <<panel, driver, light, setter, bus, charger>>
RestoreLight ==
    /\ draw.step = "restore" /\ Lit(draw.level)
    /\ draw' = IF draw.ok THEN Resting ELSE [Resting EXCEPT !.ok = FALSE, !.step = "sleep"]
    /\ UNCHANGED <<panel, driver, setter, bus, charger>>

\* epd_otp_driver_sleep, after a refresh that failed or when nothing is to do.  The
\* command may have arrived although its transfer is reported as failed.
SleepPanel ==
    /\ draw.step \in {"idle", "sleep"} /\ driver.awake
    /\ draw' = Resting
    /\ \/ /\ ~ panel.asleep /\ panel' = [panel EXCEPT !.asleep = TRUE]
          /\ driver' = [driver EXCEPT !.awake = FALSE]
       \/ /\ panel' \in {panel, [panel EXCEPT !.asleep = TRUE]} /\ UNCHANGED driver
    /\ UNCHANGED <<light, setter, bus, charger>>
AlreadyAsleep ==
    /\ draw.step = "sleep" /\ ~ driver.awake
    /\ draw' = Resting
    /\ UNCHANGED <<panel, driver, light, setter, bus, charger>>
-----------------------------------------------------------------------------
\* hal_display_set_front_light
SetLight ==
    /\ setter.step = "idle"
    /\ \E l \in Levels :
          /\ setter' = [step |-> "check", level |-> l]
          /\ light' = [light EXCEPT !.desired = l]
    /\ UNCHANGED <<panel, driver, draw, bus, charger>>
CheckSuspended ==
    /\ setter.step = "check"
    /\ setter' = IF light.suspended THEN [step |-> "idle", level |-> 0]
                 ELSE [setter EXCEPT !.step = "apply"]
    /\ UNCHANGED <<panel, driver, draw, light, bus, charger>>
ApplyLevel ==
    /\ setter.step = "apply" /\ Lit(setter.level)
    /\ setter' = [step |-> "recheck", level |-> 0]
    /\ UNCHANGED <<panel, driver, draw, bus, charger>>

Rechecked == IF light.suspended THEN "dim" ELSE "idle"

RecheckSuspended ==
    /\ setter.step = "recheck" /\ setter' = [setter EXCEPT !.step = Rechecked]
    /\ UNCHANGED <<panel, driver, draw, light, bus, charger>>
DimAgain ==
    /\ setter.step = "dim" /\ Lit(0)
    /\ setter' = [setter EXCEPT !.step = "idle"]
    /\ UNCHANGED <<panel, driver, draw, bus, charger>>
-----------------------------------------------------------------------------
\* hal_battery_read_charging
TakeBus ==
    /\ charger.step = "idle" /\ Locks("battery")
    /\ charger' = [charger EXCEPT !.step = "connect"]
    /\ UNCHANGED <<panel, driver, draw, light, setter>>

\* ip2315_session::connect: the pin is set up and its register read, or the bus is
\* marked; the write that attaches the charger may fail and yet have arrived.
ConnectCharger ==
    /\ charger.step = "connect"
    /\ \/ bus' = FaultedBus /\ charger' = [charger EXCEPT !.step = "check"]
       \/ /\ UNCHANGED bus
          /\ \E on \in BOOLEAN : charger' = [step |-> "attached", attached |-> on]
    /\ UNCHANGED <<panel, driver, draw, light, setter>>

\* ip2315_session::disconnect
DisconnectCharger ==
    /\ charger.step = "attached"
    /\ \/ bus' = Unlocked /\ charger' = [step |-> "check", attached |-> FALSE]
       \/ bus' = FaultedBus /\ charger' = [charger EXCEPT !.step = "check"]
    /\ UNCHANGED <<panel, driver, draw, light, setter>>

CheckBus ==
    /\ charger.step = "check"
    /\ \/ /\ bus.state = "faulted" /\ RecoveryBegins("battery")
          /\ charger' = [charger EXCEPT !.step = "recovering"]
       \/ /\ bus.state # "faulted" \/ bus.holder # "nobody"
          /\ charger' = [charger EXCEPT !.step = "idle"] /\ UNCHANGED bus
    /\ UNCHANGED <<panel, driver, draw, light, setter>>
EndRecovery ==
    /\ charger.step = "recovering"
    /\ \E works \in BOOLEAN : RecoveryEnds(works, "idle")
    /\ UNCHANGED <<panel, driver, draw, light, setter>>

RendererActs ==
    \/ StartRefresh \/ Mute \/ BeginDriver \/ ResetPanel \/ ReleaseReset
    \/ SetUpMono \/ SetUpGray \/ PreparePartial \/ WriteMemory \/ DrivePanel
    \/ RecoverBus \/ RecoveredBus \/ Unmute \/ LoadLevel \/ RestoreLight \/ SleepPanel \/ AlreadyAsleep
SetterActs ==
    SetLight \/ CheckSuspended \/ ApplyLevel \/ RecheckSuspended \/ DimAgain
BatteryActs == TakeBus \/ ConnectCharger \/ DisconnectCharger \/ CheckBus \/ EndRecovery

PanelNext == RendererActs \/ SetterActs \/ BatteryActs

PanelSpec == PanelInit /\ [][PanelNext]_panelVars
-----------------------------------------------------------------------------
\* A partial waveform is driven only over memory 2 holding the picture on the
\* glass, whatever refreshes, sleeps, resets and transfers failed before
\* (baseline_ready, epd_otp_driver.cpp); the first one after power-on knows no glass.
DifferenceKnown ==
    draw.step = "drive" /\ draw.kind = "partial" /\ ~ panel.asleep =>
        panel.glass \in {"unknown", panel.ram2}

\* While a refresh the HAL has muted is under way, no setting of the light that has
\* returned leaves the lamp on, unless the bus refused to switch it off
\* (hal_display_set_front_light looks twice).
DarkWhenMuted ==
    light.suspended /\ draw.step # "mute" /\ setter.step = "idle" /\ ~ light.missed =>
        light.level = 0

\* Nobody is given a healthy bus with the charger on it (paper_mono_internal_i2c.cpp,
\* line 119: GPIO11 must be low before any other client resumes).
ChargerDetached ==
    bus.state = "healthy" /\ bus.holder # "battery" => ~ charger.attached

PanelSafe == DifferenceKnown /\ DarkWhenMuted /\ ChargerDetached

\* README.md, line 47: the light is off during full refreshes.
LightOffInFullRefresh ==
    draw.step = "drive" /\ draw.kind # "partial" /\ setter.step = "idle"
        /\ ~ light.missed => light.level = 0
=============================================================================
